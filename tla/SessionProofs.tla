----------------------------- MODULE SessionProofs -----------------------------
(***************************************************************************)
(* Proofs about a session: how a capture starts and stops, and what a      *)
(* swept measurement made in it holds.                                     *)
(*                                                                         *)
(* Of starting and stopping, for any set of platforms, programs and rates  *)
(* and any number of captures: the type invariant, that no hook outlives   *)
(* the state it points into, that the worker outlives the callback, and    *)
(* that nothing is left when the owner is idle.                            *)
(*                                                                         *)
(* Of a measurement, for any sweep, tail, ring, pass and sizes of block    *)
(* and any number of runs: the type invariant, that the session, the       *)
(* engine and the generator agree on whether a run is going on, and that   *)
(* a result with nothing dropped holds its whole sweep.                    *)
(***************************************************************************)
EXTENDS SessionLifecycle, Measurement, SequenceTheorems, TLAPS

(* What is left of a destruction after one to four steps, of the session's  *)
(* release after none, one or two, and of the harness's after none.         *)
Rest1 == <<"unhook", "free", "raise", "join">>
Rest2 == <<"free", "raise", "join">>
Rest3 == <<"raise", "join">>
Rest4 == <<"join">>
Session0 == <<"stop stream", "raise", "join", "stop stream",
              "unhook", "free", "raise", "join">>
Session1 == <<"raise", "join", "stop stream", "unhook", "free", "raise", "join">>
Session2 == <<"join", "stop stream", "unhook", "free", "raise", "join">>

Live0 == <<"stop stream", "stop stream", "unhook", "free", "raise", "join">>

(* The stream does not run; a device that still calls was asked and refused. *)
Halted == /\ ~running
          /\ device # "halting"
          /\ device = "running" => refused
          /\ inside => refused

(* No stream and no hook. *)
Quiet == Halted /\ ~stream /\ hook = "none" /\ device = "stopped"

(* The worker runs and has not been told to stop. *)
Working == worker = "running" /\ ~stop

(* Everything is there. *)
Whole == Working /\ stream /\ running /\ hook = "ready" /\ device # "stopped"

(* Being taken apart: a hook has its state. *)
Apart == Halted /\ (hook # "none" => stream)

StartInv ==
  /\ owner \in {"idle", "described"} => Quiet /\ worker # "running"
  /\ owner \in {"opening", "granting"} => Quiet /\ Working
  /\ owner \in {"hooking", "starting"} => Halted /\ stream /\ Working
  /\ owner = "starting" => hook = "ready"
  /\ owner = "capturing" => Whole
  /\ owner # "idle" => sessionRate \in Rates

TeardownInv ==
  owner = "taking down" =>
    \/ teardown \in {Session0, Live0} /\ Whole
    \/ teardown = Session1 /\ Apart /\ Working
    \/ teardown = Session2 /\ Apart /\ stop
    \/ teardown \in {Destruction, Rest1} /\ Apart
    \/ teardown = Rest2 /\ Halted /\ hook = "none" /\ device = "stopped"
    \/ teardown = Rest3 /\ Quiet
    \/ teardown = Rest4 /\ Quiet /\ stop

IInv == TypeOK /\ StartInv /\ TeardownInv

--------------------------------------------------------------------------------
Step == {"stop stream", "unhook", "free", "raise", "join"}

Plan == {Session0, Session1, Session2, Live0, Destruction, Rest1, Rest2, Rest3, Rest4}

(* What each plan does first. *)
LEMMA Heads ==
  /\ Head(Session0) = "stop stream" /\ Head(Live0) = "stop stream"
  /\ Head(Destruction) = "stop stream"
  /\ Head(Session1) = "raise" /\ Head(Rest3) = "raise"
  /\ Head(Session2) = "join" /\ Head(Rest4) = "join"
  /\ Head(Rest1) = "unhook"
  /\ Head(Rest2) = "free"
<1>1. Head(Session0) = "stop stream" BY DEF Session0
<1>2. Head(Live0) = "stop stream" BY DEF Live0
<1>3. Head(Destruction) = "stop stream" BY DEF Destruction
<1>4. Head(Session1) = "raise" BY DEF Session1
<1>5. Head(Rest3) = "raise" BY DEF Rest3
<1>6. Head(Session2) = "join" BY DEF Session2
<1>7. Head(Rest4) = "join" BY DEF Rest4
<1>8. Head(Rest1) = "unhook" BY DEF Rest1
<1>9. Head(Rest2) = "free" BY DEF Rest2
<1> QED BY <1>1, <1>2, <1>3, <1>4, <1>5, <1>6, <1>7, <1>8, <1>9

(* Every plan is a sequence of steps, and none is empty. *)
LEMMA PlanTypes == \A p \in Plan : p \in Seq(Step) /\ p # <<>>
<1>1. Session0 \in Seq(Step) /\ Session0 # <<>> BY DEF Session0, Step
<1>2. Session1 \in Seq(Step) /\ Session1 # <<>> BY DEF Session1, Step
<1>3. Session2 \in Seq(Step) /\ Session2 # <<>> BY DEF Session2, Step
<1>4. Live0 \in Seq(Step) /\ Live0 # <<>> BY DEF Live0, Step
<1>5. Destruction \in Seq(Step) /\ Destruction # <<>> BY DEF Destruction, Step
<1>6. Rest1 \in Seq(Step) /\ Rest1 # <<>> BY DEF Rest1, Step
<1>7. Rest2 \in Seq(Step) /\ Rest2 # <<>> BY DEF Rest2, Step
<1>8. Rest3 \in Seq(Step) /\ Rest3 # <<>> BY DEF Rest3, Step
<1>9. Rest4 \in Seq(Step) /\ Rest4 # <<>> BY DEF Rest4, Step
<1> QED BY <1>1, <1>2, <1>3, <1>4, <1>5, <1>6, <1>7, <1>8, <1>9 DEF Plan

(* Only Rest4 is a single step. *)
LEMMA Lengths ==
  /\ Len(Session0) # 1 /\ Len(Session1) # 1 /\ Len(Session2) # 1
  /\ Len(Live0) # 1 /\ Len(Destruction) # 1
  /\ Len(Rest1) # 1 /\ Len(Rest2) # 1 /\ Len(Rest3) # 1 /\ Len(Rest4) = 1
<1>1. Len(Session0) = 8 BY DEF Session0
<1>2. Len(Session1) = 7 BY DEF Session1
<1>3. Len(Session2) = 6 BY DEF Session2
<1>4. Len(Live0) = 6 BY DEF Live0
<1>5. Len(Destruction) = 5 BY DEF Destruction
<1>6. Len(Rest1) = 4 BY DEF Rest1
<1>7. Len(Rest2) = 3 BY DEF Rest2
<1>8. Len(Rest3) = 2 BY DEF Rest3
<1>9. Len(Rest4) = 1 BY DEF Rest4
<1> QED BY <1>1, <1>2, <1>3, <1>4, <1>5, <1>6, <1>7, <1>8, <1>9

(* The same with any five values in place of the five steps.                *)
LEMMA TailSession0 ==
  ASSUME NEW s, NEW u, NEW f, NEW r, NEW j
  PROVE  Tail(<<s, r, j, s, u, f, r, j>>) = <<r, j, s, u, f, r, j>>
  OBVIOUS

LEMMA TailSession1 ==
  ASSUME NEW s, NEW u, NEW f, NEW r, NEW j
  PROVE  Tail(<<r, j, s, u, f, r, j>>) = <<j, s, u, f, r, j>>
  OBVIOUS

LEMMA TailSession2 ==
  ASSUME NEW s, NEW u, NEW f, NEW r, NEW j
  PROVE  Tail(<<j, s, u, f, r, j>>) = <<s, u, f, r, j>>
  OBVIOUS

LEMMA TailLive0 ==
  ASSUME NEW s, NEW u, NEW f, NEW r, NEW j
  PROVE  Tail(<<s, s, u, f, r, j>>) = <<s, u, f, r, j>>
  OBVIOUS

(* What each plan leaves to do. *)
LEMMA Tails ==
  /\ Tail(Session0) = Session1 /\ Tail(Live0) = Destruction
  /\ Tail(Session1) = Session2 /\ Tail(Session2) = Destruction
  /\ Tail(Destruction) = Rest1 /\ Tail(Rest1) = Rest2
  /\ Tail(Rest2) = Rest3 /\ Tail(Rest3) = Rest4 /\ Tail(Rest4) = <<>>
<1>1. Tail(Session0) = Session1 BY TailSession0, Zenon DEF Session0, Session1
<1>2. Tail(Live0) = Destruction BY TailLive0, Zenon DEF Live0, Destruction
<1>3. Tail(Session1) = Session2 BY TailSession1, Zenon DEF Session1, Session2
<1>4. Tail(Session2) = Destruction BY TailSession2, Zenon DEF Session2, Destruction
<1>5. Tail(Destruction) = Rest1 BY DEF Destruction, Rest1
<1>6. Tail(Rest1) = Rest2 BY DEF Rest1, Rest2
<1>7. Tail(Rest2) = Rest3 BY DEF Rest2, Rest3
<1>8. Tail(Rest3) = Rest4 BY DEF Rest3, Rest4
<1>9. Tail(Rest4) = <<>> BY DEF Rest4
<1> QED BY <1>1, <1>2, <1>3, <1>4, <1>5, <1>6, <1>7, <1>8, <1>9

LEMMA ReleaseIs == Release \in {Session0, Live0}
  BY DEF Release, Session0, Live0

(* After a step the owner goes on with the rest of the plan, or is idle.    *)
LEMMA Onward ==
  ASSUME Done, owner = "taking down", teardown \in Plan
  PROVE  IF teardown = Rest4 THEN owner' = "idle" /\ teardown' = <<>>
                             ELSE owner' = "taking down" /\ teardown' \in Plan
<1>1. CASE teardown = Rest4
  BY <1>1, Tails, Lengths DEF Done
<1>2. CASE teardown # Rest4
  <2>1. Len(teardown) # 1
    <3>1. CASE teardown \in {Session0, Session1, Session2, Live0}
      BY <3>1, Lengths, Zenon
    <3>2. CASE teardown \in {Destruction, Rest1, Rest2, Rest3}
      BY <3>2, Lengths, Zenon
    <3> QED BY <1>2, <3>1, <3>2 DEF Plan
  <2>2. Tail(teardown) \in Plan
    <3>1. CASE teardown \in {Session0, Session1, Session2, Live0}
      BY <3>1, Tails DEF Plan
    <3>2. CASE teardown \in {Destruction, Rest1, Rest2, Rest3}
      BY <3>2, Tails DEF Plan
    <3> QED BY <1>2, <3>1, <3>2 DEF Plan
  <2> QED BY <1>2, <2>1, <2>2 DEF Done
<1> QED BY <1>1, <1>2

--------------------------------------------------------------------------------
LEMMA InitIInv == Init => IInv
<1> SUFFICES ASSUME Init PROVE IInv
  OBVIOUS
<1>1. TypeOK
  <2>1. teardown \in Seq(Step) /\ (teardown = <<>> <=> owner # "taking down")
    BY DEF Init
  <2>2. starts \in 0..MaxStarts /\ rateChanges \in 0..MaxRateChanges
    BY LifecycleAssumption DEF Init
  <2> QED BY <2>1, <2>2 DEF Init, TypeOK, Step
<1>2. StartInv
  BY DEF Init, StartInv, Quiet, Halted
<1>3. TeardownInv
  BY DEF Init, TeardownInv
<1> QED BY <1>1, <1>2, <1>3 DEF IInv

(* Starting. *)
LEMMA StartingIInv ==
  ASSUME IInv, Describe \/ Starting \/ BeginRelease
  PROVE  IInv'
<1> USE DEF IInv, TypeOK, StartInv, TeardownInv, Quiet, Halted, Working, Whole, Apart,
            deviceVars, engineVars, streamVars, ownerVars
<1>1. CASE Describe
  BY <1>1, LifecycleAssumption DEF Describe
<1>2. CASE RefuseConfiguration
  BY <1>2 DEF RefuseConfiguration
<1>3. CASE StartEngine
  <2>1. TypeOK'
    BY <1>3 DEF StartEngine
  <2>2. StartInv' /\ TeardownInv'
    BY <1>3 DEF StartEngine
  <2> QED BY <2>1, <2>2
<1>4. CASE RequestRate
  BY <1>4 DEF RequestRate
<1>5. CASE RefuseOpen
  <2>1. Destruction \in Seq(Step) /\ Destruction # <<>>
    BY PlanTypes DEF Plan
  <2> QED BY <1>5, <2>1 DEF RefuseOpen, TakeDown, Step
<1>6. CASE Grant
  BY <1>6 DEF Grant
<1>7. CASE CreateUnit
  BY <1>7 DEF CreateUnit
<1>8. CASE InstallHook
  BY <1>8 DEF InstallHook
<1>9. CASE RefuseHookOrStart
  <2>1. Destruction \in Seq(Step) /\ Destruction # <<>>
    BY PlanTypes DEF Plan
  <2> QED BY <1>9, <2>1 DEF RefuseHookOrStart, TakeDown, Step
<1>10. CASE StartStream
  BY <1>10 DEF StartStream
<1>11. CASE BeginRelease
  <2>1. Release \in {Session0, Live0} /\ Release \in Seq(Step) /\ Release # <<>>
    BY ReleaseIs, PlanTypes DEF Plan
  <2> QED BY <1>11, <2>1 DEF BeginRelease, TakeDown, Step
<1> QED BY <1>1, <1>2, <1>3, <1>4, <1>5, <1>6, <1>7, <1>8, <1>9, <1>10, <1>11 DEF Starting

(* A teardown goes on, or ends: what the plan's new remainder asks for is    *)
(* all there is to show.                                                    *)
LEMMA DoneTypes ==
  ASSUME Done, owner = "taking down", teardown \in Plan
  PROVE  /\ teardown' \in Seq(Step)
         /\ owner' \in {"idle", "taking down"}
         /\ teardown' = <<>> <=> owner' # "taking down"
<1>1. <<>> \in Seq(Step)
  BY EmptySeq
<1> QED BY <1>1, Onward, PlanTypes

(* Taking down. *)
LEMMA TakingDownIInv ==
  ASSUME IInv, TakingDown
  PROVE  IInv'
<1> USE DEF Quiet, Halted, Working, Whole, Apart,
            deviceVars, engineVars, streamVars, ownerVars
<1>0. owner = "taking down" /\ teardown \in Plan
  BY DEF IInv, TypeOK, TeardownInv, TakingDown, SkipStop, HaltDevice, StopStream,
         RefuseStop, Unhook, Free, RaiseStop, Join, Doing, Plan
<1>1. TypeOK'
  <2>1. CASE HaltDevice
    BY <2>1 DEF HaltDevice, IInv, TypeOK, Doing, MustStop
  <2>2. CASE SkipStop \/ StopStream \/ RefuseStop \/ Unhook \/ Free \/ RaiseStop \/ Join
    <3>1. Done
      BY <2>2 DEF SkipStop, StopStream, RefuseStop, Unhook, Free, RaiseStop, Join
    <3>2. /\ teardown' \in Seq(Step)
          /\ owner' \in {"idle", "taking down"}
          /\ teardown' = <<>> <=> owner' # "taking down"
      BY <1>0, <3>1, DoneTypes
    <3>2a. owner' \in {"idle", "described", "opening", "granting", "hooking",
                       "starting", "capturing", "taking down"}
      BY <3>2
    <3>3. UNCHANGED <<platform, program, rate, rateChanges, inside, worker, grantedRate,
                      sessionRate, starts>>
      BY <2>2 DEF SkipStop, StopStream, RefuseStop, Unhook, Free, RaiseStop, Join
    <3>4. device' \in {device, "stopped"} /\ hook' \in {hook, "none"}
      BY <2>2 DEF SkipStop, StopStream, RefuseStop, Unhook, Free, RaiseStop, Join
    <3>5. /\ stream' \in {stream, FALSE} /\ running' \in {running, FALSE}
          /\ stop' \in {stop, TRUE} /\ refused' \in {refused, TRUE}
      BY <2>2 DEF SkipStop, StopStream, RefuseStop, Unhook, Free, RaiseStop, Join
    <3>6. /\ device' \in {"stopped", "running", "halting"}
          /\ hook' \in {"none", "created", "ready"}
      BY <3>4, Zenon DEF IInv, TypeOK
    <3>7. stream' \in BOOLEAN /\ running' \in BOOLEAN /\ stop' \in BOOLEAN /\ refused' \in BOOLEAN
      BY <3>5, Zenon DEF IInv, TypeOK
    <3> QED BY <3>2, <3>2a, <3>3, <3>6, <3>7, ZenonT(60) DEF IInv, TypeOK, Step
  <2> QED BY <2>1, <2>2 DEF TakingDown
<1>2. sessionRate' \in Rates
  BY <1>0 DEF IInv, StartInv, TakingDown, SkipStop, HaltDevice, StopStream,
              RefuseStop, Unhook, Free, RaiseStop, Join
<1>3. CASE SkipStop
  <2>1. teardown = Destruction /\ Apart
    BY <1>0, <1>3, Heads DEF IInv, TeardownInv, SkipStop, MustStop, Doing
  <2>2. teardown' = Rest1 /\ owner' = "taking down"
    BY <1>0, <1>3, <2>1, Tails, Lengths DEF SkipStop, Done
  <2> QED BY <1>1, <1>2, <1>3, <2>1, <2>2 DEF SkipStop, IInv, StartInv, TeardownInv
<1>4. CASE HaltDevice
  <2>1. teardown \in {Session0, Live0} /\ Whole
    BY <1>0, <1>4, Heads DEF IInv, TeardownInv, HaltDevice, MustStop, Doing
  <2> QED BY <1>0, <1>1, <1>2, <1>4, <2>1 DEF HaltDevice, IInv, StartInv, TeardownInv
<1>5. CASE StopStream \/ RefuseStop
  <2>1. teardown \in {Session0, Live0} /\ Whole
    BY <1>0, <1>5, Heads DEF IInv, TeardownInv, StopStream, RefuseStop, MustStop, Doing
  <2>2. /\ owner' = "taking down"
        /\ teardown' \in {Session1, Destruction}
    BY <1>0, <1>5, <2>1, Tails, Lengths DEF StopStream, RefuseStop, Done
  <2>3. Apart' /\ Working'
    <3>1. CASE StopStream
      BY <2>1, <3>1 DEF StopStream
    <3>2. CASE RefuseStop
      BY <2>1, <3>2 DEF RefuseStop
    <3> QED BY <1>5, <3>1, <3>2
  <2> QED BY <1>1, <1>2, <2>2, <2>3 DEF IInv, StartInv, TeardownInv
<1>6. CASE Unhook
  <2>1. teardown = Rest1 /\ Apart
    BY <1>0, <1>6, Heads DEF IInv, TeardownInv, Unhook, Doing
  <2>2. teardown' = Rest2 /\ owner' = "taking down"
    BY <1>0, <1>6, <2>1, Tails, Lengths DEF Unhook, Done
  <2> QED BY <1>1, <1>2, <1>6, <2>1, <2>2 DEF Unhook, IInv, StartInv, TeardownInv
<1>7. CASE Free
  <2>1. teardown = Rest2 /\ Halted /\ hook = "none" /\ device = "stopped"
    BY <1>0, <1>7, Heads DEF IInv, TeardownInv, Free, Doing
  <2>2. teardown' = Rest3 /\ owner' = "taking down"
    BY <1>0, <1>7, <2>1, Tails, Lengths DEF Free, Done
  <2> QED BY <1>1, <1>2, <1>7, <2>1, <2>2 DEF Free, IInv, StartInv, TeardownInv
<1>8. CASE RaiseStop
  <2>1. \/ teardown = Session1 /\ Apart
        \/ teardown = Rest3 /\ Quiet
    BY <1>0, <1>8, Heads DEF IInv, TeardownInv, RaiseStop, Doing
  <2>2. /\ owner' = "taking down"
        /\ teardown = Session1 => teardown' = Session2
        /\ teardown = Rest3 => teardown' = Rest4
    BY <1>0, <1>8, <2>1, Tails, Lengths DEF RaiseStop, Done
  <2> QED BY <1>1, <1>2, <1>8, <2>1, <2>2 DEF RaiseStop, IInv, StartInv, TeardownInv
<1>9. CASE Join
  <2>1. \/ teardown = Session2 /\ Apart /\ stop
        \/ teardown = Rest4 /\ Quiet
    BY <1>0, <1>9, Heads DEF IInv, TeardownInv, Join, Doing
  <2>2. /\ teardown = Session2 => teardown' = Destruction /\ owner' = "taking down"
        /\ teardown = Rest4 => owner' = "idle"
    BY <1>0, <1>9, <2>1, Tails, Lengths DEF Join, Done
  <2> QED BY <1>1, <1>2, <1>9, <2>1, <2>2 DEF Join, IInv, StartInv, TeardownInv
<1> QED BY <1>3, <1>4, <1>5, <1>6, <1>7, <1>8, <1>9 DEF TakingDown

(* The worker, the device and other applications. *)
LEMMA OthersIInv ==
  ASSUME IInv, WorkerLeaves \/ DeviceCalls \/ CallReturns \/ RateChanges \/ UNCHANGED vars
  PROVE  IInv'
<1>0. TypeOK'
  <2>1. UNCHANGED <<platform, program, device, hook, stop, refused, stream, running,
                    sessionRate, grantedRate, owner, teardown, starts>>
    BY DEF WorkerLeaves, DeviceCalls, CallReturns, RateChanges, vars,
           deviceVars, engineVars, streamVars, ownerVars
  <2>2. worker' \in {worker, "done"} /\ inside' \in {inside, TRUE, FALSE}
    BY DEF WorkerLeaves, DeviceCalls, CallReturns, RateChanges, vars,
           deviceVars, engineVars, streamVars, ownerVars
  <2>3. worker' \in {"none", "running", "done"} /\ inside' \in BOOLEAN
    BY <2>2, Zenon DEF IInv, TypeOK
  <2>4. \/ UNCHANGED <<rate, rateChanges>>
        \/ rate' \in Rates /\ rateChanges' = rateChanges + 1 /\ rateChanges < MaxRateChanges
    BY DEF WorkerLeaves, DeviceCalls, CallReturns, RateChanges, vars, deviceVars
  <2>5. rate \in Rates /\ rateChanges \in 0..MaxRateChanges
    BY Zenon DEF IInv, TypeOK
  <2>6. rate' \in Rates /\ rateChanges' \in 0..MaxRateChanges
    BY <2>4, <2>5, LifecycleAssumption
  <2>7. /\ teardown' \in Seq(Step)
        /\ teardown' = <<>> <=> owner' # "taking down"
    <3>1. teardown' = teardown /\ owner' = owner
      BY <2>1
    <3>2. /\ teardown \in Seq(Step)
          /\ teardown = <<>> <=> owner # "taking down"
      BY Zenon DEF IInv, TypeOK, Step
    <3> QED BY <3>1, <3>2, Zenon
  <2>8. /\ platform' \in Platforms /\ program' \in Programs
        /\ device' \in {"stopped", "running", "halting"}
        /\ hook' \in {"none", "created", "ready"}
    BY <2>1, Zenon DEF IInv, TypeOK
  <2>9. stop' \in BOOLEAN /\ refused' \in BOOLEAN /\ stream' \in BOOLEAN /\ running' \in BOOLEAN
    BY <2>1, Zenon DEF IInv, TypeOK
  <2>10. /\ sessionRate' \in Rates \cup {NoRate} /\ grantedRate' \in Rates \cup {NoRate}
         /\ owner' \in {"idle", "described", "opening", "granting", "hooking",
                       "starting", "capturing", "taking down"}
         /\ starts' \in 0..MaxStarts
    BY <2>1, Zenon DEF IInv, TypeOK
  <2> QED BY <2>3, <2>6, <2>7, <2>8, <2>9, <2>10, Zenon DEF TypeOK, Step
<1> USE DEF IInv, TypeOK, StartInv, TeardownInv, Quiet, Halted, Working, Whole, Apart,
            deviceVars, engineVars, streamVars, ownerVars
<1>1. CASE WorkerLeaves
  <2>1. StartInv'    BY <1>1 DEF WorkerLeaves
  <2>2. TeardownInv' BY <1>1 DEF WorkerLeaves
  <2> QED BY <1>0, <2>1, <2>2
<1>2. CASE DeviceCalls
  <2>1. StartInv'    BY <1>2 DEF DeviceCalls
  <2>2. TeardownInv' BY <1>2 DEF DeviceCalls
  <2> QED BY <1>0, <2>1, <2>2
<1>3. CASE CallReturns
  <2>1. StartInv'    BY <1>3 DEF CallReturns
  <2>2. TeardownInv' BY <1>3 DEF CallReturns
  <2> QED BY <1>0, <2>1, <2>2
<1>4. CASE RateChanges
  <2>1. StartInv'    BY <1>4 DEF RateChanges
  <2>2. TeardownInv' BY <1>4 DEF RateChanges
  <2> QED BY <1>0, <2>1, <2>2
<1>5. CASE UNCHANGED vars
  <2>1. StartInv'    BY <1>5 DEF vars
  <2>2. TeardownInv' BY <1>5 DEF vars
  <2> QED BY <1>0, <2>1, <2>2
<1> QED BY <1>1, <1>2, <1>3, <1>4, <1>5

THEOREM Invariance == Spec => []IInv
<1>1. IInv /\ [Next]_vars => IInv'
  BY StartingIInv, TakingDownIInv, OthersIInv DEF Next
<1> QED BY InitIInv, <1>1, PTL DEF Spec

--------------------------------------------------------------------------------
(* Every variable keeps its type, and there is a plan exactly while         *)
(* something is being taken down.                                           *)
THEOREM TypeCorrect == Spec => []TypeOK
<1>1. IInv => TypeOK
  BY DEF IInv
<1> QED BY Invariance, <1>1, PTL

(* coreaudio.cpp, ios.mm: the system never holds a hook into a stream that  *)
(* is gone, and the audio thread is inside one only if the device refused   *)
(* to stop.                                                                 *)
THEOREM LiveState == Spec => []CallbackOnLiveState
<1>1. IInv => CallbackOnLiveState
  BY DEF IInv, TypeOK, StartInv, TeardownInv, Quiet, Halted, Working, Whole, Apart,
         CallbackOnLiveState
<1> QED BY Invariance, <1>1, PTL

(* session.cpp: the thread that drains the ring outlives what feeds it.     *)
THEOREM DrainOutlivesFeed == Spec => []DrainedWhileFed
<1>1. IInv => DrainedWhileFed
  BY DEF IInv, TypeOK, StartInv, TeardownInv, Quiet, Halted, Working, Whole, Apart,
         DrainedWhileFed
<1> QED BY Invariance, <1>1, PTL

(* start.cpp, session.cpp: whatever was refused on the way, an idle owner    *)
(* has no thread, no hook and no device running.                            *)
THEOREM LeavesNothing == Spec => []NothingLeftRunning
<1>1. IInv => NothingLeftRunning
  BY DEF IInv, StartInv, Quiet, Halted, NothingLeftRunning
<1> QED BY Invariance, <1>1, PTL

--------------------------------------------------------------------------------
(* Swept measurements. *)

(* What the session, the engine and the generator agree on, wherever the    *)
(* owner is inside a call: what SessionAgrees says, and what it becomes     *)
(* while a call has changed one of them and not yet the other.              *)
AgreeInv ==
  /\ ui = "free" => (measuring # None <=> recording.active)
  /\ ui = "free" => stimulus \in {None, measuring}
  /\ ui = "free" /\ measuring # None /\ ~replaced => stimulus = measuring
  /\ ui = "armed" => runs > 0 /\ recording.active
  /\ ui = "cancelled" => ~recording.active /\ measuring = None
  /\ ui = "finishing" => ~recording.active /\ measuring # None
  /\ ui # "free" \/ measuring # None => (ui = "cancelled" \/ measured = NoResult)

(* A run not yet under way has left no trace. *)
UnbegunInv ==
  \A r \in Runs : r > runs \/ (r = runs /\ ui = "armed") =>
    /\ from[r] = Never /\ upTo[r] = Never
    /\ stimulus # r /\ playing # r /\ measuring # r

(* The generator plays a sweep from the moment the callback has noted it.   *)
PlayingInv ==
  /\ stimulus # None /\ seen # generation =>
       from[stimulus] = Never /\ upTo[stimulus] = Never /\ playing # stimulus
  /\ stimulus # None /\ seen = generation =>
       from[stimulus] # Never /\ upTo[stimulus] = Never /\ playing = stimulus

(* A recording that is armed has as much as it does not want. *)
CountInv ==
  /\ gaps <= overruns
  /\ recording.active => Len(recording.samples) + recording.wanted = RunFrames

(* What ResultHoldsSweep asks for, of a run. *)
Undisturbed(r) == overruns = gaps /\ Lead(r) <= TailFrames /\ ~replaced

(* Samples recorded, in hand and waiting: all of them in their order.       *)
Waiting == Len(recording.samples) + Len(block) + Len(queue)

(* A sweep the callback has not noted yet will come no later than its lead. *)
AheadInv(r) == Waiting + blockFrames <= Lead(r)

(* Of what was offered since a sweep began everything is where it should be *)
(* in the recording, the block in hand and the ring, and before it is no    *)
(* more than the lead.                                                      *)
InFlightInv(r) ==
  /\ from[r] <= offered
  /\ offered - from[r] <= Waiting
  /\ Waiting <= Lead(r) + (offered - from[r])
  /\ \A i \in DOMAIN queue :
       LET x == offered - Len(queue) - 1 + i IN x >= from[r] => queue[i] = x
  /\ \A i \in DOMAIN block :
       LET x == offered - (Len(queue) + Len(block)) - 1 + i
       IN  x >= from[r] => block[i] = x
  /\ \A i \in DOMAIN recording.samples :
       LET x == offered - Waiting - 1 + i IN x >= from[r] => recording.samples[i] = x

(* A response with the whole sweep in it. *)
Holds(r, response) ==
  /\ from[r] # Never /\ from[r] + SweepFrames <= offered
  /\ \A x \in from[r]..(from[r] + SweepFrames - 1) :
       \E k \in DOMAIN response : response[k] = x

(* A run under way, undisturbed, will have its whole sweep. *)
UnderWay(r) ==
  /\ seen # generation => AheadInv(r) /\ recording.wanted > 0
  /\ seen = generation /\ recording.wanted > 0 => InFlightInv(r)
  /\ seen = generation /\ recording.wanted = 0 => Holds(r, recording.samples)

(* The generator was not taken off a sweep before its end. *)
PlayedOut(r) == upTo[r] = Never \/ upTo[r] >= from[r] + SweepFrames

SweepInv ==
  /\ ui = "free" /\ measuring # None /\ Undisturbed(measuring) => UnderWay(measuring)
  /\ ui = "finishing" /\ Undisturbed(measuring) =>
       /\ Holds(measuring, taken) /\ PlayedOut(measuring)
       /\ stimulus = measuring => seen = generation
  /\ measured # NoResult /\ Undisturbed(measured.run) =>
       /\ Holds(measured.run, measured.response) /\ PlayedOut(measured.run)
       /\ measured.run \in Runs /\ stimulus # measured.run

MeasurementInv ==
  MeasurementTypeOK /\ AgreeInv /\ UnbegunInv /\ PlayingInv /\ CountInv /\ SweepInv

--------------------------------------------------------------------------------
(* Blocks have a largest, and no block is larger. *)
LEMMA LargestIs ==
  LargestBlock \in BlockSizes /\ \A n \in BlockSizes : n <= LargestBlock
  BY MeasurementAssumption DEF LargestBlock

LEMMA SizesAre ==
  /\ DrainFrames \in Nat \ {0} /\ CapacityFrames \in Nat \ {0}
  /\ SweepFrames \in Nat \ {0} /\ TailFrames \in Nat
  /\ BlockSizes \subseteq Nat \ {0}
  /\ MaxRuns \in Nat /\ MaxChanges \in Nat /\ MaxOffered \in Nat
  BY MeasurementAssumption

LEMMA RunFramesIs == RunFrames \in Nat \ {0} /\ RunFrames = SweepFrames + TailFrames
  BY MeasurementAssumption DEF RunFrames

LEMMA LeadIs ==
  ASSUME MeasurementTypeOK, NEW r \in Runs
  PROVE  Lead(r) \in Nat /\ Lead(r) = head[r] + DrainFrames + CapacityFrames + LargestBlock
  <1>1. head[r] \in Nat
    BY DEF MeasurementTypeOK
  <1>2. DrainFrames \in Nat /\ CapacityFrames \in Nat /\ LargestBlock \in Nat
    BY LargestIs, SizesAre
  <1> QED BY <1>1, <1>2 DEF Lead

(* The parts of the type invariant each thread disturbs. *)
RingTypes == /\ offered \in 0..MaxOffered /\ overruns \in Nat
             /\ queue \in Seq(Nat) /\ Len(queue) <= CapacityFrames

WorkerTypes == /\ block \in Seq(Nat) /\ Len(block) <= DrainFrames
               /\ workerAt \in {"drain", "capture"} /\ (workerAt = "drain" <=> block = <<>>)

RecordingTypes ==
  recording \in [samples : Seq(Nat), wanted : 0..RunFrames, total : {0, RunFrames},
                 active : BOOLEAN]

CallbackTypes ==
  /\ callback \in {"idle", "writing"}
  /\ callback = "idle" => blockFrames = 0
  /\ callback = "writing" => blockFrames \in BlockSizes /\ offered + blockFrames <= MaxOffered
  /\ seen \in 0..generation /\ playing \in 0..MaxRuns
  /\ from \in [Runs -> {Never} \cup 0..MaxOffered]
  /\ upTo \in [Runs -> {Never} \cup 0..MaxOffered]

CallTypes ==
  /\ generation \in Nat /\ stimulus \in 0..MaxRuns
  /\ ui \in {"free", "armed", "cancelled", "finishing"}
  /\ runs \in 0..MaxRuns /\ changes \in 0..MaxChanges
  /\ measuring \in 0..MaxRuns /\ taken \in Seq(Nat)
  /\ measured \in [run : 0..MaxRuns, response : Seq(Nat), arrival : {0}]
  /\ head \in [Runs -> Nat] /\ gaps \in Nat /\ replaced \in BOOLEAN

LEMMA TypesAre ==
  MeasurementTypeOK <=>
    RingTypes /\ WorkerTypes /\ RecordingTypes /\ CallbackTypes /\ CallTypes
  BY DEF MeasurementTypeOK, RingTypes, WorkerTypes, RecordingTypes, CallbackTypes, CallTypes

(* What a block written does to the ring. *)
LEMMA AcceptIs ==
  ASSUME MeasurementTypeOK, callback = "writing", Ring!Accept(blockFrames)
  PROVE  /\ queue' \in Seq(Nat) /\ Len(queue') = Len(queue) + blockFrames
         /\ Len(queue') <= CapacityFrames
         /\ \A i \in 1..Len(queue) : queue'[i] = queue[i]
         /\ \A i \in (Len(queue) + 1)..Len(queue') : queue'[i] = offered + (i - Len(queue)) - 1
         /\ offered' = offered + blockFrames /\ overruns' = overruns
  <1> DEFINE new == [i \in 1..blockFrames |-> offered + i - 1]
  <1>1. blockFrames \in Nat /\ offered \in Nat /\ queue \in Seq(Nat)
        /\ CapacityFrames \in Nat
    <2>1. blockFrames \in BlockSizes /\ offered \in 0..MaxOffered /\ queue \in Seq(Nat)
      BY DEF MeasurementTypeOK
    <2> QED BY <2>1, SizesAre
  <1>2. new \in Seq(Nat) /\ Len(new) = blockFrames
    BY <1>1
  <1>3. queue' = queue \o new /\ offered' = offered + blockFrames /\ overruns' = overruns
        /\ Len(queue) + blockFrames <= CapacityFrames
    BY <1>1 DEF Ring!Accept
  <1>4. \A i \in 1..blockFrames : new[i] = offered + i - 1
    OBVIOUS
  <1> HIDE DEF new
  <1>5. queue' \in Seq(Nat) /\ Len(queue') = Len(queue) + blockFrames
    BY <1>1, <1>2, <1>3, ConcatProperties
  <1>6. \A i \in 1..Len(queue) : queue'[i] = queue[i]
    BY <1>1, <1>2, <1>3, ConcatProperties
  <1>7. \A i \in (Len(queue) + 1)..Len(queue') : queue'[i] = new[i - Len(queue)]
    BY <1>1, <1>2, <1>3, <1>5, ConcatProperties
  <1>8. \A i \in (Len(queue) + 1)..Len(queue') : i - Len(queue) \in 1..blockFrames
    BY <1>1, <1>5
  <1>9. \A i \in (Len(queue) + 1)..Len(queue') : queue'[i] = offered + (i - Len(queue)) - 1
    BY <1>4, <1>7, <1>8
  <1> QED BY <1>1, <1>3, <1>5, <1>6, <1>9

LEMMA DropIs ==
  ASSUME MeasurementTypeOK, callback = "writing", Ring!Drop(blockFrames)
  PROVE  queue' = queue /\ offered' = offered + blockFrames /\ overruns' = overruns + 1
  <1>1. blockFrames \in Nat
    BY SizesAre DEF MeasurementTypeOK
  <1> QED BY <1>1 DEF Ring!Drop

(* What a pass of the worker takes off it. *)
LEMMA DrainIs ==
  ASSUME MeasurementTypeOK, Drain
  PROVE  /\ block = <<>> /\ Len(block) = 0
         /\ block' \in Seq(Nat) /\ Len(block') \in 1..DrainFrames
         /\ queue' \in Seq(Nat) /\ Len(queue') + Len(block') = Len(queue)
         /\ \A i \in 1..Len(block') : block'[i] = queue[i]
         /\ \A i \in 1..Len(queue') : queue'[i] = queue[Len(block') + i]
         /\ offered' = offered /\ overruns' = overruns
  <1> DEFINE n == Lesser(DrainFrames, Len(queue))
  <1>1. queue \in Seq(Nat) /\ DrainFrames \in Nat /\ Len(queue) \in Nat /\ block = <<>>
    BY SizesAre DEF MeasurementTypeOK, Drain
  <1>2. n \in 0..Len(queue) /\ n <= DrainFrames
    BY <1>1 DEF Lesser
  <1>3. n > 0 /\ block' = SubSeq(queue, 1, n) /\ Ring!Deliver(n)
    BY DEF Drain
  <1> HIDE DEF n
  <1>4. queue' = SubSeq(queue, n + 1, Len(queue)) /\ offered' = offered /\ overruns' = overruns
    BY <1>2, <1>3 DEF Ring!Deliver
  <1>5. block' \in Seq(Nat) /\ Len(block') = n
    BY <1>1, <1>2, <1>3, SubSeqProperties
  <1>6. \A i \in 1..n : block'[i] = queue[1 + i - 1]
    BY <1>1, <1>2, <1>3, SubSeqProperties
  <1>7. queue' \in Seq(Nat)
    BY <1>1, <1>2, <1>4, SubSeqProperties
  <1>8. Len(queue') = Len(queue) - n
    BY <1>1, <1>2, <1>4, SubSeqProperties
  <1>9. \A i \in 1..(Len(queue) - n) : queue'[i] = queue[n + i]
    BY <1>1, <1>2, <1>4, SubSeqProperties
  <1>10. Len(block') \in 1..DrainFrames /\ Len(queue') + Len(block') = Len(queue)
    BY <1>1, <1>2, <1>3, <1>5, <1>8
  <1>11. \A i \in 1..Len(block') : block'[i] = queue[i]
    <2>1. \A i \in 1..n : 1 + i - 1 = i
      BY <1>2
    <2> QED BY <1>5, <1>6, <2>1
  <1>12. \A i \in 1..Len(queue') : queue'[i] = queue[Len(block') + i]
    BY <1>5, <1>8, <1>9
  <1>13. Len(block) = 0
    BY <1>1
  <1> QED BY <1>1, <1>4, <1>5, <1>7, <1>10, <1>11, <1>12, <1>13

(* What of the block in hand goes into a recording that still wants some. *)
LEMMA CaptureIs ==
  ASSUME MeasurementTypeOK, Capture, recording.active, recording.wanted > 0
  PROVE  LET n == Lesser(Len(block), recording.wanted)
             old == Len(recording.samples)
         IN  /\ n \in 0..Len(block) /\ n \in 0..recording.wanted
             /\ recording' = [samples |-> recording'.samples, wanted |-> recording.wanted - n,
                              total |-> recording.total, active |-> TRUE]
             /\ recording'.samples \in Seq(Nat) /\ Len(recording'.samples) = old + n
             /\ \A i \in 1..old : recording'.samples[i] = recording.samples[i]
             /\ \A i \in (old + 1)..(old + n) : recording'.samples[i] = block[i - old]
  <1> DEFINE n == Lesser(Len(block), recording.wanted)
             old == Len(recording.samples)
             cut == SubSeq(block, 1, n)
  <1>1. block \in Seq(Nat) /\ recording.samples \in Seq(Nat) /\ recording.wanted \in Nat
        /\ old \in Nat /\ Len(block) \in Nat /\ RunFrames \in Nat
    BY RunFramesIs DEF MeasurementTypeOK
  <1>2. n \in 0..Len(block) /\ n \in 0..recording.wanted
    BY <1>1 DEF Lesser
  <1>3. recording' = [recording EXCEPT !.samples = @ \o Taken, !.wanted = @ - Len(Taken)]
    BY DEF Capture
  <1>4. Taken = cut
    BY DEF Taken
  <1> HIDE DEF n
  <1>5. cut \in Seq(Nat) /\ Len(cut) = n
    BY <1>1, <1>2, SubSeqProperties
  <1>6. \A i \in 1..n : cut[i] = block[1 + i - 1]
    BY <1>1, <1>2, SubSeqProperties
  <1>7. \A i \in 1..n : cut[i] = block[i]
    BY <1>2, <1>6
  <1> HIDE DEF cut
  <1> DEFINE s == recording.samples \o cut
  <1>8. recording' = [samples |-> s, wanted |-> recording.wanted - n,
                      total |-> recording.total, active |-> TRUE]
    BY <1>3, <1>4, <1>5 DEF MeasurementTypeOK
  <1>9. s \in Seq(Nat)
    BY <1>1, <1>5, ConcatProperties
  <1>10. Len(s) = old + n
    BY <1>1, <1>5, ConcatProperties
  <1>11. \A i \in 1..old : s[i] = recording.samples[i]
    BY <1>1, <1>5, ConcatProperties
  <1>12. \A i \in (old + 1)..(old + n) : s[i] = cut[i - old]
    BY <1>1, <1>5, ConcatProperties
  <1>13. \A i \in (old + 1)..(old + n) : i - old \in 1..n
    BY <1>1, <1>2
  <1>14. \A i \in (old + 1)..(old + n) : s[i] = block[i - old]
    BY <1>7, <1>12, <1>13
  <1>15. recording'.samples = s
    BY <1>8
  <1> HIDE DEF s
  <1> QED BY <1>2, <1>8, <1>9, <1>10, <1>11, <1>14, <1>15 DEF n

(* A response reported is what was taken, and its arrival is zero. *)
LEMMA ResultIs ==
  ASSUME NEW r \in 0..MaxRuns, NEW s \in Seq(Nat)
  PROVE  Result(r, s) = [run |-> r, response |-> s, arrival |-> 0]
  <1>1. Lag(r, s) \in Int
    <2>1. CASE \E k \in DOMAIN s : s[k] = from[r]
      <3>1. (CHOOSE k \in DOMAIN s : s[k] = from[r]) \in DOMAIN s
        BY <2>1
      <3>2. DOMAIN s \subseteq Int
        OBVIOUS
      <3> QED BY <2>1, <3>1, <3>2 DEF Lag
    <2>2. CASE ~\E k \in DOMAIN s : s[k] = from[r]
      BY <2>2 DEF Lag
    <2> QED BY <2>1, <2>2
  <1> DEFINE lag == Lag(r, s)
  <1>2. Result(r, s) = [run |-> r, response |-> s, arrival |-> lag - lag]
    BY DEF Result, TimeAt
  <1> HIDE DEF lag
  <1>3. lag - lag = 0
    BY <1>1 DEF lag
  <1> QED BY <1>2, <1>3

LEMMA MeasurementInitially == MeasurementInit => MeasurementInv
  <1> SUFFICES ASSUME MeasurementInit PROVE MeasurementInv
    OBVIOUS
  <1> USE DEF MeasurementInit, Ring!Init, Idle, NoResult, None, Never
  <1>1. RingTypes /\ WorkerTypes
    <2>1. <<>> \in Seq(Nat) /\ Len(<<>>) = 0
      OBVIOUS
    <2>2. offered \in 0..MaxOffered /\ overruns \in Nat
      BY SizesAre
    <2>3. Len(queue) <= CapacityFrames /\ Len(block) <= DrainFrames
      BY <2>1, SizesAre
    <2>4. queue \in Seq(Nat) /\ block \in Seq(Nat)
      BY <2>1
    <2>5. workerAt = "drain" /\ block = <<>>
      OBVIOUS
    <2> QED BY <2>2, <2>3, <2>4, <2>5 DEF RingTypes, WorkerTypes
  <1>2. RecordingTypes
    BY RunFramesIs DEF RecordingTypes
  <1>3. CallbackTypes
    <2>1. 0 \in 0..MaxRuns
      BY SizesAre
    <2>2. from \in [Runs -> {-1} \cup 0..MaxOffered] /\ upTo \in [Runs -> {-1} \cup 0..MaxOffered]
      OBVIOUS
    <2> QED BY <2>1, <2>2 DEF CallbackTypes
  <1>4. CallTypes
    <2>1. 0 \in 0..MaxRuns /\ 0 \in 0..MaxChanges
      BY SizesAre
    <2>2. <<>> \in Seq(Nat)
      OBVIOUS
    <2>3. head \in [Runs -> Nat]
      OBVIOUS
    <2> QED BY <2>1, <2>2, <2>3 DEF CallTypes
  <1>5. AgreeInv
    BY DEF AgreeInv
  <1>6. UnbegunInv
    BY DEF UnbegunInv, Runs
  <1>7. PlayingInv
    BY DEF PlayingInv
  <1>8. CountInv
    BY DEF CountInv
  <1>9. SweepInv
    BY DEF SweepInv
  <1> QED BY <1>1, <1>2, <1>3, <1>4, <1>5, <1>6, <1>7, <1>8, <1>9, TypesAre DEF MeasurementInv

LEMMA MeasurementTypesKept ==
  ASSUME MeasurementInv, [MeasurementNext]_measurementVars
  PROVE  MeasurementTypeOK'
  <1>1. RingTypes /\ WorkerTypes /\ RecordingTypes /\ CallbackTypes /\ CallTypes
        /\ MeasurementTypeOK
    BY TypesAre DEF MeasurementInv
  <1>a. SUFFICES RingTypes' /\ WorkerTypes' /\ RecordingTypes' /\ CallbackTypes' /\ CallTypes'
    BY DEF RingTypes, WorkerTypes, RecordingTypes, CallbackTypes, CallTypes, MeasurementTypeOK
  <1>b. AgreeInv
    BY DEF MeasurementInv
  <1>2. UNCHANGED ringVars => RingTypes'
    BY <1>1 DEF ringVars, RingTypes
  <1>3. UNCHANGED workerVars => WorkerTypes'
    BY <1>1 DEF workerVars, WorkerTypes
  <1>4. UNCHANGED recording => RecordingTypes'
    BY <1>1 DEF RecordingTypes
  <1>5. UNCHANGED <<callbackVars, generation, offered>> => CallbackTypes'
    BY <1>1 DEF callbackVars, CallbackTypes
  <1>6. generation' = generation + 1 /\ UNCHANGED <<callbackVars, offered>> => CallbackTypes'
    <2>1. SUFFICES ASSUME generation' = generation + 1, UNCHANGED <<callbackVars, offered>>
                   PROVE CallbackTypes'
      OBVIOUS
    <2>2. seen \in 0..(generation + 1)
      BY <1>1 DEF CallbackTypes, CallTypes
    <2> QED BY <1>1, <2>1, <2>2 DEF callbackVars, CallbackTypes
  <1>7. UNCHANGED <<signalVars, sessionVars>> => CallTypes'
    BY <1>1 DEF signalVars, sessionVars, CallTypes
  <1>8. CASE ProcessBlock
    <2>1. RingTypes' /\ WorkerTypes' /\ RecordingTypes' /\ CallTypes'
      BY <1>2, <1>3, <1>4, <1>7, <1>8 DEF ProcessBlock
    <2>2. offered' = offered /\ offered \in 0..MaxOffered /\ callback' = "writing"
      BY <1>1, <1>8 DEF ProcessBlock, ringVars, RingTypes
    <2>3. blockFrames' \in BlockSizes /\ offered + blockFrames' <= MaxOffered
      BY <1>8 DEF ProcessBlock
    <2>4. seen' \in 0..generation' /\ generation' = generation
      BY <1>1, <1>8 DEF ProcessBlock, signalVars, CallTypes
    <2>5. playing' \in 0..MaxRuns
      BY <1>1, <1>8 DEF ProcessBlock, CallTypes, CallbackTypes
    <2>6. from' \in [Runs -> {Never} \cup 0..MaxOffered]
      BY <1>1, <1>8, <2>2 DEF ProcessBlock, CallbackTypes
    <2>7. upTo' \in [Runs -> {Never} \cup 0..MaxOffered]
      BY <1>1, <1>8, <2>2 DEF ProcessBlock, CallbackTypes
    <2> QED BY <2>1, <2>2, <2>3, <2>4, <2>5, <2>6, <2>7 DEF CallbackTypes
  <1>9. CASE WriteBlock
    <2>1. WorkerTypes' /\ RecordingTypes' /\ CallTypes'
      BY <1>3, <1>4, <1>7, <1>9 DEF WriteBlock
    <2>2. blockFrames \in Nat /\ offered + blockFrames <= MaxOffered /\ offered \in Nat
          /\ overruns \in Nat
      <3>1. blockFrames \in BlockSizes /\ offered + blockFrames <= MaxOffered
        BY <1>1, <1>9 DEF WriteBlock, CallbackTypes
      <3> QED BY <1>1, <3>1, SizesAre DEF RingTypes
    <2>3. RingTypes'
      <3>1. CASE Ring!Accept(blockFrames)
        BY <1>1, <1>9, <2>2, <3>1, AcceptIs DEF RingTypes, WriteBlock
      <3>2. CASE Ring!Drop(blockFrames)
        BY <1>1, <1>9, <2>2, <3>2, DropIs DEF RingTypes, WriteBlock
      <3> QED BY <1>9, <3>1, <3>2 DEF WriteBlock
    <2>4. CallbackTypes'
      BY <1>1, <1>9 DEF WriteBlock, CallbackTypes, signalVars
    <2> QED BY <2>1, <2>3, <2>4
  <1>10. CASE Drain
    <2>1. RecordingTypes' /\ CallTypes'
      BY <1>4, <1>7, <1>10 DEF Drain
    <2>2. block' \in Seq(Nat) /\ Len(block') \in 1..DrainFrames /\ queue' \in Seq(Nat)
          /\ Len(queue') + Len(block') = Len(queue) /\ offered' = offered /\ overruns' = overruns
      BY <1>1, <1>10, DrainIs
    <2>3. CallbackTypes'
      BY <1>5, <1>10, <2>2 DEF Drain, signalVars
    <2>4. Len(queue') \in Nat /\ Len(queue) \in Nat /\ Len(block') \in Nat /\ CapacityFrames \in Nat
      BY <1>1, <2>2, SizesAre DEF RingTypes
    <2>5. RingTypes'
      BY <1>1, <2>2, <2>4 DEF RingTypes
    <2>6. WorkerTypes'
      <3>1. block' # <<>>
        BY <2>2
      <3>2. workerAt' = "capture"
        BY <1>10 DEF Drain
      <3>3. Len(block') <= DrainFrames
        BY <2>2, SizesAre
      <3> QED BY <2>2, <3>1, <3>2, <3>3 DEF WorkerTypes
    <2> QED BY <2>1, <2>3, <2>5, <2>6
  <1>11. CASE Capture
    <2>1. RingTypes' /\ CallTypes' /\ CallbackTypes'
      BY <1>2, <1>5, <1>7, <1>11 DEF Capture, ringVars, signalVars
    <2>2. WorkerTypes'
      BY <1>11, SizesAre DEF Capture, WorkerTypes
    <2>3. RecordingTypes'
      <3>1. CASE recording.active /\ recording.wanted > 0
        <4> DEFINE n == Lesser(Len(block), recording.wanted)
        <4>1. n \in 0..recording.wanted /\ recording'.samples \in Seq(Nat)
              /\ recording' = [samples |-> recording'.samples, wanted |-> recording.wanted - n,
                               total |-> recording.total, active |-> TRUE]
          BY <1>1, <1>11, <3>1, CaptureIs
        <4> HIDE DEF n
        <4>2. recording.wanted \in 0..RunFrames /\ recording.total \in {0, RunFrames}
              /\ RunFrames \in Nat
          BY <1>1, RunFramesIs DEF RecordingTypes
        <4>3. recording.wanted - n \in 0..RunFrames
          BY <4>1, <4>2
        <4> DEFINE s == recording'.samples
        <4>4. s \in Seq(Nat) /\ recording' = [samples |-> s, wanted |-> recording.wanted - n,
                               total |-> recording.total, active |-> TRUE]
          BY <4>1
        <4> HIDE DEF s
        <4> QED BY <4>2, <4>3, <4>4 DEF RecordingTypes
      <3>2. CASE ~(recording.active /\ recording.wanted > 0)
        BY <1>4, <1>11, <3>2 DEF Capture
      <3> QED BY <3>1, <3>2
    <2> QED BY <2>1, <2>2, <2>3
  <1>12. CASE StartArm
    <2>1. RingTypes' /\ WorkerTypes' /\ CallbackTypes'
      BY <1>2, <1>3, <1>5, <1>12 DEF StartArm, ringVars, signalVars
    <2>2. RecordingTypes'
      BY <1>12, RunFramesIs DEF StartArm, RecordingTypes
    <2>3. runs' \in 0..MaxRuns
      BY <1>1, <1>12, SizesAre DEF StartArm, CallTypes
    <2>4. gaps' \in Nat
      BY <1>1, <1>12 DEF StartArm, RingTypes
    <2>5. measured' \in [run : 0..MaxRuns, response : Seq(Nat), arrival : {0}]
      BY <1>12, SizesAre DEF StartArm, NoResult, None
    <2>6. CallTypes'
      BY <1>1, <1>12, <2>3, <2>4, <2>5 DEF StartArm, CallTypes, signalVars
    <2> QED BY <2>1, <2>2, <2>6
  <1>13. CASE StartFails
    <2>1. RingTypes' /\ WorkerTypes' /\ CallbackTypes' /\ RecordingTypes'
      BY <1>2, <1>3, <1>4, <1>5, <1>13 DEF StartFails, ringVars, signalVars
    <2>3. runs' \in 0..MaxRuns
      BY <1>1, <1>13, SizesAre DEF StartFails, CallTypes
    <2>5. measured' \in [run : 0..MaxRuns, response : Seq(Nat), arrival : {0}]
      BY <1>13, SizesAre DEF StartFails, NoResult, None
    <2>6. CallTypes'
      BY <1>1, <1>13, <2>3, <2>5 DEF StartFails, CallTypes, signalVars
    <2> QED BY <2>1, <2>6
  <1>14. CASE StartSweep
    <2>1. RingTypes' /\ WorkerTypes' /\ CallbackTypes' /\ RecordingTypes'
      BY <1>2, <1>3, <1>4, <1>6, <1>14 DEF StartSweep, ringVars
    <2>2. runs \in Runs /\ runs \in 0..MaxRuns
      BY <1>1, <1>b, <1>14 DEF StartSweep, AgreeInv, CallTypes, Runs
    <2>3. head' \in [Runs -> Nat]
      <3>1. Len(recording.samples) \in Nat
        BY <1>1 DEF RecordingTypes
      <3> QED BY <1>1, <1>14, <3>1 DEF StartSweep, CallTypes
    <2>4. CallTypes'
      BY <1>1, <1>14, <2>2, <2>3 DEF StartSweep, CallTypes
    <2> QED BY <2>1, <2>4
  <1>15. CASE CancelRecording
    <2>1. RingTypes' /\ WorkerTypes' /\ CallbackTypes'
      BY <1>2, <1>3, <1>5, <1>15 DEF CancelRecording, ringVars, signalVars
    <2>2. RecordingTypes'
      BY <1>15, RunFramesIs DEF CancelRecording, CancelledRecording, Idle, RecordingTypes
    <2>3. changes' \in 0..MaxChanges /\ measuring' \in 0..MaxRuns
      BY <1>1, <1>15, SizesAre DEF CancelRecording, CallTypes, None
    <2>4. CallTypes'
      BY <1>1, <1>15, <2>3 DEF CancelRecording, CallTypes, signalVars
    <2> QED BY <2>1, <2>2, <2>4
  <1>16. CASE FinishTake
    <2>1. RingTypes' /\ WorkerTypes' /\ CallbackTypes'
      BY <1>2, <1>3, <1>5, <1>16 DEF FinishTake, ringVars, signalVars
    <2>2. recording' = [samples |-> <<>>, wanted |-> recording.wanted, total |-> 0,
                        active |-> FALSE]
      BY <1>1, <1>16 DEF FinishTake, RecordingTypes
    <2>3. RecordingTypes'
      BY <1>1, <2>2 DEF RecordingTypes
    <2>4. taken' \in Seq(Nat)
      BY <1>1, <1>16 DEF FinishTake, RecordingTypes
    <2>5. CallTypes'
      BY <1>1, <1>16, <2>4 DEF FinishTake, CallTypes, signalVars
    <2> QED BY <2>1, <2>3, <2>5
  <1>17. CASE SilenceCancelled
    <2>1. RingTypes' /\ WorkerTypes' /\ CallbackTypes' /\ RecordingTypes'
      BY <1>2, <1>3, <1>4, <1>6, <1>17 DEF SilenceCancelled, ringVars
    <2>2. CallTypes'
      BY <1>1, <1>17, SizesAre DEF SilenceCancelled, CallTypes, None
    <2> QED BY <2>1, <2>2
  <1>18. CASE SilenceFinished
    <2>1. RingTypes' /\ WorkerTypes' /\ CallbackTypes' /\ RecordingTypes'
      BY <1>2, <1>3, <1>4, <1>6, <1>18 DEF SilenceFinished, ringVars
    <2>2. measured' \in [run : 0..MaxRuns, response : Seq(Nat), arrival : {0}]
      <3>1. Result(measuring, taken) = [run |-> measuring, response |-> taken, arrival |-> 0]
        BY <1>1, ResultIs DEF CallTypes
      <3>2. measured' = measured \/ measured' = Result(measuring, taken)
        BY <1>18 DEF SilenceFinished
      <3> QED BY <1>1, <3>1, <3>2 DEF CallTypes
    <2>3. CallTypes'
      BY <1>1, <1>18, <2>2, SizesAre DEF SilenceFinished, CallTypes, None
    <2> QED BY <2>1, <2>3
  <1>19. CASE SetSignal
    <2>1. RingTypes' /\ WorkerTypes' /\ CallbackTypes' /\ RecordingTypes'
      BY <1>2, <1>3, <1>4, <1>6, <1>19 DEF SetSignal, ringVars
    <2>2. changes' \in 0..MaxChanges /\ stimulus' \in 0..MaxRuns /\ generation' \in Nat
      BY <1>1, <1>19, SizesAre DEF SetSignal, CallTypes, None
    <2>3. replaced' \in BOOLEAN
      BY <1>1, <1>19 DEF SetSignal, CallTypes
    <2>4. CallTypes'
      BY <1>1, <1>19, <2>2, <2>3 DEF SetSignal, CallTypes
    <2> QED BY <2>1, <2>4
  <1>20. CASE UNCHANGED measurementVars
    BY <1>2, <1>3, <1>4, <1>5, <1>7, <1>20 DEF measurementVars, ringVars, signalVars
  <1> QED BY <1>8, <1>9, <1>10, <1>11, <1>12, <1>13, <1>14, <1>15, <1>16, <1>17, <1>18, <1>19,
             <1>20 DEF MeasurementNext, Callback, Worker, Ui

LEMMA AgreeKept ==
  ASSUME MeasurementInv, [MeasurementNext]_measurementVars
  PROVE  AgreeInv'
  <1>1. AgreeInv /\ CallTypes /\ RecordingTypes
    BY TypesAre DEF MeasurementInv
  <1>2. None = 0 /\ runs \in Nat
    BY <1>1 DEF None, CallTypes
  <1>3. UNCHANGED <<recording, signalVars, sessionVars>> => AgreeInv'
    BY <1>1 DEF AgreeInv, signalVars, sessionVars
  <1>4. CASE ProcessBlock \/ WriteBlock \/ Drain
    BY <1>3, <1>4 DEF ProcessBlock, WriteBlock, Drain
  <1>5. CASE UNCHANGED measurementVars
    BY <1>3, <1>5 DEF measurementVars
  <1>6. CASE Capture
    <2>1. recording'.active = recording.active
      BY <1>1, <1>6 DEF Capture, RecordingTypes
    <2> QED BY <1>1, <1>6, <2>1 DEF Capture, AgreeInv, signalVars, sessionVars
  <1>7. CASE StartArm
    <2>1. recording'.active /\ runs' > 0
      BY <1>2, <1>7 DEF StartArm
    <2> QED BY <1>1, <1>7, <2>1 DEF StartArm, AgreeInv
  <1>8. CASE StartFails
    BY <1>1, <1>8 DEF StartFails, AgreeInv, signalVars
  <1>9. CASE StartSweep
    <2>1. runs # None
      BY <1>1, <1>2, <1>9 DEF StartSweep, AgreeInv
    <2> QED BY <1>1, <1>9, <2>1 DEF StartSweep, AgreeInv
  <1>10. CASE CancelRecording
    <2>1. recording'.active = FALSE
      BY <1>10 DEF CancelRecording, CancelledRecording, Idle
    <2> QED BY <1>1, <1>10, <2>1 DEF CancelRecording, AgreeInv, signalVars
  <1>11. CASE FinishTake
    <2>1. recording'.active = FALSE
      BY <1>1, <1>11 DEF FinishTake, RecordingTypes
    <2> QED BY <1>1, <1>11, <2>1 DEF FinishTake, AgreeInv, signalVars
  <1>12. CASE SilenceCancelled
    BY <1>1, <1>12 DEF SilenceCancelled, AgreeInv
  <1>13. CASE SilenceFinished
    BY <1>1, <1>13 DEF SilenceFinished, AgreeInv
  <1>14. CASE SetSignal
    BY <1>1, <1>14 DEF SetSignal, AgreeInv
  <1> QED BY <1>4, <1>5, <1>6, <1>7, <1>8, <1>9, <1>10, <1>11, <1>12, <1>13, <1>14
          DEF MeasurementNext, Callback, Worker, Ui

LEMMA UnbegunKept ==
  ASSUME MeasurementInv, [MeasurementNext]_measurementVars
  PROVE  UnbegunInv'
  <1>1. UnbegunInv /\ AgreeInv /\ CallTypes /\ CallbackTypes
    BY TypesAre DEF MeasurementInv
  <1>2. runs \in Nat /\ Runs \subseteq Nat /\ None = 0 /\ \A r \in Runs : r # 0
    BY <1>1 DEF CallTypes, Runs, None
  <1>3. UNCHANGED <<callbackVars, signalVars, sessionVars>> => UnbegunInv'
    BY <1>1 DEF UnbegunInv, callbackVars, signalVars, sessionVars
  <1>4. CASE WriteBlock \/ Drain \/ Capture \/ UNCHANGED measurementVars
    <2>1. UNCHANGED <<from, upTo, playing, signalVars, sessionVars>>
      BY <1>4 DEF WriteBlock, Drain, Capture, callbackVars, measurementVars
    <2> QED BY <1>1, <2>1 DEF UnbegunInv, signalVars, sessionVars
  <1>5. CASE ProcessBlock
    <2>1. SUFFICES ASSUME NEW r \in Runs, r > runs \/ (r = runs /\ ui = "armed")
                   PROVE  from'[r] = Never /\ upTo'[r] = Never /\ playing' # r
      BY <1>1, <1>5, <2>1 DEF ProcessBlock, UnbegunInv, signalVars, sessionVars
    <2>2. from[r] = Never /\ upTo[r] = Never /\ stimulus # r /\ playing # r
      BY <1>1, <2>1 DEF UnbegunInv
    <2>3. CASE seen # generation
      BY <1>5, <2>2, <2>3 DEF ProcessBlock
    <2>4. CASE seen = generation
      BY <1>5, <2>2, <2>4 DEF ProcessBlock
    <2> QED BY <2>3, <2>4
  <1>6. CASE StartArm
    <2>1. runs' = runs + 1 /\ UNCHANGED <<from, upTo, playing, stimulus, measuring>>
      BY <1>6 DEF StartArm, callbackVars, signalVars
    <2>2. \A r \in Runs : r > runs' \/ r = runs' => r > runs
      BY <1>2, <2>1
    <2> QED BY <1>1, <2>1, <2>2 DEF UnbegunInv
  <1>7. CASE StartFails
    <2>1. runs' = runs + 1 /\ ui' # "armed"
          /\ UNCHANGED <<from, upTo, playing, stimulus, measuring>>
      BY <1>7 DEF StartFails, callbackVars, signalVars
    <2>2. \A r \in Runs : r > runs' => r > runs
      BY <1>2, <2>1
    <2> QED BY <1>1, <2>1, <2>2 DEF UnbegunInv
  <1>8. CASE StartSweep
    <2>1. runs' = runs /\ ui' # "armed" /\ stimulus' = runs /\ measuring' = runs
          /\ UNCHANGED <<from, upTo, playing>>
      BY <1>8 DEF StartSweep, callbackVars
    <2>2. \A r \in Runs : r > runs => r # runs
      BY <1>2
    <2> QED BY <1>1, <2>1, <2>2 DEF UnbegunInv
  <1>9. CASE CancelRecording \/ FinishTake \/ SilenceCancelled \/ SilenceFinished \/ SetSignal
    <2>1. runs' = runs /\ ui' # "armed" /\ UNCHANGED <<from, upTo, playing>>
          /\ stimulus' \in {stimulus, None} /\ measuring' \in {measuring, None}
      BY <1>9 DEF CancelRecording, FinishTake, SilenceCancelled, SilenceFinished, SetSignal,
                  callbackVars, signalVars
    <2> QED BY <1>1, <1>2, <2>1 DEF UnbegunInv
  <1> QED BY <1>4, <1>5, <1>6, <1>7, <1>8, <1>9 DEF MeasurementNext, Callback, Worker, Ui

LEMMA PlayingKept ==
  ASSUME MeasurementInv, [MeasurementNext]_measurementVars
  PROVE  PlayingInv'
  <1>1. PlayingInv /\ UnbegunInv /\ AgreeInv /\ CallTypes /\ CallbackTypes /\ RingTypes
    BY TypesAre DEF MeasurementInv
  <1>2. generation \in Nat /\ seen \in 0..generation /\ None = 0 /\ Never = -1
    BY <1>1 DEF CallTypes, CallbackTypes, None, Never
  <1>3. CASE WriteBlock \/ Drain \/ Capture \/ StartArm \/ StartFails \/ CancelRecording
             \/ FinishTake \/ UNCHANGED measurementVars
    <2>1. UNCHANGED <<stimulus, generation, seen, from, upTo, playing>>
      BY <1>3 DEF WriteBlock, Drain, Capture, StartArm, StartFails, CancelRecording, FinishTake,
                  callbackVars, signalVars, measurementVars
    <2> QED BY <1>1, <2>1 DEF PlayingInv
  <1>4. CASE SilenceCancelled \/ SilenceFinished \/ SetSignal
    <2>1. stimulus' = None
      BY <1>4 DEF SilenceCancelled, SilenceFinished, SetSignal
    <2> QED BY <2>1 DEF PlayingInv
  <1>5. CASE StartSweep
    <2>1. stimulus' = runs /\ generation' = generation + 1 /\ UNCHANGED <<seen, from, upTo, playing>>
          /\ ui = "armed"
      BY <1>5 DEF StartSweep, callbackVars
    <2>2. seen' # generation'
      BY <1>2, <2>1
    <2>3. runs \in Runs
      BY <1>1, <2>1 DEF AgreeInv, CallTypes, Runs
    <2>4. from[runs] = Never /\ upTo[runs] = Never /\ playing # runs
      BY <1>1, <2>1, <2>3 DEF UnbegunInv
    <2> QED BY <2>1, <2>2, <2>4 DEF PlayingInv
  <1>6. CASE ProcessBlock
    <2>1. seen' = generation' /\ UNCHANGED <<stimulus, generation>>
      BY <1>6 DEF ProcessBlock, signalVars
    <2>2. CASE seen = generation
      BY <1>1, <1>6, <2>1, <2>2 DEF ProcessBlock, PlayingInv
    <2>3. CASE seen # generation /\ stimulus # None
      <3>1. stimulus \in Runs
        BY <1>1, <1>2, <2>3 DEF CallTypes, Runs
      <3>2. upTo[stimulus] = Never /\ playing # stimulus
        BY <1>1, <2>3 DEF PlayingInv
      <3>3. playing' = stimulus /\ from'[stimulus] = offered /\ upTo'[stimulus] = Never
        BY <1>6, <2>3, <3>1, <3>2 DEF ProcessBlock
      <3>4. offered # Never
        BY <1>1, <1>2 DEF RingTypes
      <3> QED BY <2>1, <3>3, <3>4 DEF PlayingInv
    <2>4. CASE stimulus = None
      BY <2>1, <2>4 DEF PlayingInv
    <2> QED BY <2>2, <2>3, <2>4
  <1> QED BY <1>3, <1>4, <1>5, <1>6 DEF MeasurementNext, Callback, Worker, Ui

LEMMA CountKept ==
  ASSUME MeasurementInv, [MeasurementNext]_measurementVars
  PROVE  CountInv'
  <1>1. CountInv /\ AgreeInv /\ MeasurementTypeOK /\ CallTypes /\ RingTypes /\ RecordingTypes
    BY TypesAre DEF MeasurementInv
  <1>2. UNCHANGED <<recording, overruns, gaps>> => CountInv'
    BY <1>1 DEF CountInv
  <1>3. overruns \in Nat /\ gaps \in Nat
    BY <1>1 DEF RingTypes, CallTypes
  <1>4. CASE ProcessBlock \/ Drain \/ StartFails \/ StartSweep \/ SilenceCancelled
             \/ SilenceFinished \/ SetSignal \/ UNCHANGED measurementVars
    <2>1. CASE Drain
      <3>1. overruns' = overruns
        BY <1>1, <2>1, DrainIs
      <3> QED BY <1>2, <2>1, <3>1 DEF Drain, sessionVars
    <2>2. CASE ~Drain
      BY <1>2, <1>4, <2>2 DEF ProcessBlock, StartFails, StartSweep, SilenceCancelled,
         SilenceFinished, SetSignal, ringVars, sessionVars, measurementVars
    <2> QED BY <2>1, <2>2
  <1>5. CASE WriteBlock
    <2>1. overruns' \in {overruns, overruns + 1}
      BY <1>1, <1>5, AcceptIs, DropIs DEF WriteBlock
    <2>2. UNCHANGED <<recording, gaps>>
      BY <1>5 DEF WriteBlock, sessionVars
    <2> QED BY <1>1, <1>3, <2>1, <2>2 DEF CountInv
  <1>6. CASE Capture
    <2>1. UNCHANGED <<overruns, gaps>>
      BY <1>6 DEF Capture, ringVars, sessionVars
    <2>2. CASE recording.active /\ recording.wanted > 0
      <3> DEFINE n == Lesser(Len(block), recording.wanted)
                 old == Len(recording.samples)
                 s == recording'.samples
                 w == recording.wanted - n
      <3>1. n \in 0..recording.wanted /\ Len(s) = old + n
            /\ recording' = [samples |-> recording'.samples, wanted |-> recording.wanted - n,
                             total |-> recording.total, active |-> TRUE]
        BY <1>1, <1>6, <2>2, CaptureIs
      <3>2. recording.wanted \in Nat /\ old \in Nat
        BY <1>1, RunFramesIs DEF RecordingTypes
      <3>3. recording'.wanted = recording.wanted - n
        BY <3>1
      <3>4. old + recording.wanted = RunFrames
        BY <1>1, <2>2 DEF CountInv
      <3> HIDE DEF n, old
      <3>5. Len(s) + recording'.wanted = RunFrames
        BY <3>1, <3>2, <3>3, <3>4
      <3> QED BY <1>1, <2>1, <3>5 DEF CountInv
    <2>3. CASE ~(recording.active /\ recording.wanted > 0)
      BY <1>2, <1>6, <2>1, <2>3 DEF Capture
    <2> QED BY <2>2, <2>3
  <1>7. CASE StartArm
    <2>1. recording'.samples = <<>> /\ recording'.wanted = RunFrames /\ gaps' = overruns
          /\ overruns' = overruns
      BY <1>7 DEF StartArm, ringVars
    <2>2. Len(<<>>) = 0
      OBVIOUS
    <2>3. Len(recording'.samples) + recording'.wanted = RunFrames
      <3>1. Len(recording'.samples) = 0
        BY <2>1, <2>2
      <3> QED BY <2>1, <3>1, RunFramesIs
    <2>4. gaps' <= overruns'
      BY <1>3, <2>1
    <2> QED BY <2>3, <2>4 DEF CountInv
  <1>8. CASE CancelRecording \/ FinishTake
    <2>1. recording'.active = FALSE
      <3>1. CASE CancelRecording
        BY <3>1 DEF CancelRecording, CancelledRecording, Idle
      <3>2. CASE FinishTake
        BY <1>1, <3>2 DEF FinishTake, RecordingTypes
      <3> QED BY <1>8, <3>1, <3>2
    <2>2. UNCHANGED <<overruns, gaps>>
      BY <1>8 DEF CancelRecording, FinishTake, ringVars
    <2> QED BY <1>1, <2>1, <2>2 DEF CountInv
  <1> QED BY <1>4, <1>5, <1>6, <1>7, <1>8 DEF MeasurementNext, Callback, Worker, Ui

(* What disturbs a run has done so for good: nothing but the next start     *)
(* forgets it.                                                              *)
LEMMA StillUndisturbed ==
  ASSUME MeasurementInv, NEW r \in Runs,
         gaps' = gaps, head'[r] = head[r], overruns' \in {overruns, overruns + 1},
         replaced => replaced',
         overruns' = gaps', head'[r] + DrainFrames + CapacityFrames + LargestBlock <= TailFrames,
         ~replaced'
  PROVE  overruns' = overruns /\ Undisturbed(r)
  <1>1. overruns \in Nat /\ gaps \in Nat /\ gaps <= overruns
    BY DEF MeasurementInv, MeasurementTypeOK, CountInv
  <1> QED BY <1>1 DEF Undisturbed, Lead

LEMMA NumbersAre ==
  ASSUME MeasurementTypeOK
  PROVE  /\ Len(queue) \in 0..CapacityFrames /\ Len(block) \in 0..DrainFrames
         /\ Len(recording.samples) \in Nat /\ recording.wanted \in Nat
         /\ offered \in Nat /\ blockFrames \in Nat /\ blockFrames <= LargestBlock
         /\ \A r \in Runs : from[r] \in Int /\ upTo[r] \in Int
         /\ DOMAIN queue = 1..Len(queue) /\ DOMAIN block = 1..Len(block)
         /\ DOMAIN recording.samples = 1..Len(recording.samples)
  <1>1. queue \in Seq(Nat) /\ block \in Seq(Nat) /\ recording.samples \in Seq(Nat)
        /\ Len(queue) <= CapacityFrames /\ Len(block) <= DrainFrames
    BY DEF MeasurementTypeOK
  <1>2. recording.wanted \in Nat
    BY RunFramesIs DEF MeasurementTypeOK
  <1>3. blockFrames = 0 \/ blockFrames \in BlockSizes
    BY DEF MeasurementTypeOK
  <1>4. blockFrames \in Nat /\ blockFrames <= LargestBlock
    <2>1. LargestBlock \in Nat /\ \A n \in BlockSizes : n \in Nat /\ n <= LargestBlock
      BY LargestIs, SizesAre
    <2> QED BY <1>3, <2>1
  <1>5. offered \in Nat
    BY SizesAre DEF MeasurementTypeOK
  <1>6. \A r \in Runs : from[r] \in {Never} \cup 0..MaxOffered /\ upTo[r] \in {Never} \cup 0..MaxOffered
    BY DEF MeasurementTypeOK
  <1>7. \A r \in Runs : from[r] \in Int /\ upTo[r] \in Int
    BY <1>6, SizesAre DEF Never
  <1> QED BY <1>1, <1>2, <1>4, <1>5, <1>7, SizesAre

(* The calls. *)
LEMMA CallsKeepSweep ==
  ASSUME MeasurementInv, Ui
  PROVE  SweepInv'
  <1>1. /\ SweepInv /\ AgreeInv /\ PlayingInv /\ CountInv /\ MeasurementTypeOK
        /\ CallTypes /\ CallbackTypes /\ RecordingTypes
    BY TypesAre DEF MeasurementInv
  <1>2. None = 0 /\ Runs = 1..MaxRuns /\ MaxRuns \in Nat /\ NoResult.run = None
    BY SizesAre DEF None, Runs, NoResult
  <1>3. CASE StartArm
    BY <1>3 DEF StartArm, SweepInv
  <1>4. CASE StartFails
    <2>1. UNCHANGED <<ui, measuring, head, gaps, replaced, ringVars, workerVars, recording,
                      callbackVars, signalVars>> /\ ui' = "free" /\ measured' = NoResult
      BY <1>4 DEF StartFails
    <2> QED BY <1>1, <2>1 DEF SweepInv, Undisturbed, UnderWay, AheadInv, InFlightInv, Holds, Lead,
               Waiting, ringVars, workerVars, callbackVars, signalVars
  <1>5. CASE StartSweep
    <2>1. /\ stimulus' = runs /\ generation' = generation + 1 /\ measuring' = runs /\ ui' = "free"
          /\ head' = [head EXCEPT ![runs] = Len(recording.samples)]
          /\ UNCHANGED <<queue, block, recording, blockFrames, seen, measured, gaps, replaced>>
      BY <1>5 DEF StartSweep, ringVars, workerVars, callbackVars
    <2>2. measured' = NoResult
      BY <1>1, <1>5, <2>1 DEF StartSweep, AgreeInv
    <2>3. seen' # generation'
      BY <1>1, <2>1 DEF CallTypes, CallbackTypes
    <2>4. runs \in Runs
      BY <1>1, <1>2, <1>5 DEF StartSweep, AgreeInv, CallTypes
    <2>5. head'[runs] = Len(recording.samples)
      BY <1>1, <2>1, <2>4 DEF CallTypes
    <2>6. (Waiting + blockFrames)' <=
            Len(recording.samples) + DrainFrames + CapacityFrames + LargestBlock
      BY <1>1, <2>1, NumbersAre, SizesAre, LargestIs DEF Waiting
    <2>7. AheadInv(measuring)'
      BY <2>1, <2>5, <2>6 DEF AheadInv, Lead
    <2>8. ASSUME Undisturbed(measuring)' PROVE recording'.wanted > 0
      <3>1. Len(recording.samples) + DrainFrames + CapacityFrames + LargestBlock <= TailFrames
        BY <2>1, <2>5, <2>8 DEF Undisturbed, Lead
      <3>2. Len(recording.samples) + recording.wanted = RunFrames
        BY <1>1, <1>5 DEF StartSweep, AgreeInv, CountInv
      <3>3. Len(recording.samples) < RunFrames
        <4>1. LargestBlock \in Nat
          BY LargestIs, SizesAre
        <4> QED BY <1>1, <3>1, <4>1, NumbersAre, SizesAre, RunFramesIs
      <3> QED BY <1>1, <2>1, <3>2, <3>3, NumbersAre, RunFramesIs
    <2> QED BY <2>1, <2>2, <2>3, <2>7, <2>8 DEF SweepInv, UnderWay
  <1>6. CASE CancelRecording
    <2>1. UNCHANGED <<measured, head, gaps, replaced, ringVars, callbackVars, signalVars>>
          /\ ui' = "cancelled"
      BY <1>6 DEF CancelRecording
    <2> QED BY <1>1, <2>1 DEF SweepInv, Undisturbed, Holds, PlayedOut, Lead, ringVars,
               callbackVars, signalVars
  <1>7. CASE FinishTake
    <2>1. /\ UNCHANGED <<measured, measuring, head, gaps, replaced, ringVars, callbackVars,
                         signalVars>>
          /\ ui = "free" /\ measuring # None /\ ui' = "finishing" /\ taken' = recording.samples
          /\ recording.wanted = 0
      BY <1>7 DEF FinishTake, Complete
    <2>2. measured' = NoResult
      BY <1>1, <2>1 DEF AgreeInv
    <2>3. ASSUME Undisturbed(measuring)'
          PROVE  /\ Holds(measuring, recording.samples) /\ upTo[measuring] = Never
                 /\ seen = generation
      <3>1. Undisturbed(measuring)
        BY <2>1, <2>3 DEF Undisturbed, Lead, ringVars
      <3>2. UnderWay(measuring)
        BY <1>1, <2>1, <3>1 DEF SweepInv
      <3>3. seen = generation
        BY <2>1, <3>2 DEF UnderWay
      <3>4. Holds(measuring, recording.samples)
        BY <2>1, <3>2, <3>3 DEF UnderWay
      <3>5. stimulus = measuring
        BY <1>1, <2>1, <3>1 DEF AgreeInv, Undisturbed
      <3> QED BY <1>1, <2>1, <3>3, <3>4, <3>5 DEF PlayingInv
    <2>4. UNCHANGED <<seen, generation, upTo, from, offered, measuring>>
      BY <2>1 DEF ringVars, callbackVars, signalVars
    <2> QED BY <2>1, <2>2, <2>3, <2>4 DEF SweepInv, Holds, PlayedOut
  <1>8. CASE SilenceCancelled
    <2>1. UNCHANGED <<measured, head, gaps, replaced, ringVars, callbackVars, measuring>>
          /\ ui' = "free" /\ stimulus' = None /\ measuring = None
      BY <1>1, <1>8 DEF SilenceCancelled, AgreeInv
    <2> QED BY <1>1, <1>2, <2>1 DEF SweepInv, Undisturbed, Holds, PlayedOut, Lead, ringVars,
               callbackVars
  <1>9. CASE SilenceFinished
    <2>1. /\ UNCHANGED <<head, gaps, replaced, ringVars, callbackVars>>
          /\ ui = "finishing" /\ ui' = "free" /\ stimulus' = None /\ measuring' = None
          /\ measured' \in {measured, Result(measuring, taken)}
      BY <1>9 DEF SilenceFinished
    <2>2. measuring \in Runs /\ measured = NoResult
      BY <1>1, <1>2, <2>1 DEF AgreeInv, CallTypes
    <2>3. Result(measuring, taken) = [run |-> measuring, response |-> taken, arrival |-> 0]
      BY <1>1, ResultIs DEF CallTypes
    <2>4. SUFFICES ASSUME measured' # NoResult, Undisturbed(measured.run)'
                   PROVE  /\ Holds(measured.run, measured.response)' /\ PlayedOut(measured.run)'
                          /\ measured'.run \in Runs /\ stimulus' # measured'.run
      BY <2>1 DEF SweepInv
    <2>5. measured' = [run |-> measuring, response |-> taken, arrival |-> 0]
      BY <2>1, <2>2, <2>3, <2>4
    <2>6. measured'.run = measuring /\ measured'.response = taken
      BY <2>5
    <2>7. Undisturbed(measuring)
      BY <2>1, <2>4, <2>6 DEF Undisturbed, Lead, ringVars
    <2>8. Holds(measuring, taken) /\ PlayedOut(measuring)
      BY <1>1, <2>1, <2>7 DEF SweepInv
    <2>9. Holds(measured.run, measured.response)' /\ PlayedOut(measured.run)'
      BY <2>1, <2>6, <2>8 DEF Holds, PlayedOut, ringVars, callbackVars
    <2> QED BY <1>2, <2>1, <2>2, <2>6, <2>9
  <1>10. CASE SetSignal
    <2>1. /\ UNCHANGED <<measured, measuring, ui, head, gaps, ringVars, callbackVars>>
          /\ ui = "free" /\ stimulus' = None /\ replaced' = (replaced \/ measuring # None)
      BY <1>10 DEF SetSignal
    <2>2. CASE measuring # None
      <3>1. replaced'
        BY <2>1, <2>2
      <3> QED BY <3>1, <2>1 DEF SweepInv, Undisturbed
    <2>3. CASE measuring = None
      <3>1. replaced' = replaced
        BY <1>1, <2>1, <2>3 DEF CallTypes
      <3> QED BY <1>1, <1>2, <2>1, <2>3, <3>1 DEF SweepInv, Undisturbed, Holds, PlayedOut, Lead,
                 ringVars, callbackVars
    <2> QED BY <2>2, <2>3
  <1> QED BY <1>3, <1>4, <1>5, <1>6, <1>7, <1>8, <1>9, <1>10 DEF Ui

(* The callback, between blocks. *)
LEMMA ProcessKeepsSweep ==
  ASSUME MeasurementInv, ProcessBlock
  PROVE  SweepInv'
  <1>1. /\ SweepInv /\ AgreeInv /\ PlayingInv /\ MeasurementTypeOK
        /\ CallTypes /\ CallbackTypes
    BY TypesAre DEF MeasurementInv
  <1>2. None = 0 /\ Runs = 1..MaxRuns /\ MaxRuns \in Nat /\ Never = -1 /\ NoResult.run = None
    BY SizesAre DEF None, Runs, Never, NoResult
  <1>3. /\ UNCHANGED <<ringVars, workerVars, recording, signalVars, sessionVars>>
        /\ seen' = generation /\ generation' = generation /\ blockFrames = 0
    BY <1>1 DEF ProcessBlock, signalVars, CallbackTypes
  <1>4. seen = generation => UNCHANGED <<from, upTo>>
    BY DEF ProcessBlock
  <1>5. \A r \in Runs : r # stimulus \/ seen = generation => from'[r] = from[r]
    BY <1>1, <1>4 DEF ProcessBlock, CallbackTypes
  <1>6. \A r \in Runs : upTo'[r] \in {upTo[r], offered}
    BY <1>1, <1>4 DEF ProcessBlock, CallbackTypes
  <1>7. \A r \in Runs : Undisturbed(r)' <=> Undisturbed(r)
    BY <1>3 DEF Undisturbed, Lead, ringVars, sessionVars
  <1>8. \A r \in Runs : Waiting' = Waiting /\ Lead(r)' = Lead(r)
    BY <1>3 DEF Waiting, Lead, ringVars, workerVars, sessionVars
  <1>9. ASSUME NEW r \in Runs, from'[r] = from[r]
        PROVE  /\ \A s : Holds(r, s) =>
                    /\ from'[r] # Never /\ from'[r] + SweepFrames <= offered'
                    /\ \A x \in from'[r]..(from'[r] + SweepFrames - 1) :
                         \E k \in DOMAIN s : s[k] = x
               /\ PlayedOut(r) /\ from[r] + SweepFrames <= offered => PlayedOut(r)'
    <2>1. offered' = offered
      BY <1>3 DEF ringVars
    <2>2. \A s : Holds(r, s) =>
                    /\ from'[r] # Never /\ from'[r] + SweepFrames <= offered'
                    /\ \A x \in from'[r]..(from'[r] + SweepFrames - 1) :
                         \E k \in DOMAIN s : s[k] = x
      BY <1>9, <2>1 DEF Holds
    <2>3. PlayedOut(r) /\ from[r] + SweepFrames <= offered => PlayedOut(r)'
      <3>1. from[r] + SweepFrames \in Int /\ offered \in Int
        BY <1>1, NumbersAre, SizesAre
      <3>2. upTo'[r] \in {upTo[r], offered}
        BY <1>6
      <3> QED BY <1>9, <3>1, <3>2 DEF PlayedOut
    <2> QED BY <2>2, <2>3
  <1>10. ASSUME ui' = "free", measuring' # None, Undisturbed(measuring)'
         PROVE  UnderWay(measuring)'
    <2>1. UNCHANGED <<ui, measuring, recording, queue, block, offered, replaced>>
      BY <1>3 DEF sessionVars, ringVars, workerVars
    <2>2. measuring \in Runs
      BY <1>1, <1>2, <1>10, <2>1 DEF CallTypes
    <2>3. Undisturbed(measuring)
      BY <1>7, <1>10, <2>1, <2>2
    <2>4. UnderWay(measuring)
      BY <1>1, <1>10, <2>1, <2>3 DEF SweepInv
    <2>5. stimulus = measuring
      BY <1>1, <1>10, <2>1, <2>3 DEF AgreeInv, Undisturbed
    <2>6. CASE seen = generation
      <3>1. from' = from
        BY <1>4, <2>6
      <3>2. seen' = generation'
        BY <1>3
      <3> QED BY <1>8, <2>1, <2>2, <2>4, <2>6, <3>1, <3>2 DEF UnderWay, InFlightInv, Holds
    <2>7. CASE seen # generation
      <3>1. from'[measuring] = offered
        BY <1>1, <2>2, <2>5, <2>7 DEF ProcessBlock, CallbackTypes
      <3>2. Waiting + blockFrames <= Lead(measuring) /\ recording.wanted > 0
        BY <2>4, <2>7 DEF UnderWay, AheadInv
      <3>3. /\ Len(queue) \in Nat /\ Len(block) \in Nat /\ Len(recording.samples) \in Nat
            /\ offered \in Nat /\ DOMAIN queue = 1..Len(queue) /\ DOMAIN block = 1..Len(block)
            /\ DOMAIN recording.samples = 1..Len(recording.samples)
        BY <1>1, NumbersAre
      <3>4. Waiting \in Nat /\ Waiting <= Lead(measuring)
            /\ Waiting = Len(recording.samples) + Len(block) + Len(queue)
        <4>1. Waiting \in Nat /\ Waiting = Len(recording.samples) + Len(block) + Len(queue)
          BY <3>3 DEF Waiting
        <4> QED BY <1>3, <3>2, <4>1
      <3>5. Lead(measuring) \in Nat
        BY <1>1, <2>2, LeadIs
      <3>6. \A i \in DOMAIN queue : ~(offered - Len(queue) - 1 + i >= offered)
        BY <3>3
      <3>7. \A i \in DOMAIN block : ~(offered - (Len(queue) + Len(block)) - 1 + i >= offered)
        BY <3>3
      <3>8. \A i \in DOMAIN recording.samples : ~(offered - Waiting - 1 + i >= offered)
        BY <3>3, <3>4
      <3>9. offered - offered = 0 /\ offered <= offered /\ Lead(measuring) + 0 = Lead(measuring)
        BY <3>3, <3>5
      <3>10. 0 <= Waiting /\ Waiting <= Lead(measuring) + (offered - offered)
        BY <3>4, <3>5, <3>9
      <3>11. InFlightInv(measuring)'
        BY <1>8, <2>1, <2>2, <3>1, <3>6, <3>7, <3>8, <3>9, <3>10 DEF InFlightInv
      <3>12. seen' = generation' /\ recording'.wanted > 0
        BY <1>3, <2>1, <3>2
      <3>13. recording'.wanted # 0
        BY <2>1, <3>2
      <3> QED BY <3>11, <3>12, <3>13 DEF UnderWay
    <2> QED BY <2>6, <2>7
  <1>11. ASSUME ui' = "finishing", Undisturbed(measuring)'
         PROVE  /\ Holds(measuring, taken)' /\ PlayedOut(measuring)'
                /\ stimulus' = measuring' => seen' = generation'
    <2>1. UNCHANGED <<ui, measuring, taken>>
      BY <1>3 DEF sessionVars
    <2>2. measuring \in Runs
      BY <1>1, <1>2, <1>11, <2>1 DEF AgreeInv, CallTypes
    <2>3. Undisturbed(measuring)
      BY <1>7, <1>11, <2>1, <2>2
    <2>4. /\ Holds(measuring, taken) /\ PlayedOut(measuring)
          /\ stimulus = measuring => seen = generation
      BY <1>1, <1>11, <2>1, <2>3 DEF SweepInv
    <2>5. from'[measuring] = from[measuring]
      BY <1>5, <2>2, <2>4
    <2>6. PlayedOut(measuring)' /\ Holds(measuring, taken)'
      BY <1>9, <2>1, <2>2, <2>4, <2>5 DEF Holds, PlayedOut
    <2> QED BY <1>3, <2>6
  <1>12. ASSUME measured' # NoResult, Undisturbed(measured.run)'
         PROVE  /\ Holds(measured.run, measured.response)' /\ PlayedOut(measured.run)'
                /\ measured'.run \in Runs /\ stimulus' # measured'.run
    <2>1. UNCHANGED <<measured, stimulus, head, gaps, replaced, overruns>>
      BY <1>3 DEF sessionVars, signalVars, ringVars
    <2>2. Undisturbed(measured.run)
      BY <1>12, <2>1 DEF Undisturbed, Lead
    <2>3. /\ Holds(measured.run, measured.response) /\ PlayedOut(measured.run)
          /\ measured.run \in Runs /\ stimulus # measured.run
      BY <1>1, <1>12, <2>1, <2>2 DEF SweepInv
    <2>4. from'[measured.run] = from[measured.run]
      BY <1>5, <2>3
    <2>5. PlayedOut(measured.run)' /\ Holds(measured.run, measured.response)'
      BY <1>9, <2>1, <2>3, <2>4 DEF Holds, PlayedOut
    <2> QED BY <2>1, <2>3, <2>5
  <1> QED BY <1>10, <1>11, <1>12 DEF SweepInv

(* What is held of a run that is over stays, whatever else is offered.      *)
LEMMA OthersKeepHeld ==
  ASSUME MeasurementInv, WriteBlock \/ Worker
  PROVE  /\ ui' = "finishing" /\ Undisturbed(measuring)' =>
              /\ Holds(measuring, taken)' /\ PlayedOut(measuring)'
              /\ stimulus' = measuring' => seen' = generation'
         /\ measured' # NoResult /\ Undisturbed(measured.run)' =>
              /\ Holds(measured.run, measured.response)' /\ PlayedOut(measured.run)'
              /\ measured'.run \in Runs /\ stimulus' # measured'.run
  <1>1. SweepInv /\ AgreeInv /\ MeasurementTypeOK /\ CallTypes
    BY TypesAre DEF MeasurementInv
  <1>2. None = 0 /\ Runs = 1..MaxRuns /\ MaxRuns \in Nat
    BY SizesAre DEF None, Runs
  <1>3. UNCHANGED <<signalVars, sessionVars, seen, playing, from, upTo>>
    BY DEF WriteBlock, Worker, Drain, Capture, callbackVars
  <1>4. /\ overruns' \in {overruns, overruns + 1}
        /\ offered' \in Nat /\ offered \in Nat /\ offered <= offered'
    <2>1. offered \in Nat /\ blockFrames \in Nat
      BY <1>1, NumbersAre
    <2>2. CASE WriteBlock
      BY <1>1, <2>1, <2>2, AcceptIs, DropIs DEF WriteBlock
    <2>3. CASE Drain
      BY <1>1, <2>1, <2>3, DrainIs
    <2>4. CASE Capture
      BY <2>1, <2>4 DEF Capture, ringVars
    <2> QED BY <2>2, <2>3, <2>4 DEF Worker
  <1>5. UNCHANGED <<ui, measuring, taken, measured, head, gaps, replaced, stimulus, generation>>
    BY <1>3 DEF sessionVars, signalVars
  <1>6. ASSUME NEW r \in Runs, Undisturbed(r)' PROVE Undisturbed(r)
    <2>1. /\ overruns' = gaps' /\ ~replaced'
          /\ head'[r] + DrainFrames + CapacityFrames + LargestBlock <= TailFrames
      BY <1>6 DEF Undisturbed, Lead
    <2> QED BY <1>4, <1>5, <2>1, StillUndisturbed
  <1>7. ASSUME NEW r \in Runs, NEW s, Holds(r, s)
        PROVE  /\ from'[r] # Never /\ from'[r] + SweepFrames <= offered'
               /\ \A x \in from'[r]..(from'[r] + SweepFrames - 1) : \E k \in DOMAIN s : s[k] = x
    <2>1. from[r] + SweepFrames \in Int
      BY <1>1, NumbersAre, SizesAre
    <2> QED BY <1>3, <1>4, <1>7, <2>1 DEF Holds
  <1>8. ASSUME ui' = "finishing", Undisturbed(measuring)'
        PROVE  /\ Holds(measuring, taken)' /\ PlayedOut(measuring)'
               /\ stimulus' = measuring' => seen' = generation'
    <2>1. measuring \in Runs
      BY <1>1, <1>2, <1>5, <1>8 DEF AgreeInv, CallTypes
    <2>2. Undisturbed(measuring)
      BY <1>5, <1>6, <1>8, <2>1 DEF Undisturbed, Lead
    <2>3. /\ Holds(measuring, taken) /\ PlayedOut(measuring)
          /\ stimulus = measuring => seen = generation
      BY <1>1, <1>5, <1>8, <2>2 DEF SweepInv
    <2> QED BY <1>3, <1>5, <1>7, <2>1, <2>3 DEF Holds, PlayedOut
  <1>9. ASSUME measured' # NoResult, Undisturbed(measured.run)'
        PROVE  /\ Holds(measured.run, measured.response)' /\ PlayedOut(measured.run)'
               /\ measured'.run \in Runs /\ stimulus' # measured'.run
    <2>1. overruns' = gaps /\ ~replaced /\ Lead(measured.run) <= TailFrames
      BY <1>5, <1>9 DEF Undisturbed, Lead
    <2>2. overruns = gaps
      <3>1. overruns \in Nat /\ gaps <= overruns
        BY <1>1 DEF MeasurementInv, CountInv, MeasurementTypeOK
      <3> QED BY <1>4, <2>1, <3>1
    <2>3. /\ Holds(measured.run, measured.response) /\ PlayedOut(measured.run)
          /\ measured.run \in Runs /\ stimulus # measured.run
      BY <1>1, <1>5, <1>9, <2>1, <2>2 DEF SweepInv, Undisturbed
    <2> QED BY <1>3, <1>5, <1>7, <2>3 DEF Holds, PlayedOut
  <1> QED BY <1>8, <1>9

(* What is in flight afterwards, of the run it was before. *)
LEMMA InFlightAfter ==
  ASSUME NEW r, from'[measuring'] = from[r], Lead(measuring)' = Lead(r),
         from[r] <= offered', offered' - from[r] <= Waiting',
         Waiting' <= Lead(r) + (offered' - from[r]),
         \A i \in DOMAIN queue' :
           offered' - Len(queue') - 1 + i >= from[r] => queue'[i] = offered' - Len(queue') - 1 + i,
         \A i \in DOMAIN block' :
           offered' - (Len(queue') + Len(block')) - 1 + i >= from[r] =>
             block'[i] = offered' - (Len(queue') + Len(block')) - 1 + i,
         \A i \in DOMAIN recording'.samples :
           offered' - Waiting' - 1 + i >= from[r] =>
             recording'.samples[i] = offered' - Waiting' - 1 + i
  PROVE  InFlightInv(measuring)'
  BY Zenon DEF InFlightInv

(* A block written, drained or captured moves samples along; what is in     *)
(* flight of a sweep stays in its order.                                    *)
LEMMA WriteKeepsUnderWay ==
  ASSUME MeasurementInv, WriteBlock, ui' = "free", measuring' # None, Undisturbed(measuring)'
  PROVE  UnderWay(measuring)'
  <1>1. /\ SweepInv /\ MeasurementTypeOK /\ CallTypes /\ CountInv
    BY TypesAre DEF MeasurementInv
  <1> DEFINE r == measuring
  <1>2. UNCHANGED <<ui, measuring, recording, block, seen, generation, from, head, gaps, replaced>>
        /\ blockFrames' = 0 /\ callback = "writing"
    BY DEF WriteBlock, sessionVars, signalVars, workerVars
  <1>3. r \in Runs
    BY <1>1, <1>2, SizesAre DEF CallTypes, Runs, None
  <1>4. Ring!Accept(blockFrames) /\ overruns' = overruns
    <2>1. overruns' = gaps
      BY <1>2 DEF Undisturbed
    <2>2. overruns \in Nat /\ gaps <= overruns
      BY <1>1 DEF CountInv, MeasurementTypeOK
    <2>3. CASE Ring!Drop(blockFrames)
      BY <1>1, <1>2, <2>1, <2>2, <2>3, DropIs DEF CallTypes
    <2>4. CASE Ring!Accept(blockFrames)
      BY <1>1, <1>2, <2>4, AcceptIs
    <2> QED BY <2>3, <2>4 DEF WriteBlock
  <1>5. /\ queue' \in Seq(Nat) /\ Len(queue') = Len(queue) + blockFrames
        /\ Len(queue') <= CapacityFrames
        /\ \A i \in 1..Len(queue) : queue'[i] = queue[i]
        /\ \A i \in (Len(queue) + 1)..Len(queue') : queue'[i] = offered + (i - Len(queue)) - 1
        /\ offered' = offered + blockFrames /\ overruns' = overruns
    BY <1>1, <1>2, <1>4, AcceptIs, Zenon
  <1>6. Undisturbed(r)
    BY <1>2, <1>4 DEF Undisturbed, Lead
  <1>7. UnderWay(r)
    BY <1>1, <1>2, <1>6 DEF SweepInv
  <1>8. /\ Len(queue) \in Nat /\ Len(block) \in Nat /\ Len(recording.samples) \in Nat
        /\ offered \in Nat /\ blockFrames \in Nat /\ from[r] \in Int
        /\ DOMAIN queue = 1..Len(queue)
    BY <1>1, <1>3, NumbersAre
  <1>9. Waiting' = Waiting + blockFrames /\ Waiting \in Nat
        /\ Lead(r)' = Lead(r) /\ Lead(r) \in Nat
    <2>1. Waiting' = Waiting + blockFrames /\ Waiting \in Nat
      <3> DEFINE s == Len(recording.samples)
                 b == Len(block)
                 q == Len(queue)
      <3>1. s \in Nat /\ b \in Nat /\ q \in Nat /\ blockFrames \in Nat
        BY <1>8
      <3>2. Waiting = s + b + q /\ Waiting' = s + b + Len(queue')
        BY <1>2 DEF Waiting
      <3>3. Len(queue') = q + blockFrames
        BY <1>5
      <3> HIDE DEF s, b, q
      <3> QED BY <3>1, <3>2, <3>3
    <2>2. Lead(r)' = Lead(r)
      BY <1>2 DEF Lead
    <2> QED BY <1>1, <1>3, <2>1, <2>2, LeadIs
  <1>10. from'[measuring'] = from[r] /\ measuring' = r /\ Lead(measuring)' = Lead(r)
    BY <1>2 DEF Lead
  <1> HIDE DEF r
  <1>11. AheadInv(r) => AheadInv(measuring)'
    <2>1. Waiting' + blockFrames' = Waiting + blockFrames
      <3>1. blockFrames' = 0 /\ blockFrames \in Nat
        BY <1>2, <1>8
      <3> QED BY <1>9, <3>1
    <2> QED BY <1>9, <1>10, <2>1 DEF AheadInv
  <1>12. Holds(r, recording.samples) => Holds(measuring, recording.samples)'
    <2>1. from[r] + SweepFrames <= offered => from[r] + SweepFrames <= offered'
      BY <1>5, <1>8, SizesAre
    <2> QED BY <1>2, <1>10, <2>1 DEF Holds
  <1>13. ASSUME InFlightInv(r) PROVE InFlightInv(measuring)'
    <2>1. from[r] <= offered' /\ offered' - from[r] = (offered - from[r]) + blockFrames
      BY <1>5, <1>8, <1>13 DEF InFlightInv
    <2>2. offered' - from[r] <= Waiting' /\ Waiting' <= Lead(r) + (offered' - from[r])
      BY <1>5, <1>8, <1>9, <1>13, <2>1 DEF InFlightInv
    <2>3. offered' - Waiting' = offered - Waiting
          /\ offered' - Len(queue') = offered - Len(queue)
      BY <1>5, <1>8, <1>9
    <2>4. ASSUME NEW i \in DOMAIN queue', offered' - Len(queue') - 1 + i >= from[r]
          PROVE  queue'[i] = offered' - Len(queue') - 1 + i
      <3>1. i \in 1..Len(queue')
        BY <1>5, <2>4
      <3>2. CASE i \in 1..Len(queue)
        BY <1>5, <1>8, <1>13, <2>3, <2>4, <3>2 DEF InFlightInv
      <3>3. CASE i \in (Len(queue) + 1)..Len(queue')
        BY <1>5, <1>8, <2>3, <3>3
      <3> QED BY <1>5, <1>8, <3>1, <3>2, <3>3
    <2>5. ASSUME NEW i \in DOMAIN block', offered' - (Len(queue') + Len(block')) - 1 + i >= from[r]
          PROVE  block'[i] = offered' - (Len(queue') + Len(block')) - 1 + i
      <3>1. offered' - (Len(queue') + Len(block')) = offered - (Len(queue) + Len(block))
        BY <1>2, <1>5, <1>8
      <3> QED BY <1>2, <1>13, <2>5, <3>1 DEF InFlightInv
    <2>6. ASSUME NEW i \in DOMAIN recording'.samples, offered' - Waiting' - 1 + i >= from[r]
          PROVE  recording'.samples[i] = offered' - Waiting' - 1 + i
      BY <1>2, <1>13, <2>3, <2>6 DEF InFlightInv
    <2> QED BY <1>9, <1>10, <2>1, <2>2, <2>4, <2>5, <2>6, InFlightAfter
  <1> QED BY <1>2, <1>7, <1>11, <1>12, <1>13 DEF UnderWay, r

LEMMA DrainKeepsUnderWay ==
  ASSUME MeasurementInv, Drain, ui' = "free", measuring' # None, Undisturbed(measuring)'
  PROVE  UnderWay(measuring)'
  <1>1. /\ SweepInv /\ MeasurementTypeOK /\ CallTypes
    BY TypesAre DEF MeasurementInv
  <1> DEFINE r == measuring
  <1>2. UNCHANGED <<ui, measuring, recording, blockFrames, seen, generation, from, head, gaps,
                    replaced>>
    BY DEF Drain, sessionVars, signalVars, callbackVars
  <1>3. r \in Runs
    BY <1>1, <1>2, SizesAre DEF CallTypes, Runs, None
  <1>4. /\ Len(block) = 0
        /\ block' \in Seq(Nat) /\ Len(block') \in 1..DrainFrames
        /\ queue' \in Seq(Nat) /\ Len(queue') + Len(block') = Len(queue)
        /\ \A i \in 1..Len(block') : block'[i] = queue[i]
        /\ \A i \in 1..Len(queue') : queue'[i] = queue[Len(block') + i]
        /\ offered' = offered /\ overruns' = overruns
    BY <1>1, DrainIs
  <1>5. Undisturbed(r)
    BY <1>2, <1>4 DEF Undisturbed, Lead
  <1>6. UnderWay(r)
    BY <1>1, <1>2, <1>5 DEF SweepInv
  <1>7. /\ Len(queue) \in Nat /\ Len(recording.samples) \in Nat
        /\ offered \in Nat /\ blockFrames \in Nat /\ from[r] \in Int
        /\ DOMAIN queue = 1..Len(queue)
    BY <1>1, <1>3, NumbersAre
  <1>8. Len(queue') \in Nat /\ Len(block') \in Nat /\ DOMAIN queue' = 1..Len(queue')
        /\ DOMAIN block' = 1..Len(block')
    BY <1>4
  <1>9. Waiting' = Waiting /\ Lead(r)' = Lead(r)
    <2>1. Waiting' = Waiting
      <3> DEFINE s == Len(recording.samples)
                 b == Len(block')
                 q == Len(queue')
      <3>1. s \in Nat /\ b \in Nat /\ q \in Nat
        BY <1>7, <1>8
      <3>2. Waiting' = s + b + q /\ Waiting = s + Len(block) + Len(queue)
        BY <1>2 DEF Waiting
      <3>3. Len(block) = 0 /\ Len(queue) = q + b
        BY <1>4
      <3> HIDE DEF s, b, q
      <3> QED BY <3>1, <3>2, <3>3
    <2> QED BY <1>2, <2>1 DEF Lead
  <1>10. from'[measuring'] = from[r] /\ measuring' = r /\ Lead(measuring)' = Lead(r)
    BY <1>2 DEF Lead
  <1> HIDE DEF r
  <1>11. AheadInv(r) => AheadInv(measuring)'
    <2>1. blockFrames' = blockFrames
      BY <1>2
    <2> QED BY <1>9, <1>10, <2>1 DEF AheadInv
  <1>12. Holds(r, recording.samples) => Holds(measuring, recording.samples)'
    BY <1>2, <1>4, <1>10 DEF Holds
  <1>13. ASSUME InFlightInv(r) PROVE InFlightInv(measuring)'
    <2>1. ASSUME NEW i \in DOMAIN queue', offered' - Len(queue') - 1 + i >= from[r]
          PROVE  queue'[i] = offered' - Len(queue') - 1 + i
      <3>1. i \in 1..Len(queue') /\ queue'[i] = queue[Len(block') + i]
        BY <1>4, <1>8, <2>1
      <3>2. Len(block') + i \in DOMAIN queue
            /\ offered - Len(queue) - 1 + (Len(block') + i) = offered' - Len(queue') - 1 + i
        <4> DEFINE b == Len(block')
                   q == Len(queue')
        <4>1. b \in Nat /\ q \in Nat /\ offered \in Nat /\ i \in 1..q
          BY <1>7, <1>8, <3>1
        <4>2. Len(queue) = q + b /\ offered' = offered /\ DOMAIN queue = 1..(q + b)
          BY <1>4, <1>7
        <4> HIDE DEF b, q
        <4>3. offered - (q + b) - 1 + (b + i) = offered - q - 1 + i
          BY <4>1
        <4>4. b + i \in 1..(q + b)
          BY <4>1
        <4> QED BY <4>2, <4>3, <4>4 DEF b, q
      <3> QED BY <1>13, <2>1, <3>1, <3>2 DEF InFlightInv
    <2>2. ASSUME NEW i \in DOMAIN block', offered' - (Len(queue') + Len(block')) - 1 + i >= from[r]
          PROVE  block'[i] = offered' - (Len(queue') + Len(block')) - 1 + i
      <3>1. i \in 1..Len(block') /\ block'[i] = queue[i]
        BY <1>4, <1>8, <2>2
      <3>2. i \in DOMAIN queue
            /\ offered - Len(queue) - 1 + i = offered' - (Len(queue') + Len(block')) - 1 + i
        BY <1>4, <1>7, <1>8, <3>1
      <3> QED BY <1>13, <2>2, <3>1, <3>2 DEF InFlightInv
    <2>3. ASSUME NEW i \in DOMAIN recording'.samples, offered' - Waiting' - 1 + i >= from[r]
          PROVE  recording'.samples[i] = offered' - Waiting' - 1 + i
      BY <1>2, <1>4, <1>9, <1>13, <2>3 DEF InFlightInv
    <2>4. /\ from[r] <= offered' /\ offered' - from[r] <= Waiting'
          /\ Waiting' <= Lead(r) + (offered' - from[r])
      BY <1>4, <1>9, <1>13 DEF InFlightInv
    <2> QED BY <1>9, <1>10, <2>1, <2>2, <2>3, <2>4, InFlightAfter
  <1> QED BY <1>2, <1>6, <1>11, <1>12, <1>13 DEF UnderWay, r

LEMMA CaptureKeepsUnderWay ==
  ASSUME MeasurementInv, Capture, ui' = "free", measuring' # None, Undisturbed(measuring)'
  PROVE  UnderWay(measuring)'
  <1>1. /\ SweepInv /\ MeasurementTypeOK /\ CallTypes /\ CountInv /\ AgreeInv
    BY TypesAre DEF MeasurementInv
  <1> DEFINE r == measuring
  <1>2. UNCHANGED <<ui, measuring, blockFrames, seen, generation, from, head, gaps,
                    replaced, queue, offered, overruns>> /\ block' = <<>>
    BY DEF Capture, sessionVars, signalVars, callbackVars, ringVars
  <1>3. r \in Runs
    BY <1>1, <1>2, SizesAre DEF CallTypes, Runs, None
  <1>4. recording.active
    BY <1>1, <1>2 DEF AgreeInv
  <1>5. Undisturbed(r)
    BY <1>2 DEF Undisturbed, Lead
  <1>6. UnderWay(r)
    BY <1>1, <1>2, <1>5 DEF SweepInv
  <1>7. /\ Len(queue) \in Nat /\ Len(block) \in Nat /\ Len(recording.samples) \in Nat
        /\ recording.wanted \in Nat
        /\ offered \in Nat /\ blockFrames \in Nat /\ from[r] \in Int
        /\ DOMAIN queue = 1..Len(queue) /\ DOMAIN block = 1..Len(block)
        /\ DOMAIN recording.samples = 1..Len(recording.samples)
    BY <1>1, <1>3, NumbersAre
  <1>8. Len(block') = 0 /\ DOMAIN block' = {}
    BY <1>2
  <1>9. from'[measuring'] = from[r] /\ measuring' = r /\ Lead(r)' = Lead(r)
        /\ Lead(measuring)' = Lead(r)
    BY <1>2 DEF Lead
  <1>10. Waiting = Len(recording.samples) + Len(block) + Len(queue) /\ Waiting \in Nat
    BY <1>7 DEF Waiting
  <1>11. Len(recording.samples) + recording.wanted = RunFrames /\ Lead(r) <= TailFrames
         /\ RunFrames = SweepFrames + TailFrames
    BY <1>1, <1>4, <1>5, RunFramesIs DEF CountInv, Undisturbed
  <1>12. Lead(r) \in Nat
    BY <1>1, <1>3, LeadIs
  <1> HIDE DEF r
  <1>13. CASE recording.wanted = 0
    <2>1. recording' = recording
      BY <1>7, <1>13 DEF Capture
    <2>2. seen = generation /\ Holds(r, recording.samples)
      BY <1>6, <1>7, <1>13 DEF UnderWay
    <2>3. Holds(measuring, recording.samples)'
      BY <1>2, <1>9, <2>1, <2>2 DEF Holds
    <2>4. seen' = generation' /\ ~(recording'.wanted > 0)
      BY <1>2, <1>7, <1>13, <2>1, <2>2
    <2> QED BY <2>3, <2>4 DEF UnderWay
  <1>14. CASE recording.wanted > 0
    <2> DEFINE n == Lesser(Len(block), recording.wanted)
               old == Len(recording.samples)
    <2>1. /\ n \in 0..Len(block) /\ n \in 0..recording.wanted
          /\ recording' = [samples |-> recording'.samples, wanted |-> recording.wanted - n,
                           total |-> recording.total, active |-> TRUE]
          /\ recording'.samples \in Seq(Nat) /\ Len(recording'.samples) = old + n
          /\ \A i \in 1..old : recording'.samples[i] = recording.samples[i]
          /\ \A i \in (old + 1)..(old + n) : recording'.samples[i] = block[i - old]
      BY <1>1, <1>4, <1>14, CaptureIs
    <2>2. recording'.wanted = recording.wanted - n
      BY <2>1
    <2>3. n = Len(block) \/ n = recording.wanted
      BY DEF Lesser
    <2>4. DOMAIN recording'.samples = 1..(old + n)
      BY <2>1
    <2> HIDE DEF n, old
    <2>5. old \in Nat /\ n \in Nat /\ n <= Len(block) /\ n <= recording.wanted
          /\ Waiting = old + Len(block) + Len(queue) /\ old + recording.wanted = RunFrames
      BY <1>7, <1>10, <1>11, <2>1 DEF old
    <2>6. CASE seen # generation
      <3>1. Waiting <= Lead(r)
        BY <1>6, <1>7, <1>10, <1>12, <2>6 DEF UnderWay, AheadInv
      <3>2. old + Len(block) < RunFrames
        BY <1>7, <1>11, <1>12, <2>5, <3>1, SizesAre
      <3>3. n = Len(block) /\ recording.wanted - n > 0
        <4>1. Len(block) \in Nat /\ recording.wanted \in Nat
          BY <1>7
        <4>2. Len(block) < recording.wanted
          BY <2>5, <3>2, <4>1
        <4> QED BY <2>3, <2>5, <4>1, <4>2
      <3>4. Waiting' = Waiting
        BY <1>2, <1>7, <1>8, <2>1, <2>5, <3>3 DEF Waiting
      <3>5. AheadInv(measuring)'
        <4>1. blockFrames' = blockFrames
          BY <1>2
        <4>2. Waiting + blockFrames <= Lead(r)
          BY <1>6, <2>6 DEF UnderWay, AheadInv
        <4> QED BY <1>9, <3>4, <4>1, <4>2 DEF AheadInv
      <3> QED BY <1>2, <2>2, <2>6, <3>3, <3>5 DEF UnderWay
    <2>7. CASE seen = generation
      <3>1. InFlightInv(r)
        BY <1>6, <1>14, <2>7 DEF UnderWay
      <3>2. ASSUME NEW i \in 1..(old + n), offered - Waiting - 1 + i >= from[r]
            PROVE  recording'.samples[i] = offered - Waiting - 1 + i
        <4>1. CASE i \in 1..old
          <5>1. i \in DOMAIN recording.samples
            BY <1>7, <4>1 DEF old
          <5> QED BY <2>1, <3>1, <3>2, <4>1, <5>1 DEF InFlightInv
        <4>2. CASE i \in (old + 1)..(old + n)
          <5>1. i - old \in DOMAIN block
                /\ offered - (Len(queue) + Len(block)) - 1 + (i - old) = offered - Waiting - 1 + i
            <6> DEFINE b == Len(block)
                       q == Len(queue)
            <6>1. b \in Nat /\ q \in Nat /\ offered \in Nat /\ i \in Int
                  /\ DOMAIN block = 1..b
              BY <1>7, <2>5, <4>2
            <6>2. Waiting = old + b + q /\ old \in Nat /\ n \in Nat /\ n <= b
              BY <2>5
            <6>3. i >= old + 1 /\ i <= old + n
              BY <2>5, <4>2
            <6> HIDE DEF b, q
            <6>4. i - old \in 1..b
              BY <6>1, <6>2, <6>3
            <6>5. offered - (q + b) - 1 + (i - old) = offered - Waiting - 1 + i
              BY <6>1, <6>2
            <6> QED BY <6>1, <6>4, <6>5 DEF b, q
          <5> QED BY <2>1, <3>1, <3>2, <4>2, <5>1 DEF InFlightInv
        <4> QED BY <2>5, <3>2, <4>1, <4>2
      <3>3. CASE recording.wanted - n > 0
        <4>1. n = Len(block)
          BY <1>7, <2>3, <2>5, <3>3
        <4>2. Waiting' = Waiting
          BY <1>2, <1>7, <1>8, <2>1, <2>5, <4>1 DEF Waiting
        <4>3. InFlightInv(measuring)'
          <5>1. \A i \in DOMAIN queue' :
                  offered' - Len(queue') - 1 + i >= from[r] =>
                    queue'[i] = offered' - Len(queue') - 1 + i
            BY <1>2, <3>1 DEF InFlightInv
          <5>2. \A i \in DOMAIN recording'.samples :
                  offered' - Waiting' - 1 + i >= from[r] =>
                    recording'.samples[i] = offered' - Waiting' - 1 + i
            BY <1>2, <2>4, <3>2, <4>2
          <5>3. /\ from[r] <= offered' /\ offered' - from[r] <= Waiting'
                /\ Waiting' <= Lead(r) + (offered' - from[r])
            BY <1>2, <3>1, <4>2 DEF InFlightInv
          <5>4. \A i \in DOMAIN block' :
                  offered' - (Len(queue') + Len(block')) - 1 + i >= from[r] =>
                    block'[i] = offered' - (Len(queue') + Len(block')) - 1 + i
            BY <1>8
          <5> QED BY <1>9, <5>1, <5>2, <5>3, <5>4, InFlightAfter
        <4>4. seen' = generation' /\ recording'.wanted # 0
          BY <1>2, <2>2, <2>7, <3>3
        <4> QED BY <4>3, <4>4 DEF UnderWay
      <3>4. CASE ~(recording.wanted - n > 0)
        <4>1. recording'.wanted = 0 /\ old + n = RunFrames
          BY <1>7, <2>2, <2>5, <3>4
        <4>2. /\ from[r] <= offered /\ offered - from[r] <= Waiting
              /\ Waiting <= Lead(r) + (offered - from[r])
          BY <3>1 DEF InFlightInv
        <4>3. from[r] + SweepFrames <= offered
          <5>1. RunFrames <= Waiting
            BY <1>7, <2>5, <4>1, RunFramesIs
          <5> QED BY <1>7, <1>10, <1>11, <1>12, <4>2, <5>1, SizesAre
        <4>4. ASSUME NEW x \in from[r]..(from[r] + SweepFrames - 1)
              PROVE  \E k \in DOMAIN recording'.samples : recording'.samples[k] = x
          <5> DEFINE k == x - offered + Waiting + 1
          <5>1. x \in Int /\ x >= from[r] /\ x <= from[r] + SweepFrames - 1
            BY <1>7, <4>4, SizesAre
          <5>2. k \in Int /\ k >= 1
            <6>1. \A f, o, w \in Int : o - f <= w /\ x >= f => x - o + w + 1 \in Int
                                       /\ x - o + w + 1 >= 1
              BY <5>1
            <6>2. from[r] \in Int /\ offered \in Int /\ Waiting \in Int
              BY <1>7, <1>10
            <6> QED BY <4>2, <5>1, <6>1, <6>2
          <5>3. k <= old + n
            <6>1. \A f, o, w, lead \in Int :
                    /\ x <= f + SweepFrames - 1 /\ w <= lead + (o - f) /\ lead <= TailFrames
                    => x - o + w + 1 <= SweepFrames + TailFrames
              BY <5>1, SizesAre
            <6>2. from[r] \in Int /\ offered \in Int /\ Waiting \in Int /\ Lead(r) \in Int
              BY <1>7, <1>10, <1>12
            <6>3. k <= SweepFrames + TailFrames
              BY <1>11, <4>2, <5>1, <6>1, <6>2
            <6> QED BY <1>11, <4>1, <6>3
          <5>4. offered - Waiting - 1 + k = x
            <6>1. \A o, w \in Int : o - w - 1 + (x - o + w + 1) = x
              BY <5>1
            <6>2. offered \in Int /\ Waiting \in Int
              BY <1>7, <1>10
            <6> QED BY <6>1, <6>2
          <5>5. k \in 1..(old + n)
            BY <2>5, <5>2, <5>3
          <5> HIDE DEF k
          <5>6. recording'.samples[k] = x
            BY <3>2, <5>1, <5>4, <5>5
          <5> QED BY <2>4, <5>5, <5>6
        <4>5. from[r] # Never
          <5>1. stimulus = r /\ stimulus # None
            BY <1>1, <1>2, <1>5 DEF AgreeInv, Undisturbed, r
          <5> QED BY <2>7, <5>1 DEF MeasurementInv, PlayingInv
        <4>6. Holds(measuring, recording.samples)'
          BY <1>2, <1>9, <4>3, <4>4, <4>5 DEF Holds
        <4>7. seen' = generation' /\ ~(recording'.wanted > 0)
          BY <1>2, <2>7, <4>1
        <4> QED BY <4>6, <4>7 DEF UnderWay
      <3> QED BY <3>3, <3>4
    <2> QED BY <2>6, <2>7
  <1> QED BY <1>7, <1>13, <1>14

LEMMA MeasurementStep == MeasurementInv /\ [MeasurementNext]_measurementVars => MeasurementInv'
  <1> SUFFICES ASSUME MeasurementInv, [MeasurementNext]_measurementVars PROVE MeasurementInv'
    OBVIOUS
  <1>1. SweepInv'
    <2>1. CASE Ui
      BY <2>1, CallsKeepSweep
    <2>2. CASE ProcessBlock
      BY <2>2, ProcessKeepsSweep
    <2>3. CASE WriteBlock
      BY <2>3, OthersKeepHeld, WriteKeepsUnderWay DEF SweepInv
    <2>4. CASE Drain
      BY <2>4, OthersKeepHeld, DrainKeepsUnderWay DEF SweepInv, Worker
    <2>5. CASE Capture
      BY <2>5, OthersKeepHeld, CaptureKeepsUnderWay DEF SweepInv, Worker
    <2>6. CASE UNCHANGED measurementVars
      <3>1. SweepInv
        BY DEF MeasurementInv
      <3> QED BY <2>6, <3>1 DEF measurementVars, ringVars, workerVars, callbackVars, signalVars,
                 sessionVars, SweepInv, Undisturbed, UnderWay, AheadInv, InFlightInv, Holds,
                 PlayedOut, Lead, Waiting
    <2> QED BY <2>1, <2>2, <2>3, <2>4, <2>5, <2>6 DEF MeasurementNext, Callback, Worker
  <1> QED BY <1>1, MeasurementTypesKept, AgreeKept, UnbegunKept, PlayingKept, CountKept
          DEF MeasurementInv

LEMMA MeasurementInvariance == MeasurementSpec => []MeasurementInv
  BY MeasurementInitially, MeasurementStep, PTL DEF MeasurementSpec

(* A run's recording, its sweep and the session's state keep their types.   *)
THEOREM MeasurementTypeCorrect == MeasurementSpec => []MeasurementTypeOK
  <1>1. MeasurementInv => MeasurementTypeOK
    BY DEF MeasurementInv
  <1> QED BY <1>1, MeasurementInvariance, PTL

(* Between calls the session, the engine and the generator agree on whether *)
(* a run is going on, whichever runs were started over others, refused,     *)
(* cancelled or finished (measure.cpp).                                     *)
THEOREM SessionAlwaysAgrees == MeasurementSpec => []SessionAgrees
  <1>1. MeasurementInv => SessionAgrees
    BY DEF MeasurementInv, AgreeInv, SessionAgrees
  <1> QED BY <1>1, MeasurementInvariance, PTL

(* A result with nothing dropped and a tail that covers what was in flight  *)
(* holds its whole sweep, for every sweep, ring, pass and block             *)
(* (measure.cpp, engine.cpp, stimulus_callback.cpp).                        *)
THEOREM ResultsHoldTheirSweeps == MeasurementSpec => []ResultHoldsSweep
  <1>1. MeasurementInv => ResultHoldsSweep
    <2> SUFFICES ASSUME MeasurementInv, measured # NoResult, overruns = gaps,
                        Lead(measured.run) <= TailFrames, ~replaced
                 PROVE  HoldsSweep(measured)
      BY DEF ResultHoldsSweep
    <2>1. Holds(measured.run, measured.response) /\ PlayedOut(measured.run)
      BY DEF MeasurementInv, SweepInv, Undisturbed
    <2>2. from[measured.run] # Never
      BY <2>1 DEF Holds
    <2>3. upTo[measured.run] = Never
            \/ upTo[measured.run] >= from[measured.run] + SweepFrames
      BY <2>1 DEF PlayedOut
    <2>4. from[measured.run]..((from[measured.run] + SweepFrames) - 1)
            \subseteq {measured.response[k] : k \in DOMAIN measured.response}
      <3> SUFFICES ASSUME NEW x \in from[measured.run]..((from[measured.run] + SweepFrames) - 1)
                   PROVE  \E k \in DOMAIN measured.response : measured.response[k] = x
        OBVIOUS
      <3>1. \A y \in from[measured.run]..(from[measured.run] + SweepFrames - 1) :
              \E k \in DOMAIN measured.response : measured.response[k] = y
        BY <2>1 DEF Holds
      <3>2. from[measured.run] \in Int /\ SweepFrames \in Int
        <4>1. measured.run \in Runs
          BY DEF MeasurementInv, SweepInv, Undisturbed
        <4>2. from[measured.run] \in {Never} \cup 0..MaxOffered
          BY <4>1 DEF MeasurementInv, MeasurementTypeOK
        <4> QED BY <4>2, <2>2, MeasurementAssumption
      <3>3. (from[measured.run] + SweepFrames) - 1 = from[measured.run] + SweepFrames - 1
        BY <3>2
      <3> QED BY <3>1, <3>3
    <2> QED BY <2>2, <2>3, <2>4, Zenon DEF HoldsSweep
  <1> QED BY <1>1, MeasurementInvariance, PTL
================================================================================
