------------------------------ MODULE EngineProofs ------------------------------
(***************************************************************************)
(* Proofs about the analysis worker, for any ring, any blocks, any         *)
(* analysers and any calls of the owner: a recording handed over is whole, *)
(* a gap is stamped, a reset is not lost, and the window a delay is found  *)
(* in is fresh.                                                            *)
(***************************************************************************)
EXTENDS Engine, Arithmetic, SequenceTheorems

Sample == 0..MaxOffered

(* `part` is what `whole` holds after position k. *)
RunAt(part, whole, k) == \A i \in 1..Len(part) : part[i] = whole[k + i]

(* How much of what was delivered has been offered to a recording. *)
Captured == IF worker = "capture" THEN Len(delivered) - Len(block)
                                  ELSE Len(delivered)

(* The histories are positions in what has been delivered. *)
HistoryInv ==
  /\ resetAt \in 0..Len(delivered)
  /\ askedAt \in 0..Len(delivered)
  /\ averageFrom \in Nat
  /\ windowFrom \in Nat
  /\ snapshot.seen \in 0..Len(delivered)
  /\ snapshot.overruns \in Nat
  /\ \A r \in handed : r.samples \in Seq(Sample)

(* While no block was dropped, delivered and queued are all of the stream. *)
StreamInv ==
  overruns = 0 =>
    /\ \A i \in 1..Len(delivered) : delivered[i] = i - 1
    /\ \A i \in 1..Len(queue) : queue[i] = Len(delivered) + i - 1
    /\ offered = Len(delivered) + Len(queue)

(* The block in hand is the end of what was delivered. *)
BlockInv ==
  /\ Len(block) <= Len(delivered)
  /\ RunAt(block, delivered, Len(delivered) - Len(block))

(* A recording is one run, and one that wants more ends where the worker is.*)
RecordingInv ==
  recording.active =>
    /\ Len(recording.samples) + recording.wanted = recording.total
    /\ \E k \in 0..(Captured - Len(recording.samples)) :
         /\ RunAt(recording.samples, delivered, k)
         /\ recording.wanted > 0 => k + Len(recording.samples) = Captured

(* A window has samples only while a request is pending, and is searched    *)
(* and answered before the request is withdrawn.                            *)
RequestInv ==
  /\ finderFilled < FinderSize
  /\ ~estimateDelay => finderFilled = 0
  /\ worker \in {"find", "clear"} => estimateDelay /\ finderFilled = 0

IInv == /\ TypeOK /\ HistoryInv /\ StreamInv /\ BlockInv /\ RecordingInv
        /\ RequestInv
        /\ HandedIsComplete /\ GapsAreStamped /\ ResetIsNotLost /\ WindowIsFresh

--------------------------------------------------------------------------------
(* A run of consecutive samples, sample by sample. *)
LEMMA RunIs ==
  ASSUME NEW S, NEW part \in Seq(S), NEW whole \in Seq(S)
  PROVE  IsRunOf(part, whole) <=>
           \E k \in 0..(Len(whole) - Len(part)) : RunAt(part, whole, k)
  <1>1. SUFFICES ASSUME NEW k \in 0..(Len(whole) - Len(part))
                 PROVE  part = SubSeq(whole, k + 1, k + Len(part))
                          <=> RunAt(part, whole, k)
    BY Zenon DEF IsRunOf
  <1> DEFINE sub == SubSeq(whole, k + 1, k + Len(part))
  <1>2. \A i \in (k + 1)..(k + Len(part)) : whole[i] \in S
    BY ElementOfSeq, LenProperties
  <1>3. k + 1 \in Int /\ k + Len(part) \in Int /\ Len(part) \in Nat
    BY LenProperties
  <1>4. /\ sub \in Seq(S)
        /\ Len(sub) = IF k + 1 <= k + Len(part) THEN k + Len(part) - (k + 1) + 1 ELSE 0
        /\ \A i \in 1..(k + Len(part) - (k + 1) + 1) : sub[i] = whole[k + 1 + i - 1]
    BY <1>2, <1>3, SubSeqProperties
  <1>5. Len(sub) = Len(part) /\ \A i \in 1..Len(part) : sub[i] = whole[k + i]
    <2> HIDE DEF sub
    <2> QED BY <1>3, <1>4
  <1>6. RunAt(part, whole, k) => part = sub
    <2> HIDE DEF sub
    <2> QED BY <1>4, <1>5, SeqEqual DEF RunAt
  <1>7. part = sub => RunAt(part, whole, k)
    <2> HIDE DEF sub
    <2> QED BY <1>5 DEF RunAt
  <1> QED BY <1>6, <1>7

(* Delivering more leaves the runs, and the positions, of before. *)
LEMMA Longer ==
  ASSUME NEW S, NEW whole \in Seq(S), NEW more \in Seq(S)
  PROVE  /\ whole \o more \in Seq(S)
         /\ Len(whole \o more) = Len(whole) + Len(more)
         /\ Len(whole) \in Nat /\ Len(more) \in Nat
         /\ \A i \in 1..Len(whole) : (whole \o more)[i] = whole[i]
         /\ \A i \in 1..Len(more) : (whole \o more)[Len(whole) + i] = more[i]
  <1>1. Len(whole) \in Nat /\ Len(more) \in Nat
    BY LenProperties
  <1>2. /\ whole \o more \in Seq(S)
        /\ Len(whole \o more) = Len(whole) + Len(more)
        /\ \A i \in 1..Len(whole) + Len(more) :
             (whole \o more)[i] = IF i <= Len(whole) THEN whole[i]
                                                     ELSE more[i - Len(whole)]
    BY ConcatProperties
  <1> QED BY <1>1, <1>2

LEMMA BlockIs ==
  ASSUME NEW from \in Nat, NEW n \in Nat, from + n <= MaxOffered
  PROVE  /\ [i \in 1..n |-> from + i - 1] \in Seq(Sample)
         /\ Len([i \in 1..n |-> from + i - 1]) = n
  <1>1. \A i \in 1..n : from + i - 1 \in 0..MaxOffered
    BY EngineAssumption
  <1>2. [i \in 1..n |-> from + i - 1] \in [1..n -> Sample]
    BY <1>1 DEF Sample
  <1> QED BY <1>2

(* A block accepted is numbered on from what was offered. *)
LEMMA Enqueued ==
  ASSUME NEW s \in Seq(Sample), NEW from \in Nat, NEW n \in Nat, from + n <= MaxOffered
  PROVE  LET longer == s \o [i \in 1..n |-> from + i - 1]
         IN  /\ longer \in Seq(Sample) /\ Len(longer) = Len(s) + n
             /\ \A i \in 1..Len(s) : longer[i] = s[i]
             /\ \A i \in 1..n : longer[Len(s) + i] = from + i - 1
  <1>1. PICK fresh \in Seq(Sample) : fresh = [i \in 1..n |-> from + i - 1] /\ Len(fresh) = n
    BY BlockIs, Zenon
  <1>2. \A i \in 1..n : fresh[i] = from + i - 1
    BY <1>1
  <1>3. /\ s \o fresh \in Seq(Sample)
        /\ Len(s \o fresh) = Len(s) + Len(fresh)
        /\ \A i \in 1..Len(s) : (s \o fresh)[i] = s[i]
        /\ \A i \in 1..Len(fresh) : (s \o fresh)[Len(s) + i] = fresh[i]
    <2>1. s \o fresh \in Seq(Sample) /\ Len(s \o fresh) = Len(s) + Len(fresh)
      BY Longer
    <2>2. \A i \in 1..Len(s) : (s \o fresh)[i] = s[i]
      BY Longer
    <2>3. \A i \in 1..Len(fresh) : (s \o fresh)[Len(s) + i] = fresh[i]
      BY Longer
    <2> QED BY <2>1, <2>2, <2>3, Zenon
  <1>4. \A i \in 1..n : (s \o fresh)[Len(s) + i] = from + i - 1
    BY <1>1, <1>2, <1>3, Zenon
  <1> QED BY <1>1, <1>3, <1>4, Zenon

(* A prefix of a sequence, and what follows it. *)
LEMMA Split ==
  ASSUME NEW S, NEW s \in Seq(S), NEW n \in 0..Len(s)
  PROVE  /\ SubSeq(s, 1, n) \in Seq(S) /\ Len(SubSeq(s, 1, n)) = n
         /\ \A i \in 1..n : SubSeq(s, 1, n)[i] = s[i]
         /\ SubSeq(s, n + 1, Len(s)) \in Seq(S)
         /\ Len(SubSeq(s, n + 1, Len(s))) = Len(s) - n
         /\ \A i \in 1..(Len(s) - n) : SubSeq(s, n + 1, Len(s))[i] = s[n + i]
  <1>1. Len(s) \in Nat /\ \A i \in 1..Len(s) : s[i] \in S
    BY LenProperties, ElementOfSeq
  <1>2. /\ SubSeq(s, 1, n) \in Seq(S)
        /\ Len(SubSeq(s, 1, n)) = IF 1 <= n THEN n - 1 + 1 ELSE 0
        /\ \A i \in 1..(n - 1 + 1) : SubSeq(s, 1, n)[i] = s[1 + i - 1]
    <2>1. \A i \in 1..n : s[i] \in S
      BY <1>1
    <2> QED BY <1>1, <2>1, SubSeqProperties
  <1>3. /\ SubSeq(s, n + 1, Len(s)) \in Seq(S)
        /\ Len(SubSeq(s, n + 1, Len(s)))
             = IF n + 1 <= Len(s) THEN Len(s) - (n + 1) + 1 ELSE 0
        /\ \A i \in 1..(Len(s) - (n + 1) + 1) :
             SubSeq(s, n + 1, Len(s))[i] = s[(n + 1) + i - 1]
    <2>1. \A i \in (n + 1)..Len(s) : s[i] \in S
      BY <1>1
    <2>2. n + 1 \in Int /\ Len(s) \in Int
      BY <1>1
    <2> QED BY <2>1, <2>2, SubSeqProperties
  <1>4. n \in Nat /\ n <= Len(s)
    BY <1>1
  <1>5. /\ Len(SubSeq(s, 1, n)) = n
        /\ \A i \in 1..n : SubSeq(s, 1, n)[i] = s[i]
    BY <1>2, <1>4
  <1>6. /\ Len(SubSeq(s, n + 1, Len(s))) = Len(s) - n
        /\ \A i \in 1..(Len(s) - n) : SubSeq(s, n + 1, Len(s))[i] = s[n + i]
    BY <1>1, <1>3, <1>4
  <1> QED BY <1>2, <1>3, <1>5, <1>6

(* What is left of a sliding frame is less than a frame; after one that was *)
(* completed it is all of it but less than a hop.                           *)
LEMMA KeptIsPartial ==
  ASSUME NEW partial \in 0..FftSize, NEW n \in Nat
  PROVE  /\ Produced(partial, n) \in Nat
         /\ Kept(partial, n) \in 0..FftSize /\ Kept(partial, n) < FftSize
         /\ Produced(partial, n) = 0 => Kept(partial, n) = partial + n
         /\ Produced(partial, n) > 0 => Kept(partial, n) >= FftSize - Hop
  <1>1. FftSize \in Nat \ {0} /\ Hop \in 1..FftSize /\ Hop \in Nat \ {0}
    BY EngineAssumption
  <1>2. CASE partial + n < FftSize
    <2>1. Produced(partial, n) = 0
      BY <1>2 DEF Produced
    <2>2. Kept(partial, n) = partial + n
      BY <2>1, <1>1 DEF Kept
    <2> QED BY <1>1, <1>2, <2>1, <2>2
  <1>3. CASE partial + n >= FftSize
    <2> DEFINE x == partial + n - FftSize
    <2>1. x \in Nat
      BY <1>1, <1>3
    <2>2. Produced(partial, n) = 1 + (x \div Hop)
      BY <1>1, <1>3 DEF Produced
    <2> HIDE DEF x
    <2>3. x = Hop * (x \div Hop) + (x % Hop) /\ x \div Hop \in Nat
      BY <1>1, <2>1, DivMod
    <2>4. x % Hop \in 0..(Hop - 1)
      BY <1>1, <2>1, ModRange
    <2> DEFINE q == x \div Hop
    <2> HIDE DEF q
    <2>5. Hop * (1 + q) = Hop + Hop * q
      BY <2>3, <1>1, Z3 DEF q
    <2>6. Kept(partial, n) = x + FftSize - (Hop + Hop * q)
      BY <2>2, <2>5, <1>1 DEF Kept, q, x
    <2>7. Kept(partial, n) = FftSize - Hop + (x % Hop)
      <3>1. Hop * q \in Int /\ x = Hop * q + (x % Hop)
        BY <2>3, <1>1, Z3 DEF q
      <3> QED BY <2>6, <3>1, <2>1, <2>4, <1>1
    <2> QED BY <2>2, <2>3, <2>4, <2>7, <1>1
  <1> QED BY <1>1, <1>2, <1>3

--------------------------------------------------------------------------------
LEMMA InitKeeps == Init => IInv
  <1> SUFFICES ASSUME Init PROVE IInv
    OBVIOUS
  <1> USE EngineAssumption DEF Init, Ring!Init
  <1>1. delivered = <<>> /\ queue = <<>> /\ block = <<>>
        /\ delivered \in Seq(Sample) /\ queue \in Seq(Sample) /\ block \in Seq(Sample)
        /\ Len(delivered) = 0 /\ Len(queue) = 0 /\ Len(block) = 0
    BY EmptySeq
  <1>2. TypeOK
    <2>1. Idle \in [samples : Seq(0..MaxOffered), wanted : Nat,
                    total : Nat, active : BOOLEAN]
      BY <1>1, EmptySeq DEF Idle
    <2>2. /\ queue \in Seq(0..MaxOffered) /\ Len(queue) <= CapacityFrames
          /\ delivered \in Seq(0..MaxOffered)
          /\ block \in Seq(0..MaxOffered) /\ Len(block) <= DrainFrames
      BY <1>1 DEF Sample
    <2>3. offered \in 0..MaxOffered /\ filled \in 0..FftSize
          /\ averageFilled \in 0..FftSize /\ finderFilled \in 0..FinderSize
      OBVIOUS
    <2> QED BY <2>1, <2>2, <2>3 DEF TypeOK
  <1>3. HistoryInv
    BY <1>1 DEF HistoryInv, InitialFrame
  <1>4. StreamInv /\ BlockInv
    BY <1>1 DEF StreamInv, BlockInv, RunAt
  <1>5. RecordingInv /\ RequestInv
    BY DEF RecordingInv, RequestInv, Idle
  <1>6. HandedIsComplete /\ ResetIsNotLost /\ WindowIsFresh
    BY DEF HandedIsComplete, ResetIsNotLost, WindowIsFresh
  <1>7. GapsAreStamped
    BY DEF GapsAreStamped, Missing, InitialFrame
  <1> QED BY <1>2, <1>3, <1>4, <1>5, <1>6, <1>7 DEF IInv

(* A step that neither delivers nor touches the recording disturbs nothing  *)
(* that is said of the samples.                                             *)
LEMMA SamplesStay ==
  ASSUME IInv, UNCHANGED <<ringVars, block, recording, handed>>,
         worker # "capture", worker' # "capture"
  PROVE  StreamInv' /\ BlockInv' /\ RecordingInv' /\ HandedIsComplete'
  <1> USE DEF IInv, ringVars
  <1>1. StreamInv'
    BY DEF StreamInv
  <1>2. BlockInv'
    BY DEF BlockInv, RunAt
  <1>3. RecordingInv'
    BY DEF RecordingInv, RunAt, Captured
  <1>4. HandedIsComplete'
    BY DEF HandedIsComplete, IsRunOf
  <1> QED BY <1>1, <1>2, <1>3, <1>4

(* The same for the owner's calls, which do not move the worker. *)
LEMMA SamplesStayForOwner ==
  ASSUME IInv, UNCHANGED <<ringVars, block, worker>>
  PROVE  /\ StreamInv' /\ BlockInv'
         /\ UNCHANGED recording => RecordingInv'
         /\ UNCHANGED handed => HandedIsComplete'
  <1> USE DEF IInv, ringVars
  <1>1. StreamInv'
    BY DEF StreamInv
  <1>2. BlockInv'
    BY DEF BlockInv, RunAt
  <1>3. UNCHANGED recording => RecordingInv'
    BY DEF RecordingInv, RunAt, Captured
  <1>4. UNCHANGED handed => HandedIsComplete'
    BY DEF HandedIsComplete, IsRunOf
  <1> QED BY <1>1, <1>2, <1>3, <1>4

(* The newest frame stays stamped until it is overwritten. *)
LEMMA StampStays ==
  ASSUME IInv, UNCHANGED <<ringVars, snapshot>>
  PROVE  GapsAreStamped'
  BY DEF IInv, GapsAreStamped, Missing, ringVars

--------------------------------------------------------------------------------
(* The audio callback. *)
LEMMA DeviceBlockKeeps ==
  ASSUME IInv, DeviceBlock
  PROVE  IInv'
  <1>0. /\ TypeOK /\ HistoryInv /\ StreamInv /\ BlockInv /\ RecordingInv
        /\ RequestInv
        /\ HandedIsComplete /\ GapsAreStamped /\ ResetIsNotLost /\ WindowIsFresh
    BY DEF IInv
  <1>1. PICK n \in BlockSizes : /\ offered + n <= MaxOffered
                                /\ Ring!Accept(n) \/ Ring!Drop(n)
    BY DEF DeviceBlock
  <1>2. /\ UNCHANGED <<transfer, stop, resetAverage, appliedDelay, estimateDelay,
                       recording, worker, block, filled, averageFilled, averageFrames,
                       averageFrom, finderFilled, windowFrom, sequence, snapshot,
                       published, owner, calls, resetAt, askedAt, handed>>
        /\ UNCHANGED delivered
    BY <1>1 DEF DeviceBlock, analysisVars, finderVars, outputVars, callVars,
                Ring!Accept, Ring!Drop
  <1>3. n \in Nat \ {0} /\ n * 1 = n /\ offered \in Nat /\ overruns \in Nat
        /\ queue \in Seq(Sample) /\ Len(queue) \in Nat /\ 1 * CapacityFrames = CapacityFrames
    BY <1>0, <1>1, EngineAssumption, LenProperties DEF TypeOK, Sample
  <1>4. /\ offered' = offered + n /\ offered' \in 0..MaxOffered
        /\ overruns' \in Nat /\ (overruns' = 0 => overruns = 0)
        /\ queue' \in Seq(Sample) /\ Len(queue') <= CapacityFrames
        /\ overruns' = 0 => /\ Len(queue') = Len(queue) + n
                            /\ \A i \in 1..Len(queue) : queue'[i] = queue[i]
                            /\ \A i \in 1..n : queue'[Len(queue) + i] = offered + i - 1
    <2>1. CASE Ring!Accept(n)
      <3>1. /\ queue' = queue \o [i \in 1..n |-> offered + i - 1]
            /\ offered' = offered + n /\ overruns' = overruns
            /\ Len(queue) + n <= CapacityFrames
        BY <1>3, <2>1 DEF Ring!Accept
      <3>2. /\ queue' \in Seq(Sample) /\ Len(queue') = Len(queue) + n
            /\ \A i \in 1..Len(queue) : queue'[i] = queue[i]
            /\ \A i \in 1..n : queue'[Len(queue) + i] = offered + i - 1
        <4>1. n \in Nat
          BY <1>3
        <4>2. offered + n <= MaxOffered /\ offered \in Nat /\ queue \in Seq(Sample)
          BY <1>1, <1>3
        <4> DEFINE longer == queue \o [i \in 1..n |-> offered + i - 1]
        <4>3. /\ longer \in Seq(Sample) /\ Len(longer) = Len(queue) + n
              /\ \A i \in 1..Len(queue) : longer[i] = queue[i]
              /\ \A i \in 1..n : longer[Len(queue) + i] = offered + i - 1
          BY <4>1, <4>2, Enqueued, Zenon
        <4>4. queue' = longer
          BY <3>1
        <4> HIDE DEF longer
        <4> QED BY <4>3, <4>4, Zenon
      <3> QED BY <1>1, <1>3, <3>1, <3>2
    <2>2. CASE Ring!Drop(n)
      <3>1. offered' = offered + n /\ overruns' = overruns + 1 /\ queue' = queue
        BY <1>3, <2>2 DEF Ring!Drop
      <3> QED BY <1>1, <1>3, <1>0, <3>1 DEF TypeOK
    <2> QED BY <1>1, <2>1, <2>2
  <1>5. TypeOK'
    BY <1>0, <1>2, <1>4 DEF TypeOK, Sample
  <1>6. HistoryInv'
    BY <1>0, <1>2 DEF HistoryInv
  <1>7. StreamInv'
    <2> SUFFICES ASSUME overruns' = 0 PROVE StreamInv'
      BY DEF StreamInv
    <2>1. /\ \A i \in 1..Len(queue) : queue[i] = Len(delivered) + i - 1
          /\ offered = Len(delivered) + Len(queue)
          /\ \A i \in 1..Len(delivered) : delivered[i] = i - 1
      BY <1>0, <1>4 DEF StreamInv
    <2>2. Len(delivered) \in Nat
      BY <1>0, LenProperties DEF TypeOK
    <2>3. ASSUME NEW i \in 1..Len(queue') PROVE queue'[i] = Len(delivered) + i - 1
      <3>1. CASE i <= Len(queue)
        BY <1>3, <1>4, <2>1, <3>1
      <3>2. CASE i > Len(queue)
        <4>1. i - Len(queue) \in 1..n /\ i = Len(queue) + (i - Len(queue))
          BY <1>3, <1>4, <3>2
        <4>2. queue'[i] = offered + (i - Len(queue)) - 1
          BY <1>4, <4>1
        <4> QED BY <1>3, <2>1, <2>2, <4>2
      <3> QED BY <1>3, <3>1, <3>2
    <2>4. offered' = offered + n /\ Len(queue') = Len(queue) + n
      BY <1>4
    <2>5. offered' = Len(delivered) + Len(queue')
      BY <1>3, <2>1, <2>2, <2>4
    <2> QED BY <1>2, <2>1, <2>3, <2>5 DEF StreamInv
  <1>8. BlockInv' /\ RecordingInv' /\ HandedIsComplete' /\ GapsAreStamped'
    BY <1>0, <1>2 DEF BlockInv, RecordingInv, RunAt, Captured, HandedIsComplete, IsRunOf,
                GapsAreStamped, Missing
  <1>9. RequestInv' /\ ResetIsNotLost' /\ WindowIsFresh'
    BY <1>0, <1>2 DEF RequestInv, ResetIsNotLost, WindowIsFresh
  <1> QED BY <1>5, <1>6, <1>7, <1>8, <1>9 DEF IInv

--------------------------------------------------------------------------------
(* What the worker drains is the oldest of the queue, and comes to lie at   *)
(* the end of what was delivered.                                           *)
LEMMA DrainedIs ==
  ASSUME TypeOK, NEW n \in Nat \ {0}, n <= DrainFrames, Ring!Deliver(n),
         block' = SubSeq(queue, 1, n)
  PROVE  /\ Len(queue) \in Nat /\ n <= Len(queue) /\ Len(delivered) \in Nat
         /\ block' \in Seq(Sample) /\ Len(block') = n
         /\ delivered' \in Seq(Sample) /\ Len(delivered') = Len(delivered) + n
         /\ \A i \in 1..Len(delivered) : delivered'[i] = delivered[i]
         /\ \A i \in 1..n : block'[i] = queue[i]
         /\ \A i \in 1..n : delivered'[Len(delivered) + i] = queue[i]
         /\ queue' \in Seq(Sample) /\ Len(queue') = Len(queue) - n
         /\ \A i \in 1..Len(queue') : queue'[i] = queue[n + i]
         /\ UNCHANGED <<offered, overruns>>
  <1>1. queue \in Seq(Sample) /\ delivered \in Seq(Sample)
    BY DEF TypeOK, Sample
  <1>2. Len(queue) \in Nat /\ Len(delivered) \in Nat
    BY <1>1, LenProperties
  <1>3. /\ n <= Len(queue)
        /\ delivered' = delivered \o SubSeq(queue, 1, n)
        /\ queue' = SubSeq(queue, n + 1, Len(queue))
        /\ UNCHANGED <<offered, overruns>>
    <2>1. n * 1 = n
      OBVIOUS
    <2> QED BY <2>1 DEF Ring!Deliver
  <1>4. n \in 0..Len(queue)
    BY <1>2, <1>3
  <1>5. /\ block' \in Seq(Sample) /\ Len(block') = n
        /\ \A i \in 1..n : block'[i] = queue[i]
    <2>1. SubSeq(queue, 1, n) \in Seq(Sample) /\ Len(SubSeq(queue, 1, n)) = n
      BY <1>1, <1>4, Split
    <2>2. \A i \in 1..n : SubSeq(queue, 1, n)[i] = queue[i]
      BY <1>1, <1>4, Split
    <2> QED BY <2>1, <2>2, Zenon
  <1>6. /\ queue' \in Seq(Sample) /\ Len(queue') = Len(queue) - n
        /\ \A i \in 1..Len(queue') : queue'[i] = queue[n + i]
    <2>1. /\ SubSeq(queue, n + 1, Len(queue)) \in Seq(Sample)
          /\ Len(SubSeq(queue, n + 1, Len(queue))) = Len(queue) - n
      BY <1>1, <1>4, Split
    <2>2. \A i \in 1..(Len(queue) - n) : SubSeq(queue, n + 1, Len(queue))[i] = queue[n + i]
      BY <1>1, <1>4, Split
    <2> QED BY <1>3, <2>1, <2>2, Zenon
  <1>7. delivered' = delivered \o block'
    BY <1>3
  <1>8. delivered' \in Seq(Sample) /\ Len(delivered') = Len(delivered) + n
    <2>1. /\ delivered \o block' \in Seq(Sample)
          /\ Len(delivered \o block') = Len(delivered) + Len(block')
      BY <1>1, <1>5, Longer
    <2> QED BY <1>5, <1>7, <2>1, Zenon
  <1>9. \A i \in 1..Len(delivered) : delivered'[i] = delivered[i]
    <2>1. \A i \in 1..Len(delivered) : (delivered \o block')[i] = delivered[i]
      BY <1>1, <1>5, Longer
    <2> QED BY <1>7, <2>1, Zenon
  <1>10. \A i \in 1..n : delivered'[Len(delivered) + i] = queue[i]
    <2>1. \A i \in 1..Len(block') : (delivered \o block')[Len(delivered) + i] = block'[i]
      BY <1>1, <1>5, Longer
    <2> QED BY <1>5, <1>7, <2>1, Zenon
  <1> QED BY <1>2, <1>3, <1>5, <1>6, <1>8, <1>9, <1>10

(* What was one run of the stream still is when more has been delivered. *)
LEMMA RunStays ==
  ASSUME NEW part \in Seq(Sample), delivered \in Seq(Sample), delivered' \in Seq(Sample),
         Len(delivered) <= Len(delivered'),
         \A i \in 1..Len(delivered) : delivered'[i] = delivered[i],
         IsRunOf(part, delivered)
  PROVE  IsRunOf(part, delivered')
  <1>1. PICK k \in 0..(Len(delivered) - Len(part)) : RunAt(part, delivered, k)
    BY RunIs
  <1>2. Len(part) \in Nat /\ Len(delivered) \in Nat /\ Len(delivered') \in Nat
    BY LenProperties
  <1>3. k \in 0..(Len(delivered') - Len(part))
    BY <1>1, <1>2
  <1>4. ASSUME NEW i \in 1..Len(part) PROVE part[i] = delivered'[k + i]
    <2>1. k + i \in 1..Len(delivered)
      BY <1>1, <1>2
    <2> QED BY <1>1, <2>1 DEF RunAt
  <1>5. RunAt(part, delivered', k)
    BY <1>4 DEF RunAt
  <1> QED BY <1>3, <1>5, RunIs

(* A read that finds something adds the block it leaves to what is drained. *)
LEMMA DrainedMore ==
  ASSUME IInv, Drain, Len(queue) # 0
  PROVE  Len(delivered') = Len(delivered) + Len(block') /\ worker' = "capture"
  <1>1. TypeOK /\ Len(queue) \in Nat
    BY LenProperties DEF IInv, TypeOK
  <1>2. PICK n \in Nat \ {0} : n = Lesser(DrainFrames, Len(queue)) /\ n <= DrainFrames
    BY <1>1, EngineAssumption DEF Lesser
  <1>3. Ring!Deliver(n) /\ block' = SubSeq(queue, 1, n) /\ worker' = "capture"
    BY <1>2 DEF Drain, ReadOnce
  <1>4. Len(block') = n /\ Len(delivered') = Len(delivered) + n
    BY <1>1, <1>2, <1>3, DrainedIs
  <1> QED BY <1>3, <1>4

(* A read that finds something. *)
LEMMA DrainSomeKeeps ==
  ASSUME IInv, Drain, Len(queue) # 0
  PROVE  IInv'
  <1>0. /\ TypeOK /\ HistoryInv /\ StreamInv /\ BlockInv /\ RecordingInv
        /\ RequestInv
        /\ HandedIsComplete /\ GapsAreStamped /\ ResetIsNotLost /\ WindowIsFresh
    BY DEF IInv
  <1>1. /\ UNCHANGED <<transfer, stop, resetAverage, appliedDelay, estimateDelay,
                       recording, filled, averageFilled, averageFrames,
                       averageFrom, finderFilled, windowFrom, sequence, snapshot,
                       published, owner, calls, resetAt, askedAt, handed>>
        /\ worker = "drain"
    BY DEF Drain, ReadOnce, analysisVars, finderVars, outputVars, callVars
  <1> DEFINE n == Lesser(DrainFrames, Len(queue))
  <1>2. Len(queue) \in Nat
    BY <1>0, LenProperties DEF TypeOK
  <1>3. n \in Nat \ {0} /\ n <= DrainFrames
    BY <1>2, EngineAssumption DEF Lesser
  <1>4. Ring!Deliver(n) /\ block' = SubSeq(queue, 1, n) /\ worker' = "capture"
    BY <1>3 DEF Drain, ReadOnce
  <1> HIDE DEF n
  <1>5. /\ n <= Len(queue) /\ Len(delivered) \in Nat
        /\ block' \in Seq(Sample) /\ Len(block') = n
        /\ delivered' \in Seq(Sample) /\ Len(delivered') = Len(delivered) + n
        /\ queue' \in Seq(Sample) /\ Len(queue') = Len(queue) - n
        /\ UNCHANGED <<offered, overruns>>
    BY <1>0, <1>3, <1>4, DrainedIs
  <1>6. /\ \A i \in 1..Len(delivered) : delivered'[i] = delivered[i]
        /\ \A i \in 1..n : block'[i] = queue[i]
        /\ \A i \in 1..n : delivered'[Len(delivered) + i] = queue[i]
        /\ \A i \in 1..Len(queue') : queue'[i] = queue[n + i]
    BY <1>0, <1>3, <1>4, DrainedIs
  <1>7. TypeOK'
    <2>1. Len(queue') <= CapacityFrames
      BY <1>0, <1>2, <1>3, <1>5, EngineAssumption DEF TypeOK
    <2>2. worker' \in {"check", "reset", "drain", "capture", "estimate", "find",
                      "clear", "analyse", "publish", "count", "done"}
      BY <1>4
    <2> QED BY <1>0, <1>1, <1>3, <1>5, <2>1, <2>2 DEF TypeOK, Sample
  <1>8. HistoryInv'
    <2>1. /\ resetAt' \in 0..Len(delivered') /\ askedAt' \in 0..Len(delivered')
          /\ snapshot'.seen \in 0..Len(delivered')
      BY <1>0, <1>1, <1>3, <1>5 DEF HistoryInv
    <2> QED BY <1>0, <1>1, <2>1 DEF HistoryInv
  <1>9. StreamInv'
    <2> SUFFICES ASSUME overruns' = 0 PROVE StreamInv'
      BY DEF StreamInv
    <2>1. /\ \A i \in 1..Len(delivered) : delivered[i] = i - 1
          /\ \A i \in 1..Len(queue) : queue[i] = Len(delivered) + i - 1
          /\ offered = Len(delivered) + Len(queue)
      BY <1>0, <1>5 DEF StreamInv
    <2>2. ASSUME NEW i \in 1..Len(delivered') PROVE delivered'[i] = i - 1
      <3>1. CASE i <= Len(delivered)
        BY <1>5, <1>6, <2>1, <3>1
      <3>2. CASE i > Len(delivered)
        <4> DEFINE j == i - Len(delivered)
        <4>1. j \in 1..n /\ i = Len(delivered) + j /\ j \in 1..Len(queue)
          BY <1>2, <1>3, <1>5, <3>2
        <4> HIDE DEF j
        <4> QED BY <1>5, <1>6, <2>1, <4>1
      <3> QED BY <1>5, <3>1, <3>2
    <2>3. ASSUME NEW i \in 1..Len(queue') PROVE queue'[i] = Len(delivered') + i - 1
      <3>1. n + i \in 1..Len(queue)
        BY <1>2, <1>3, <1>5
      <3>2. queue'[i] = Len(delivered) + (n + i) - 1
        BY <1>6, <2>1, <3>1
      <3> QED BY <1>3, <1>5, <3>2
    <2>4. offered' = Len(delivered') + Len(queue')
      BY <1>2, <1>3, <1>5, <2>1
    <2> QED BY <2>2, <2>3, <2>4 DEF StreamInv
  <1>10. BlockInv'
    <2>1. Len(block') <= Len(delivered') /\ Len(delivered') - Len(block') = Len(delivered)
      BY <1>3, <1>5
    <2>2. \A i \in 1..Len(block') : block'[i] = delivered'[Len(delivered) + i]
      BY <1>5, <1>6
    <2> QED BY <2>1, <2>2 DEF BlockInv, RunAt
  <1>11. RecordingInv'
    <2> SUFFICES ASSUME recording.active PROVE RecordingInv'
      BY <1>1 DEF RecordingInv
    <2> DEFINE samples == recording.samples
    <2>1. Captured = Len(delivered) /\ Captured' = Len(delivered)
      BY <1>1, <1>3, <1>4, <1>5 DEF Captured
    <2>2. Len(samples) + recording.wanted = recording.total
      BY <1>0 DEF RecordingInv
    <2>3. PICK k \in 0..(Len(delivered) - Len(samples)) :
            /\ RunAt(samples, delivered, k)
            /\ recording.wanted > 0 => k + Len(samples) = Len(delivered)
      BY <1>0, <2>1 DEF RecordingInv
    <2>4. Len(samples) \in Nat
      BY <1>0, LenProperties DEF TypeOK
    <2>5. ASSUME NEW i \in 1..Len(samples) PROVE samples[i] = delivered'[k + i]
      <3>1. k + i \in 1..Len(delivered)
        BY <1>5, <2>3, <2>4
      <3> QED BY <1>6, <2>3, <3>1 DEF RunAt
    <2>6. RunAt(samples, delivered', k)
      BY <2>5 DEF RunAt
    <2> QED BY <1>1, <2>1, <2>2, <2>3, <2>6 DEF RecordingInv, RunAt
  <1>12. RequestInv' /\ ResetIsNotLost' /\ WindowIsFresh'
    BY <1>0, <1>1, <1>4 DEF RequestInv, ResetIsNotLost, WindowIsFresh
  <1>13. HandedIsComplete'
    <2> SUFFICES ASSUME NEW r \in handed
                 PROVE  Len(r.samples) = r.asked /\ IsRunOf(r.samples, delivered')
      BY <1>1 DEF HandedIsComplete
    <2>1. r.samples \in Seq(Sample)
      BY <1>0 DEF HistoryInv
    <2>2. delivered \in Seq(Sample) /\ Len(delivered) <= Len(delivered')
      BY <1>0, <1>3, <1>5 DEF TypeOK, Sample
    <2>3. Len(r.samples) = r.asked /\ IsRunOf(r.samples, delivered)
      BY <1>0 DEF HandedIsComplete
    <2> QED BY <1>5, <1>6, <2>1, <2>2, <2>3, RunStays
  <1>14. GapsAreStamped'
    <2>1. snapshot.seen \in 0..Len(delivered)
      BY <1>0 DEF HistoryInv
    <2>2. Missing(snapshot.seen)' = Missing(snapshot.seen)
      BY <1>1, <1>5, <1>6, <2>1 DEF Missing
    <2> QED BY <1>0, <1>1, <2>2 DEF GapsAreStamped
  <1> QED BY <1>7, <1>8, <1>9, <1>10, <1>11, <1>12, <1>13, <1>14 DEF IInv

(* What the worker drained goes to a recording that wants it, and no more   *)
(* of it than it wants.                                                     *)
LEMMA CaptureKeeps ==
  ASSUME IInv, Capture
  PROVE  IInv'
  <1>0. /\ TypeOK /\ HistoryInv /\ StreamInv /\ BlockInv /\ RecordingInv
        /\ RequestInv
        /\ HandedIsComplete /\ GapsAreStamped /\ ResetIsNotLost /\ WindowIsFresh
    BY DEF IInv
  <1>1. /\ UNCHANGED <<transfer, queue, delivered, offered, overruns, stop,
                       resetAverage, appliedDelay, estimateDelay, block, filled,
                       averageFilled, averageFrames, averageFrom, finderFilled,
                       windowFrom, sequence, snapshot, published, owner, calls,
                       resetAt, askedAt, handed>>
        /\ worker = "capture" /\ worker' \in {"estimate", "analyse"}
    BY DEF Capture, ringVars, analysisVars, finderVars, outputVars, callVars
  <1>2. /\ recording \in [samples : Seq(Sample), wanted : Nat, total : Nat, active : BOOLEAN]
        /\ block \in Seq(Sample) /\ delivered \in Seq(Sample)
        /\ Len(block) \in Nat /\ Len(delivered) \in Nat /\ Len(recording.samples) \in Nat
    <2>1. /\ recording \in [samples : Seq(Sample), wanted : Nat, total : Nat, active : BOOLEAN]
          /\ block \in Seq(Sample) /\ delivered \in Seq(Sample)
      BY <1>0 DEF TypeOK, Sample
    <2>2. recording.samples \in Seq(Sample)
      BY <2>1
    <2> QED BY <2>1, <2>2, LenProperties
  <1>3. /\ StreamInv' /\ BlockInv' /\ HandedIsComplete' /\ GapsAreStamped'
        /\ HistoryInv'
    BY <1>0, <1>1 DEF StreamInv, BlockInv, RunAt, HandedIsComplete, IsRunOf,
                      GapsAreStamped, Missing, HistoryInv
  <1>4. RequestInv' /\ ResetIsNotLost' /\ WindowIsFresh'
    BY <1>0, <1>1 DEF RequestInv, ResetIsNotLost, WindowIsFresh
  <1>5. CASE ~(recording.active /\ recording.wanted > 0)
    <2>1. UNCHANGED recording
      BY <1>5 DEF Capture
    <2>2. TypeOK'
      BY <1>0, <1>1, <2>1 DEF TypeOK
    <2>3. RecordingInv'
      <3> SUFFICES ASSUME recording.active PROVE RecordingInv'
        BY <2>1 DEF RecordingInv
      <3>1. recording.wanted = 0
        BY <1>2, <1>5
      <3>2. Captured' = Len(delivered) /\ Captured = Len(delivered) - Len(block)
        BY <1>1 DEF Captured
      <3>3. PICK k \in 0..(Captured - Len(recording.samples)) :
              RunAt(recording.samples, delivered, k)
        BY <1>0 DEF RecordingInv
      <3>4. k \in 0..(Len(delivered) - Len(recording.samples))
        BY <1>2, <3>2, <3>3
      <3>5. Len(recording.samples) + recording.wanted = recording.total
        BY <1>0 DEF RecordingInv
      <3>6. RunAt(recording.samples, delivered, k)'
        BY <1>1, <2>1, <3>3 DEF RunAt
      <3>7. ~(recording'.wanted > 0)
        BY <2>1, <3>1
      <3> QED BY <1>1, <2>1, <3>2, <3>4, <3>5, <3>6, <3>7 DEF RecordingInv
    <2> QED BY <1>3, <1>4, <2>2, <2>3 DEF IInv
  <1>6. CASE recording.active /\ recording.wanted > 0
    <2> DEFINE samples == recording.samples
               wanted == recording.wanted
               n == Lesser(Len(block), wanted)
               taken == SubSeq(block, 1, n)
    <2>1. n \in 0..Len(block) /\ n \in Nat /\ n <= wanted /\ wanted \in Nat
          /\ (n < wanted => n = Len(block))
      BY <1>2 DEF Lesser
    <2>2. recording' = [recording EXCEPT !.samples = samples \o Taken(wanted),
                                         !.wanted = wanted - Len(Taken(wanted))]
      BY <1>6 DEF Capture
    <2>3. Taken(wanted) = taken
      BY DEF Taken
    <2> HIDE DEF n
    <2>4. taken \in Seq(Sample) /\ Len(taken) = n
      BY <1>2, <2>1, Split
    <2>5. \A i \in 1..n : taken[i] = block[i]
      BY <1>2, <2>1, Split
    <2> HIDE DEF taken
    <2>6. /\ samples \o taken \in Seq(Sample)
          /\ Len(samples \o taken) = Len(samples) + n
      <3>1. samples \in Seq(Sample)
        BY <1>2
      <3>2. samples \o taken \in Seq(Sample)
        BY <2>4, <3>1, Longer
      <3>3. Len(samples \o taken) = Len(samples) + Len(taken)
        BY <2>4, <3>1, Longer
      <3> QED BY <2>4, <3>2, <3>3, Zenon
    <2>7. \A i \in 1..Len(samples) : (samples \o taken)[i] = samples[i]
      <3>1. samples \in Seq(Sample)
        BY <1>2
      <3> QED BY <2>4, <3>1, Longer
    <2>8. \A i \in 1..n : (samples \o taken)[Len(samples) + i] = block[i]
      <3>1. samples \in Seq(Sample)
        BY <1>2
      <3>2. \A i \in 1..Len(taken) : (samples \o taken)[Len(samples) + i] = taken[i]
        BY <2>4, <3>1, Longer
      <3> QED BY <2>4, <2>5, <3>2, Zenon
    <2> DEFINE longer == samples \o taken
    <2>9. recording' = [samples |-> longer, wanted |-> wanted - n,
                        total |-> recording.total, active |-> TRUE]
      BY <1>2, <1>6, <2>2, <2>3, <2>4
    <2> HIDE DEF longer
    <2>10. longer \in Seq(Sample) /\ Len(longer) = Len(samples) + n
           /\ (\A i \in 1..Len(samples) : longer[i] = samples[i])
           /\ (\A i \in 1..n : longer[Len(samples) + i] = block[i])
      BY <2>6, <2>7, <2>8, Zenon DEF longer
    <2>11. recording' \in [samples : Seq(Sample), wanted : Nat, total : Nat, active : BOOLEAN]
      BY <1>2, <2>1, <2>9, <2>10
    <2>12. TypeOK'
      BY <1>0, <1>1, <2>11 DEF TypeOK, Sample
    <2>13. Captured = Len(delivered) - Len(block) /\ Captured' = Len(delivered)
      BY <1>1 DEF Captured
    <2>14. PICK k \in 0..(Captured - Len(samples)) :
             RunAt(samples, delivered, k) /\ k + Len(samples) = Captured
      BY <1>0, <1>6 DEF RecordingInv
    <2>20. /\ Len(samples) \in Nat /\ Len(block) \in Nat /\ Len(delivered) \in Nat
           /\ k \in Nat /\ k + Len(samples) = Len(delivered) - Len(block)
      BY <1>2, <2>13, <2>14
    <2> HIDE DEF samples, wanted
    <2>15. ASSUME NEW i \in 1..Len(longer) PROVE longer[i] = delivered[k + i]
      <3>1. CASE i <= Len(samples)
        BY <2>10, <2>14, <2>20, <3>1 DEF RunAt
      <3>2. CASE i > Len(samples)
        <4> DEFINE j == i - Len(samples)
        <4>1. j \in 1..n /\ i = Len(samples) + j /\ j \in 1..Len(block)
          BY <2>1, <2>10, <2>20, <3>2
        <4> HIDE DEF j
        <4>2. block[j] = delivered[Len(delivered) - Len(block) + j]
          BY <1>0, <4>1 DEF BlockInv, RunAt
        <4>3. Len(delivered) - Len(block) + j = k + i
          BY <2>20, <4>1
        <4>4. longer[Len(samples) + j] = block[j]
          BY <2>10, <4>1
        <4> QED BY <4>1, <4>2, <4>3, <4>4
      <3> QED BY <2>10, <2>20, <3>1, <3>2
    <2>16. k \in 0..(Len(delivered) - Len(longer))
           /\ (wanted - n > 0 => k + Len(longer) = Len(delivered))
           /\ Len(longer) + (wanted - n) = recording.total
      <3>1. Len(samples) + wanted = recording.total
        BY <1>0, <1>6 DEF RecordingInv, samples, wanted
      <3>2. Len(longer) = Len(samples) + n /\ n <= Len(block)
        BY <2>1, <2>10, <2>20
      <3> HIDE DEF samples, wanted
      <3>3. k + Len(longer) <= Len(delivered)
        BY <2>1, <2>20, <3>2
      <3>4. wanted - n > 0 => k + Len(longer) = Len(delivered)
        BY <2>1, <2>20, <3>2
      <3>5. Len(longer) + (wanted - n) = recording.total
        BY <2>1, <2>20, <3>1, <3>2
      <3> QED BY <2>1, <2>20, <3>2, <3>3, <3>4, <3>5
    <2>17. recording'.samples = longer /\ recording'.wanted = wanted - n
           /\ recording'.total = recording.total
      BY <2>9
    <2>18. RunAt(longer, delivered, k)
      BY <2>15 DEF RunAt
    <2>19. RecordingInv'
      <3>1. RunAt(recording'.samples, delivered', k)
        BY <1>1, <2>17, <2>18
      <3> QED BY <1>1, <2>13, <2>16, <2>17, <3>1 DEF RecordingInv
    <2> QED BY <1>3, <1>4, <2>12, <2>19 DEF IInv
  <1> QED BY <1>5, <1>6

--------------------------------------------------------------------------------
(* The other steps of the worker. *)
LEMMA CheckStopKeeps ==
  ASSUME IInv, CheckStop
  PROVE  IInv'
  <1>1. /\ UNCHANGED <<ringVars, stop, resetAverage, appliedDelay, estimateDelay,
                       recording, block, filled, averageFilled, averageFrames,
                       averageFrom, finderFilled, windowFrom, sequence, snapshot,
                       published, owner, calls, resetAt, askedAt, handed>>
        /\ worker = "check" /\ worker' \in {"done", "reset"}
    BY DEF CheckStop, analysisVars, finderVars, outputVars, callVars
  <1>2. StreamInv' /\ BlockInv' /\ RecordingInv' /\ HandedIsComplete' /\ GapsAreStamped'
    BY <1>1, SamplesStay, StampStays
  <1>3. TypeOK' /\ HistoryInv' /\ RequestInv' /\ ResetIsNotLost' /\ WindowIsFresh'
    BY <1>1 DEF IInv, ringVars, TypeOK, HistoryInv, RequestInv, ResetIsNotLost,
                WindowIsFresh
  <1> QED BY <1>2, <1>3 DEF IInv

(* A reset taken starts the average where the stream is, which is no earlier*)
(* than where it was when the reset was asked for.                          *)
LEMMA TakeResetKeeps ==
  ASSUME IInv, TakeReset
  PROVE  IInv'
  <1>1. /\ UNCHANGED <<ringVars, stop, appliedDelay, estimateDelay,
                       recording, block, filled, finderFilled, windowFrom, sequence,
                       snapshot, published, owner, calls, resetAt, askedAt, handed>>
        /\ worker = "reset" /\ worker' = "drain" /\ resetAverage' = FALSE
    BY DEF TakeReset, finderVars, outputVars, callVars
  <1>2. StreamInv' /\ BlockInv' /\ RecordingInv' /\ HandedIsComplete' /\ GapsAreStamped'
    BY <1>1, SamplesStay, StampStays
  <1>3. /\ resetAverage => averageFilled' = 0 /\ averageFrom' = Len(delivered)
        /\ ~resetAverage => UNCHANGED <<averageFilled, averageFrom>>
    BY DEF TakeReset, Restarts
  <1>4. Len(delivered) \in Nat
    BY LenProperties DEF IInv, TypeOK
  <1>5. averageFilled' \in 0..FftSize
    BY <1>3, EngineAssumption DEF IInv, TypeOK
  <1>6. TypeOK'
    BY <1>1, <1>5 DEF IInv, TypeOK, ringVars
  <1>7. averageFrom' \in Nat
    BY <1>3, <1>4 DEF IInv, HistoryInv
  <1>8. HistoryInv'
    BY <1>1, <1>7 DEF IInv, HistoryInv, ringVars
  <1>9. ResetIsNotLost'
    BY <1>1, <1>3, <1>4 DEF IInv, ResetIsNotLost, HistoryInv
  <1>10. RequestInv' /\ WindowIsFresh'
    BY <1>1 DEF IInv, RequestInv, WindowIsFresh
  <1> QED BY <1>2, <1>6, <1>8, <1>9, <1>10 DEF IInv

LEMMA DrainKeeps ==
  ASSUME IInv, Drain
  PROVE  IInv'
  <1>1. CASE Len(queue) # 0
    BY <1>1, DrainSomeKeeps
  <1>2. CASE Len(queue) = 0
    <2>1. Lesser(DrainFrames, Len(queue)) = 0
      BY <1>2, EngineAssumption DEF Lesser
    <2>2. /\ UNCHANGED <<ringVars, stop, resetAverage, appliedDelay, estimateDelay,
                         recording, block, filled, averageFilled, averageFrames,
                         averageFrom, finderFilled, windowFrom, sequence, snapshot,
                         published, owner, calls, resetAt, askedAt, handed>>
          /\ worker = "drain" /\ worker' = "check"
      BY <2>1 DEF Drain, analysisVars, finderVars, outputVars, callVars
    <2>3. StreamInv' /\ BlockInv' /\ RecordingInv' /\ HandedIsComplete' /\ GapsAreStamped'
      BY <2>2, SamplesStay, StampStays
    <2>4. TypeOK' /\ HistoryInv' /\ RequestInv' /\ ResetIsNotLost' /\ WindowIsFresh'
      BY <2>2 DEF IInv, ringVars, TypeOK, HistoryInv, RequestInv, ResetIsNotLost,
                  WindowIsFresh
    <2> QED BY <2>3, <2>4 DEF IInv
  <1> QED BY <1>1, <1>2

(* A window is begun with the block in hand, which reaches back no further  *)
(* than one pass.                                                           *)
LEMMA GatherWindowKeeps ==
  ASSUME IInv, GatherWindow
  PROVE  IInv'
  <1>1. /\ UNCHANGED <<ringVars, stop, resetAverage, appliedDelay, estimateDelay,
                       recording, block, filled, averageFilled, averageFrames,
                       averageFrom, sequence, snapshot,
                       published, owner, calls, resetAt, askedAt, handed>>
        /\ worker = "estimate" /\ worker' \in {"find", "analyse"}
    BY DEF GatherWindow, analysisVars, outputVars, callVars
  <1>2. StreamInv' /\ BlockInv' /\ RecordingInv' /\ HandedIsComplete' /\ GapsAreStamped'
    BY <1>1, SamplesStay, StampStays
  <1>3. /\ Len(block) \in Nat /\ Len(delivered) \in Nat /\ Len(block) <= Len(delivered)
        /\ Len(block) <= DrainFrames /\ DrainFrames \in Nat
        /\ FinderSize \in Nat \ {0} /\ finderFilled \in Nat /\ finderFilled < FinderSize
        /\ askedAt \in Nat /\ askedAt <= Len(delivered) /\ windowFrom \in Nat
    BY EngineAssumption, LenProperties DEF IInv, TypeOK, BlockInv, RequestInv, HistoryInv
  <1>4. CASE ~estimateDelay
    <2>1. finderFilled' = 0 /\ worker' = "analyse" /\ UNCHANGED windowFrom
      BY <1>4 DEF GatherWindow
    <2>2. TypeOK' /\ HistoryInv' /\ RequestInv'
      BY <1>1, <1>3, <2>1 DEF IInv, ringVars, TypeOK, HistoryInv, RequestInv
    <2>3. ResetIsNotLost' /\ WindowIsFresh'
      BY <1>1, <2>1 DEF IInv, ResetIsNotLost, WindowIsFresh
    <2> QED BY <1>2, <2>2, <2>3 DEF IInv
  <1>5. CASE estimateDelay
    <2> DEFINE take == Lesser(FinderSize - finderFilled, Len(block))
    <2>1. /\ take \in Nat /\ finderFilled + take <= FinderSize
      BY <1>3 DEF Lesser
    <2>2. /\ finderFilled' = FilledNext(take)
          /\ windowFrom' = IF finderFilled = 0 THEN Len(delivered) - Len(block)
                                               ELSE windowFrom
          /\ worker' = IF finderFilled + take = FinderSize THEN "find" ELSE "analyse"
      BY <1>5 DEF GatherWindow
    <2> HIDE DEF take
    <2>3. /\ finderFilled' \in Nat /\ finderFilled' < FinderSize
          /\ worker' = "find" => finderFilled' = 0
      BY <1>3, <2>1, <2>2 DEF FilledNext
    <2>4. windowFrom' \in Nat
      BY <1>3, <2>2
    <2>5. finderFilled > 0 => windowFrom + DrainFrames >= askedAt
      BY DEF IInv, WindowIsFresh
    <2>6. windowFrom' + DrainFrames >= askedAt
      BY <1>3, <2>2, <2>5
    <2>7. TypeOK'
      <3>1. finderFilled' \in 0..FinderSize
        BY <1>3, <2>3
      <3> QED BY <1>1, <3>1 DEF IInv, ringVars, TypeOK
    <2>8. HistoryInv'
      BY <1>1, <2>4 DEF IInv, ringVars, HistoryInv
    <2>9. RequestInv' /\ WindowIsFresh' /\ ResetIsNotLost'
      BY <1>1, <1>5, <2>3, <2>6 DEF IInv, RequestInv, WindowIsFresh, ResetIsNotLost
    <2> QED BY <1>2, <2>7, <2>8, <2>9 DEF IInv
  <1> QED BY <1>4, <1>5

LEMMA FindKeeps ==
  ASSUME IInv, FindSilence \/ FindDelay \/ ClearRequest
  PROVE  IInv'
  <1>1. /\ UNCHANGED <<ringVars, stop, resetAverage, recording, block, filled,
                       averageFilled, averageFrames, averageFrom, finderFilled,
                       windowFrom, sequence, snapshot, published, owner, calls,
                       resetAt, askedAt, handed>>
        /\ worker \in {"find", "clear"} /\ worker' \in {"analyse", "clear"}
        /\ worker' = "clear" => UNCHANGED estimateDelay
        /\ estimateDelay' \in {estimateDelay, FALSE}
    BY DEF FindSilence, FindDelay, ClearRequest, analysisVars, finderVars, outputVars,
           callVars
  <1>2. StreamInv' /\ BlockInv' /\ RecordingInv' /\ HandedIsComplete' /\ GapsAreStamped'
    BY <1>1, SamplesStay, StampStays
  <1>3. appliedDelay' \in Nat
    <2>1. CASE FindDelay
      <3>1. PICK estimate \in Estimates : appliedDelay' = Capped(estimate)
        BY <2>1 DEF FindDelay
      <3> QED BY <3>1, EngineAssumption DEF Capped, Lesser, Greater
    <2>2. CASE FindSilence \/ ClearRequest
      BY <2>2 DEF FindSilence, ClearRequest, IInv, TypeOK
    <2> QED BY <2>1, <2>2
  <1>4. TypeOK'
    BY <1>1, <1>3 DEF IInv, ringVars, TypeOK
  <1>5. HistoryInv' /\ ResetIsNotLost'
    BY <1>1 DEF IInv, ringVars, HistoryInv, ResetIsNotLost
  <1>6. RequestInv' /\ WindowIsFresh'
    BY <1>1 DEF IInv, RequestInv, WindowIsFresh
  <1> QED BY <1>2, <1>4, <1>5, <1>6 DEF IInv

LEMMA AnalyseKeeps ==
  ASSUME IInv, Analyse
  PROVE  IInv'
  <1>1. /\ UNCHANGED <<ringVars, stop, resetAverage, appliedDelay, estimateDelay,
                       recording, block, averageFrom, finderFilled, windowFrom,
                       snapshot, published, owner, calls, resetAt, askedAt, handed>>
        /\ worker = "analyse" /\ worker' \in {"publish", "check"}
        /\ sequence' \in {sequence, sequence + 1}
        /\ filled' = Kept(filled, Len(block))
        /\ averageFilled' = Kept(averageFilled, Len(block))
    BY DEF Analyse, finderVars, callVars
  <1>2. StreamInv' /\ BlockInv' /\ RecordingInv' /\ HandedIsComplete' /\ GapsAreStamped'
    BY <1>1, SamplesStay, StampStays
  <1>3. filled' \in 0..FftSize /\ averageFilled' \in 0..FftSize
    <2>1. Len(block) \in Nat /\ filled \in 0..FftSize /\ averageFilled \in 0..FftSize
      BY LenProperties DEF IInv, TypeOK
    <2> QED BY <1>1, <2>1, KeptIsPartial
  <1>4. TypeOK'
    BY <1>1, <1>3 DEF IInv, ringVars, TypeOK
  <1>5. HistoryInv' /\ RequestInv' /\ ResetIsNotLost' /\ WindowIsFresh'
    BY <1>1 DEF IInv, ringVars, HistoryInv, RequestInv, ResetIsNotLost, WindowIsFresh
  <1> QED BY <1>2, <1>4, <1>5 DEF IInv

(* A frame published carries the count of now, and when that is zero        *)
(* nothing is missing.                                                      *)
LEMMA PublishKeeps ==
  ASSUME IInv, Publish
  PROVE  IInv'
  <1>1. /\ UNCHANGED <<ringVars, stop, resetAverage, appliedDelay, estimateDelay,
                       recording, block, filled, averageFilled, averageFrames,
                       averageFrom, finderFilled, windowFrom, sequence,
                       published, owner, calls, resetAt, askedAt, handed>>
        /\ worker = "publish" /\ worker' = "count"
        /\ snapshot'.seen = Len(delivered) /\ snapshot'.overruns = overruns
    BY DEF Publish, Frame, analysisVars, finderVars, outputVars, callVars
  <1>2. StreamInv' /\ BlockInv' /\ RecordingInv' /\ HandedIsComplete'
    BY <1>1, SamplesStay
  <1>3. Len(delivered) \in Nat /\ overruns \in Nat
    BY LenProperties DEF IInv, TypeOK
  <1>4. TypeOK' /\ HistoryInv'
    BY <1>1, <1>3 DEF IInv, ringVars, TypeOK, HistoryInv
  <1>5. GapsAreStamped'
    <2>1. overruns = 0 => Missing(Len(delivered)) = 0
      BY <1>3 DEF IInv, StreamInv, Missing
    <2>2. Missing(snapshot.seen)' = Missing(Len(delivered))
      BY <1>1 DEF Missing, ringVars
    <2> QED BY <1>1, <1>3, <2>1, <2>2 DEF GapsAreStamped
  <1>6. RequestInv' /\ ResetIsNotLost' /\ WindowIsFresh'
    BY <1>1 DEF IInv, RequestInv, ResetIsNotLost, WindowIsFresh
  <1> QED BY <1>2, <1>4, <1>5, <1>6 DEF IInv

LEMMA CountPublishedKeeps ==
  ASSUME IInv, CountPublished
  PROVE  IInv'
  <1>1. /\ UNCHANGED <<ringVars, stop, resetAverage, appliedDelay, estimateDelay,
                       recording, block, filled, averageFilled, averageFrames,
                       averageFrom, finderFilled, windowFrom, sequence, snapshot,
                       owner, calls, resetAt, askedAt, handed>>
        /\ worker = "count" /\ worker' = "check" /\ published' = sequence
    BY DEF CountPublished, analysisVars, finderVars, callVars
  <1>2. StreamInv' /\ BlockInv' /\ RecordingInv' /\ HandedIsComplete' /\ GapsAreStamped'
    BY <1>1, SamplesStay, StampStays
  <1>3. TypeOK' /\ HistoryInv' /\ RequestInv' /\ ResetIsNotLost' /\ WindowIsFresh'
    BY <1>1 DEF IInv, ringVars, TypeOK, HistoryInv, RequestInv, ResetIsNotLost,
                WindowIsFresh
  <1> QED BY <1>2, <1>3 DEF IInv

--------------------------------------------------------------------------------
(* The owner's calls. *)
LEMMA RecordingCallKeeps ==
  ASSUME IInv, CancelRecording \/ \E n \in Lengths : BeginRecording(n)
  PROVE  IInv'
  <1>1. /\ UNCHANGED <<ringVars, stop, resetAverage, appliedDelay, estimateDelay,
                       worker, block, filled, averageFilled, averageFrames,
                       averageFrom, finderFilled, windowFrom, sequence, snapshot,
                       published, owner, resetAt, askedAt, handed>>
    BY DEF CancelRecording, BeginRecording, analysisVars, finderVars, outputVars
  <1>2. StreamInv' /\ BlockInv' /\ HandedIsComplete' /\ GapsAreStamped'
    BY <1>1, SamplesStayForOwner, StampStays
  <1>3. <<>> \in Seq(Sample) /\ Len(<<>>) = 0
    BY EmptySeq
  <1>4. /\ recording' \in [samples : Seq(Sample), wanted : Nat, total : Nat, active : BOOLEAN]
        /\ recording'.samples = <<>> /\ recording'.wanted = recording'.total
    <2>1. CASE CancelRecording
      BY <1>3, <2>1 DEF CancelRecording, Idle
    <2>2. CASE \E n \in Lengths : BeginRecording(n)
      <3>1. PICK n \in Lengths : recording' = [samples |-> <<>>, wanted |-> n,
                                               total |-> n, active |-> TRUE]
        BY <2>2 DEF BeginRecording
      <3> QED BY <1>3, <3>1, EngineAssumption
    <2> QED BY <2>1, <2>2
  <1>5. TypeOK'
    BY <1>1, <1>4 DEF IInv, ringVars, TypeOK, Sample
  <1>6. RecordingInv'
    <2>1. Captured' \in Nat
      BY <1>1, LenProperties DEF IInv, TypeOK, BlockInv, Captured, ringVars
    <2>2. RunAt(recording'.samples, delivered', Captured')
      BY <1>3, <1>4 DEF RunAt
    <2>3. PICK c \in Nat : c = Captured'
      BY <2>1, Zenon
    <2>4. Len(recording'.samples) = 0 /\ recording'.wanted \in Nat
          /\ recording'.wanted = recording'.total
      BY <1>3, <1>4
    <2>5. /\ c \in 0..(c - Len(recording'.samples)) /\ c + Len(recording'.samples) = c
          /\ Len(recording'.samples) + recording'.wanted = recording'.total
      BY <2>4
    <2> QED BY <2>2, <2>3, <2>5, Zenon DEF RecordingInv
  <1>7. HistoryInv' /\ RequestInv' /\ ResetIsNotLost' /\ WindowIsFresh'
    BY <1>1 DEF IInv, ringVars, HistoryInv, RequestInv, ResetIsNotLost, WindowIsFresh
  <1> QED BY <1>2, <1>5, <1>6, <1>7 DEF IInv

(* A recording that wants nothing more has all that was asked for. *)
LEMMA TakeRecordingKeeps ==
  ASSUME IInv, TakeRecording
  PROVE  IInv'
  <1>1. /\ UNCHANGED <<ringVars, stop, resetAverage, appliedDelay, estimateDelay,
                       worker, block, filled, averageFilled, averageFrames,
                       averageFrom, finderFilled, windowFrom, sequence, snapshot,
                       published, owner, calls, resetAt, askedAt>>
        /\ recording.active /\ recording.wanted = 0
        /\ recording' = [recording EXCEPT !.active = FALSE, !.total = 0, !.samples = <<>>]
        /\ handed' = handed \cup {[asked |-> recording.total, samples |-> recording.samples]}
    BY DEF TakeRecording, Finished, analysisVars, finderVars, outputVars
  <1>2. /\ recording \in [samples : Seq(Sample), wanted : Nat, total : Nat, active : BOOLEAN]
        /\ delivered \in Seq(Sample)
    BY DEF IInv, TypeOK, Sample
  <1>3. StreamInv' /\ BlockInv' /\ GapsAreStamped'
    BY <1>1, SamplesStayForOwner, StampStays
  <1>4. /\ recording' \in [samples : Seq(Sample), wanted : Nat, total : Nat, active : BOOLEAN]
        /\ recording'.active = FALSE
    <2>1. <<>> \in Seq(Sample)
      BY EmptySeq
    <2> QED BY <1>1, <1>2, <2>1
  <1>5. TypeOK' /\ RecordingInv'
    BY <1>1, <1>4 DEF IInv, ringVars, TypeOK, Sample, RecordingInv
  <1>6. Len(recording.samples) = recording.total /\ IsRunOf(recording.samples, delivered)
    <2>1. recording.samples \in Seq(Sample)
      BY <1>2
    <2>2. Len(recording.samples) \in Nat /\ Len(delivered) \in Nat /\ Len(block) \in Nat
      BY <1>2, <2>1, LenProperties DEF IInv, TypeOK
    <2>3. Len(recording.samples) + recording.wanted = recording.total
      BY <1>1 DEF IInv, RecordingInv
    <2>4. PICK k \in 0..(Captured - Len(recording.samples)) :
            RunAt(recording.samples, delivered, k)
      BY <1>1 DEF IInv, RecordingInv
    <2>5. k \in 0..(Len(delivered) - Len(recording.samples))
      BY <2>2, <2>4 DEF Captured
    <2>6. IsRunOf(recording.samples, delivered)
      BY <1>2, <2>1, <2>4, <2>5, RunIs
    <2> QED BY <1>1, <2>2, <2>3, <2>6
  <1>7. HandedIsComplete'
    <2> SUFFICES ASSUME NEW r \in handed'
                 PROVE  Len(r.samples) = r.asked /\ IsRunOf(r.samples, delivered)
      BY <1>1 DEF HandedIsComplete, IsRunOf, ringVars
    <2>1. CASE r \in handed
      BY <2>1 DEF IInv, HandedIsComplete
    <2>2. CASE r = [asked |-> recording.total, samples |-> recording.samples]
      BY <1>6, <2>2
    <2> QED BY <1>1, <2>1, <2>2
  <1>8. HistoryInv'
    <2>1. \A r \in handed' : r.samples \in Seq(Sample)
      BY <1>1, <1>2 DEF IInv, HistoryInv
    <2> QED BY <1>1, <2>1 DEF IInv, ringVars, HistoryInv
  <1>9. RequestInv' /\ ResetIsNotLost' /\ WindowIsFresh'
    BY <1>1 DEF IInv, RequestInv, ResetIsNotLost, WindowIsFresh
  <1> QED BY <1>3, <1>5, <1>7, <1>8, <1>9 DEF IInv

(* A reset or an estimate asked for is asked for now. *)
LEMMA RequestCallKeeps ==
  ASSUME IInv, ResetAverage \/ EstimateReferenceDelay
               \/ \E d \in Delays : SetReferenceDelay(d)
  PROVE  IInv'
  <1>1. UNCHANGED <<ringVars, stop, recording, worker, block, filled, averageFilled,
                    averageFrames, averageFrom, finderFilled, windowFrom, sequence,
                    snapshot, published, owner, handed>>
    BY DEF ResetAverage, EstimateReferenceDelay, SetReferenceDelay, analysisVars,
           finderVars, outputVars
  <1>2. StreamInv' /\ BlockInv' /\ RecordingInv' /\ HandedIsComplete' /\ GapsAreStamped'
    BY <1>1, SamplesStayForOwner, StampStays
  <1>3. Len(delivered) \in Nat
    BY LenProperties DEF IInv, TypeOK
  <1>4. CASE ResetAverage
    <2>1. resetAverage' = TRUE /\ resetAt' = Len(delivered)
          /\ UNCHANGED <<appliedDelay, estimateDelay, askedAt>>
      BY <1>4 DEF ResetAverage
    <2>2. TypeOK' /\ HistoryInv'
      BY <1>1, <1>3, <2>1 DEF IInv, ringVars, TypeOK, HistoryInv
    <2>3. RequestInv' /\ ResetIsNotLost' /\ WindowIsFresh'
      BY <1>1, <2>1 DEF IInv, RequestInv, ResetIsNotLost, WindowIsFresh
    <2> QED BY <1>2, <2>2, <2>3 DEF IInv
  <1>5. CASE EstimateReferenceDelay
    <2>1. /\ estimateDelay' = TRUE
          /\ estimateDelay => askedAt' = askedAt
          /\ ~estimateDelay => askedAt' = Len(delivered)
          /\ UNCHANGED <<appliedDelay, resetAverage, resetAt>>
      <3>1. askedAt' = IF estimateDelay THEN askedAt ELSE Len(delivered)
        BY <1>5, Zenon DEF EstimateReferenceDelay
      <3>2. estimateDelay' = TRUE /\ UNCHANGED <<appliedDelay, resetAverage, resetAt>>
        BY <1>5, Zenon DEF EstimateReferenceDelay
      <3> QED BY <3>1, <3>2, Zenon
    <2>2. TypeOK' /\ HistoryInv'
      <3>1. askedAt' \in 0..Len(delivered)
        BY <1>3, <2>1 DEF IInv, HistoryInv
      <3>2. estimateDelay' \in BOOLEAN
        BY <2>1, Zenon
      <3>3. TypeOK'
        BY <1>1, <2>1, <3>2 DEF IInv, ringVars, TypeOK
      <3>4. HistoryInv'
        BY <1>1, <2>1, <3>1 DEF IInv, ringVars, HistoryInv
      <3> QED BY <3>3, <3>4
    <2>3. RequestInv' /\ ResetIsNotLost'
      BY <1>1, <2>1 DEF IInv, RequestInv, ResetIsNotLost
    <2>4. ~estimateDelay => ~(worker = "find" \/ finderFilled > 0)
      BY DEF IInv, RequestInv
    <2>5. WindowIsFresh'
      BY <1>1, <2>1, <2>4 DEF IInv, WindowIsFresh
    <2> QED BY <1>2, <2>2, <2>3, <2>5 DEF IInv
  <1>6. CASE \E d \in Delays : SetReferenceDelay(d)
    <2>1. appliedDelay' \in Nat
          /\ UNCHANGED <<estimateDelay, askedAt, resetAverage, resetAt>>
      BY <1>6, EngineAssumption DEF SetReferenceDelay
    <2>2. TypeOK' /\ HistoryInv'
      BY <1>1, <2>1 DEF IInv, ringVars, TypeOK, HistoryInv
    <2>3. RequestInv' /\ ResetIsNotLost' /\ WindowIsFresh'
      BY <1>1, <2>1 DEF IInv, RequestInv, ResetIsNotLost, WindowIsFresh
    <2> QED BY <1>2, <2>2, <2>3 DEF IInv
  <1> QED BY <1>4, <1>5, <1>6

LEMMA StopKeeps ==
  ASSUME IInv, Stop \/ Join
  PROVE  IInv'
  <1>1. /\ UNCHANGED <<ringVars, resetAverage, appliedDelay, estimateDelay, recording,
                       worker, block, filled, averageFilled, averageFrames, averageFrom,
                       finderFilled, windowFrom, sequence, snapshot, published, calls,
                       resetAt, askedAt, handed>>
        /\ stop' \in {stop, TRUE} /\ owner' \in {"free", "joining"}
    BY DEF Stop, Join, StopRaised, analysisVars, finderVars, outputVars
  <1>2. StreamInv' /\ BlockInv' /\ RecordingInv' /\ HandedIsComplete' /\ GapsAreStamped'
    BY <1>1, SamplesStayForOwner, StampStays
  <1>3. stop' \in BOOLEAN
    BY <1>1, Zenon DEF IInv, TypeOK
  <1>4. TypeOK'
    BY <1>1, <1>3 DEF IInv, ringVars, TypeOK
  <1>5. HistoryInv' /\ RequestInv' /\ ResetIsNotLost' /\ WindowIsFresh'
    BY <1>1 DEF IInv, ringVars, HistoryInv, RequestInv, ResetIsNotLost, WindowIsFresh
  <1> QED BY <1>2, <1>4, <1>5 DEF IInv

(* A step that changes nothing. *)
LEMMA StutterKeeps ==
  ASSUME IInv, UNCHANGED vars
  PROVE  IInv'
  <1>1. UNCHANGED <<ringVars, stop, resetAverage, appliedDelay, estimateDelay, recording,
                    worker, block, filled, averageFilled, averageFrames, averageFrom,
                    finderFilled, windowFrom, sequence, snapshot, published, owner,
                    calls, resetAt, askedAt, handed>>
    BY DEF vars, analysisVars, finderVars, outputVars, callVars
  <1>2. StreamInv' /\ BlockInv' /\ RecordingInv' /\ HandedIsComplete' /\ GapsAreStamped'
    BY <1>1, SamplesStayForOwner, StampStays
  <1>3. TypeOK' /\ HistoryInv' /\ RequestInv' /\ ResetIsNotLost' /\ WindowIsFresh'
    BY <1>1 DEF IInv, ringVars, TypeOK, HistoryInv, RequestInv, ResetIsNotLost,
                WindowIsFresh
  <1> QED BY <1>2, <1>3 DEF IInv

--------------------------------------------------------------------------------
LEMMA NextKeeps == IInv /\ [Next]_vars => IInv'
  <1> SUFFICES ASSUME IInv, [Next]_vars PROVE IInv'
    OBVIOUS
  <1>1. CASE DeviceBlock
    BY <1>1, DeviceBlockKeeps
  <1>2. CASE Worker
    <2>1. CASE CheckStop
      BY <2>1, CheckStopKeeps
    <2>2. CASE TakeReset
      BY <2>2, TakeResetKeeps
    <2>3. CASE Drain
      BY <2>3, DrainKeeps
    <2>4. CASE Capture
      BY <2>4, CaptureKeeps
    <2>5. CASE GatherWindow
      BY <2>5, GatherWindowKeeps
    <2>6. CASE FindSilence \/ FindDelay \/ ClearRequest
      BY <2>6, FindKeeps
    <2>7. CASE Analyse
      BY <2>7, AnalyseKeeps
    <2>8. CASE Publish
      BY <2>8, PublishKeeps
    <2>9. CASE CountPublished
      BY <2>9, CountPublishedKeeps
    <2> QED BY <1>2, <2>1, <2>2, <2>3, <2>4, <2>5, <2>6, <2>7, <2>8, <2>9 DEF Worker
  <1>3. CASE Owner
    <2>1. CASE CancelRecording \/ \E n \in Lengths : BeginRecording(n)
      BY <2>1, RecordingCallKeeps
    <2>2. CASE TakeRecording
      BY <2>2, TakeRecordingKeeps
    <2>3. CASE ResetAverage \/ EstimateReferenceDelay
               \/ \E d \in Delays : SetReferenceDelay(d)
      BY <2>3, RequestCallKeeps
    <2>4. CASE Stop \/ Join
      BY <2>4, StopKeeps
    <2> QED BY <1>3, <2>1, <2>2, <2>3, <2>4 DEF Owner
  <1>4. CASE UNCHANGED vars
    BY <1>4, StutterKeeps
  <1> QED BY <1>1, <1>2, <1>3, <1>4 DEF Next

(* What has been drained, passed and not been shown is in the partial frame,*)
(* on top of what the newest frame left there.                              *)
Unshown == Len(delivered) - InHand - snapshot.seen

ProgressInv ==
  /\ filled < FftSize
  /\ worker = "publish" => filled >= FftSize - Hop
  /\ worker # "publish" =>
       filled >= Unshown + (IF snapshot.seen = 0 THEN 0 ELSE FftSize - Hop)
  /\ PublicationKeepsUp

LEMMA InitProgresses == Init => ProgressInv
  <1> SUFFICES ASSUME Init PROVE ProgressInv
    OBVIOUS
  <1>1. /\ Len(delivered) = 0 /\ worker = "check" /\ filled = 0 /\ snapshot.seen = 0
        /\ InHand = 0 /\ Unshown = 0
    BY DEF Init, Ring!Init, InitialFrame, InHand, Unshown
  <1> QED BY <1>1, EngineAssumption DEF ProgressInv, PublicationKeepsUp, Unshown

(* The types and positions the argument is about. *)
LEMMA ProgressTypes ==
  ASSUME IInv
  PROVE  /\ Len(delivered) \in Nat /\ Len(block) \in Nat /\ Len(block) <= DrainFrames
         /\ filled \in 0..FftSize /\ snapshot.seen \in 0..Len(delivered) /\ InHand \in Nat
         /\ InHand <= DrainFrames
         /\ FftSize \in Nat \ {0} /\ Hop \in 1..FftSize /\ DrainFrames \in Nat
  <1>1. Len(delivered) \in Nat /\ Len(block) \in Nat /\ Len(block) <= DrainFrames
    BY LenProperties DEF IInv, TypeOK
  <1> QED BY <1>1, EngineAssumption DEF IInv, TypeOK, HistoryInv, InHand

(* A step that neither drains, analyses nor publishes. *)
LEMMA ProgressStays ==
  ASSUME ProgressInv, UNCHANGED <<delivered, filled, snapshot>>,
         (worker' = "publish") <=> (worker = "publish"), InHand' = InHand
  PROVE  ProgressInv'
  <1>1. Unshown' = Unshown
    BY DEF Unshown
  <1>2. PublicationKeepsUp'
    BY DEF ProgressInv, PublicationKeepsUp
  <1> QED BY <1>1, <1>2 DEF ProgressInv

LEMMA ProgressKeeps ==
  ASSUME IInv, IInv', ProgressInv, [Next]_vars
  PROVE  ProgressInv'
  <1>1. /\ Len(delivered) \in Nat /\ Len(block) \in Nat /\ Len(block) <= DrainFrames
        /\ filled \in 0..FftSize /\ snapshot.seen \in 0..Len(delivered) /\ InHand \in Nat
        /\ InHand <= DrainFrames
        /\ FftSize \in Nat \ {0} /\ Hop \in 1..FftSize /\ DrainFrames \in Nat
    BY ProgressTypes
  <1>2. InHand' \in Nat /\ InHand' <= DrainFrames
    <2>1. Len(block') \in Nat /\ Len(block') <= DrainFrames
      BY LenProperties DEF IInv, TypeOK
    <2> QED BY <1>1, <2>1 DEF InHand
  <1>3. CASE DeviceBlock \/ Owner \/ UNCHANGED vars
    <2>1. UNCHANGED <<delivered, filled, snapshot, worker, block>>
      BY <1>3 DEF DeviceBlock, Ring!Accept, Ring!Drop, Owner, BeginRecording, TakeRecording,
                  CancelRecording, ResetAverage, SetReferenceDelay, EstimateReferenceDelay,
                  Stop, Join, ringVars, analysisVars, outputVars, vars
    <2> QED BY <2>1, ProgressStays DEF InHand
  <1>4. CASE CheckStop \/ TakeReset \/ Capture \/ GatherWindow \/ FindSilence \/ FindDelay
             \/ ClearRequest \/ CountPublished
    <2>1. /\ UNCHANGED <<delivered, filled, snapshot, block>>
          /\ \/ worker = "check" /\ worker' \in {"done", "reset"}
             \/ worker = "reset" /\ worker' = "drain"
             \/ worker = "capture" /\ worker' \in {"estimate", "analyse"}
             \/ worker = "estimate" /\ worker' \in {"find", "analyse"}
             \/ worker \in {"find", "clear"} /\ worker' \in {"clear", "analyse"}
             \/ worker = "count" /\ worker' = "check"
      BY <1>4 DEF CheckStop, TakeReset, Capture, GatherWindow, FindSilence, FindDelay,
                  ClearRequest, CountPublished, ringVars, analysisVars, outputVars
    <2>2. InHand' = InHand /\ ((worker' = "publish") <=> (worker = "publish"))
      BY <2>1 DEF InHand
    <2> QED BY <2>1, <2>2, ProgressStays
  <1>5. CASE Drain
    <2>1. UNCHANGED <<filled, snapshot>> /\ worker = "drain" /\ InHand = 0
      BY <1>5 DEF Drain, analysisVars, outputVars, InHand
    <2>2. CASE Len(queue) = 0
      <3>1. UNCHANGED delivered /\ worker' = "check"
        BY <1>5, <2>2, EngineAssumption DEF Drain, Lesser, ringVars
      <3> QED BY <2>1, <3>1, ProgressStays DEF InHand
    <2>3. CASE Len(queue) # 0
      <3>1. Len(delivered') = Len(delivered) + Len(block') /\ worker' = "capture"
        BY <1>5, <2>3, DrainedMore
      <3>2. InHand' = Len(block') /\ Len(block') \in Nat
        BY <1>2, <3>1 DEF InHand
      <3>3. Unshown' = Unshown
        BY <1>1, <2>1, <3>1, <3>2 DEF Unshown
      <3>4. PublicationKeepsUp'
        BY <1>1, <1>2, <2>1, <3>1, <3>2 DEF ProgressInv, PublicationKeepsUp
      <3> QED BY <2>1, <3>1, <3>3, <3>4 DEF ProgressInv
    <2> QED BY <2>2, <2>3
  <1>6. CASE Analyse
    <2>1. /\ UNCHANGED <<delivered, snapshot, block>>
          /\ worker = "analyse" /\ InHand = Len(block)
          /\ filled' = Kept(filled, Len(block))
          /\ worker' = IF Produced(filled, Len(block)) > 0 THEN "publish" ELSE "check"
      BY <1>6 DEF Analyse, ringVars, InHand
    <2>2. /\ Produced(filled, Len(block)) \in Nat
          /\ filled' \in 0..FftSize /\ filled' < FftSize
          /\ Produced(filled, Len(block)) = 0 => filled' = filled + Len(block)
          /\ Produced(filled, Len(block)) > 0 => filled' >= FftSize - Hop
      BY <1>1, <2>1, KeptIsPartial
    <2>3. CASE Produced(filled, Len(block)) > 0
      <3>1. worker' = "publish" /\ InHand' = InHand
        BY <2>1, <2>3 DEF InHand
      <3>2. PublicationKeepsUp'
        BY <2>1, <3>1 DEF ProgressInv, PublicationKeepsUp
      <3> QED BY <2>2, <2>3, <3>1, <3>2 DEF ProgressInv
    <2>4. CASE Produced(filled, Len(block)) = 0
      <3>1. worker' = "check" /\ InHand' = 0 /\ filled' = filled + Len(block)
        BY <2>1, <2>2, <2>4 DEF InHand
      <3>2. Unshown' = Unshown + Len(block)
        <4>1. Unshown' = Len(delivered) - 0 - snapshot.seen
          BY <2>1, <3>1, Zenon DEF Unshown
        <4>2. Unshown = Len(delivered) - Len(block) - snapshot.seen
          BY <2>1, Zenon DEF Unshown
        <4> QED BY <1>1, <4>1, <4>2
      <3>3. filled' >= Unshown' + (IF snapshot.seen = 0 THEN 0 ELSE FftSize - Hop)
        <4>1. filled >= Unshown + (IF snapshot.seen = 0 THEN 0 ELSE FftSize - Hop)
          BY <2>1 DEF ProgressInv
        <4>2. filled \in Int /\ Unshown \in Int
          BY <1>1 DEF Unshown
        <4> QED BY <1>1, <3>1, <3>2, <4>1, <4>2
      <3>4. Unshown' < (IF snapshot.seen = 0 THEN FftSize ELSE Hop)
        BY <1>1, <2>2, <3>2, <3>3 DEF Unshown
      <3>5. PublicationKeepsUp'
        BY <1>2, <2>1, <3>4 DEF PublicationKeepsUp, Unshown
      <3> QED BY <2>1, <2>2, <3>1, <3>3, <3>5 DEF ProgressInv
    <2> QED BY <2>2, <2>3, <2>4
  <1>7. CASE Publish
    <2>1. /\ UNCHANGED <<delivered, filled>> /\ worker = "publish" /\ worker' = "count"
          /\ snapshot'.seen = Len(delivered) /\ InHand' = 0
      BY <1>7 DEF Publish, Frame, ringVars, analysisVars, InHand
    <2>2. Unshown' = 0
      BY <1>1, <2>1 DEF Unshown
    <2>3. PublicationKeepsUp'
      BY <1>1, <1>2, <2>1 DEF PublicationKeepsUp
    <2> QED BY <1>1, <2>1, <2>2, <2>3 DEF ProgressInv
  <1> QED BY <1>3, <1>4, <1>5, <1>6, <1>7 DEF Next, Worker

(* The invariant holds at every moment of every run of the engine. *)
THEOREM EngineInvariant == Spec => []IInv
  <1>1. Init => IInv
    BY InitKeeps
  <1>2. IInv /\ [Next]_vars => IInv'
    BY NextKeeps
  <1> QED BY <1>1, <1>2, PTL DEF Spec

(* Every variable of the engine stays within its type: frames partly filled *)
(* stay below a frame, passes below kDrainFrames.                           *)
THEOREM TypeCorrect == Spec => []TypeOK
  <1>1. IInv => TypeOK
    BY DEF IInv
  <1> QED BY <1>1, EngineInvariant, PTL

(* A recording take_recording hands over is one unbroken run of what was    *)
(* drained, of the length asked for, whatever the owner called in between.  *)
THEOREM RecordingsAreComplete == Spec => []HandedIsComplete
  <1>1. IInv => HandedIsComplete
    BY DEF IInv
  <1> QED BY <1>1, EngineInvariant, PTL

(* A frame computed past dropped audio always carries a count that is not   *)
(* zero.                                                                    *)
THEOREM GapsAlwaysShow == Spec => []GapsAreStamped
  <1>1. IInv => GapsAreStamped
    BY DEF IInv
  <1> QED BY <1>1, EngineInvariant, PTL

(* Once the reset flag is down the long-term average holds nothing drained  *)
(* before the last reset_average.                                           *)
THEOREM ResetsTakeEffect == Spec => []ResetIsNotLost
  <1>1. IInv => ResetIsNotLost
    BY DEF IInv
  <1> QED BY <1>1, EngineInvariant, PTL

(* A delay is found in samples drained after it was asked for, but for the  *)
(* block in hand.                                                           *)
THEOREM WindowsAreFresh == Spec => []WindowIsFresh
  <1>1. IInv => WindowIsFresh
    BY DEF IInv
  <1> QED BY <1>1, EngineInvariant, PTL

(* However fast blocks come and however many, a pass is bounded, and but    *)
(* for the pass in hand less than a frame, and after the first less than a  *)
(* hop, of what was drained has not been published.                         *)
THEOREM PublicationAlwaysKeepsUp == Spec => []PublicationKeepsUp
  <1>1. Init => ProgressInv
    BY InitProgresses
  <1>2. IInv /\ IInv' /\ ProgressInv /\ [Next]_vars => ProgressInv'
    BY ProgressKeeps
  <1>3. ProgressInv => PublicationKeepsUp
    BY DEF ProgressInv
  <1> QED BY <1>1, <1>2, <1>3, EngineInvariant, PTL DEF Spec

================================================================================
