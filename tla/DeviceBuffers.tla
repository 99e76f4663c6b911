------------------------------ MODULE DeviceBuffers ------------------------------
(***************************************************************************)
(* The call the hardware makes for each block: io_proc on macOS            *)
(* (audio/coreaudio.cpp) and render_callback on iOS (audio/ios.mm).  Both  *)
(* gather the selected channels into one interleaved buffer, call the      *)
(* session's callback, and scatter what it wrote to the selected outputs.  *)
(* All buffers are allocated once and used again for every block.          *)
(*                                                                         *)
(* The device decides the shape of every list it hands over: how many      *)
(* buffers, of how many channels and samples, with memory behind them or   *)
(* not.  A sample that the device recorded is <<block, channel, frame>>,   *)
(* one that the callback wrote <<block, slot, frame>>.  A buffer for       *)
(* output arrives full of Junk, and so does memory that no channel has.    *)
(***************************************************************************)
EXTENDS SessionConfig

CONSTANTS
  Configs,             \* what the owner asks for
  Hardware,            \* lists of devices, as the backend offers them
  Grants,              \* what an iOS session may have once it is asked
  InputShapes,         \* shapes of the lists a device hands over: sequences of
  OutputShapes,        \*   [channels, samples, present]
  FrameCounts,         \* frames RemoteIO asks for
  MaxBlocks            \* bound: blocks of a run

Buffer == [channels : Nat, samples : Nat, present : BOOLEAN]

ASSUME BuffersAssumption ==
  /\ Hardware \subseteq Seq(DeviceInfo)
  /\ \A granted \in Grants : granted.inputs \in Nat
  /\ InputShapes \cup OutputShapes \subseteq Seq(Buffer)
  /\ FrameCounts \subseteq Nat /\ MaxBlocks \in Nat

VARIABLES
  backend,       \* which of the two runs
  selected,      \* input channels, in the order they are delivered
  outputs,       \* output channels
  planes,        \* iOS: RenderState::input_planes, one per hardware channel
  interleaved,   \* the gathered block
  scratch,       \* output_scratch
  heard,         \* what the callback was given, frame by frame
  recorded,      \* the list the device handed over
  returned,      \* the list the device plays
  block          \* blocks so far

openedVars == <<backend, selected, outputs>>
buffersVars == <<openedVars, planes, interleaved, scratch, heard, recorded, returned, block>>

Silence == <<>>
Junk == <<-1>>

NoList == <<>>
Smaller(a, b) == IF a <= b THEN a ELSE b
AtLeastOne(n) == IF n < 1 THEN 1 ELSE n

Fill(n, sample) == [k \in 0..n - 1 |-> sample]

BuffersInit ==
  \E config \in Configs, devices \in Hardware :
    /\ ~Refused(config, devices)
    /\ LET device == FindDevice(config.uid, devices)[1]
           stream == StreamConfig(config, device)
       IN  /\ selected = stream.input_channels /\ outputs = stream.output_channels
           /\ \/ /\ backend = "CoreAudio" /\ Opened(stream, devices, MaxBufferFrames) # <<>>
                 /\ planes = <<>>
              \/ /\ backend = "RemoteIO"
                 /\ \E granted \in Grants :
                      /\ OpenedOnIos(stream, devices, granted) # <<>>
                      /\ planes = [c \in 0..granted.inputs - 1 |-> Fill(MaxBufferFrames, Silence)]
           /\ interleaved = Fill(MaxBufferFrames * AtLeastOne(Len(selected)), Silence)
           /\ scratch = Fill(MaxBufferFrames * AtLeastOne(Len(outputs)), Silence)
    /\ heard = <<>> /\ recorded = NoList /\ returned = NoList /\ block = 0

-----------------------------------------------------------------------------
(* Buffer lists. *)

\* The channels of the buffers before one: device channels number straight
\* through the list.
Base(list, b) ==
  LET before[n \in 0..Len(list)] ==
        IF n = 0 THEN 0 ELSE before[n - 1] + list[n].channels
  IN  before[b - 1]

\* The sample that the device recorded at a place of a list.
RecordedAt(shape, b, i) ==
  LET channels == shape[b].channels
  IN  <<block + 1, Base(shape, b) + (i % channels), i \div channels>>

\* A list of a shape: one for output, and one that was recorded.
OutputList(shape) ==
  [b \in DOMAIN shape |->
     [channels |-> shape[b].channels, present |-> shape[b].present,
      samples |-> [i \in 0..shape[b].samples - 1 |-> Junk]]]

InputList(shape) ==
  [b \in DOMAIN shape |->
     [channels |-> shape[b].channels, present |-> shape[b].present,
      samples |-> [i \in 0..shape[b].samples - 1 |->
                     IF shape[b].channels > 0 THEN RecordedAt(shape, b, i) ELSE Junk]]]

Capacity(buffer) == Cardinality(DOMAIN buffer.samples)

FramesOf(buffer) == Capacity(buffer) \div AtLeastOne(buffer.channels)

FirstFrames(list) == IF list = NoList THEN 0 ELSE FramesOf(list[1])

\* find_channel walks the list to the first buffer that ends after the channel.
Reaching(list, channel) == {b \in DOMAIN list : channel < Base(list, b) + list[b].channels}

FindChannel(list, channel) ==
  CHOOSE b \in Reaching(list, channel) : \A c \in Reaching(list, channel) : b <= c

\* Where a channel's frame is read or written, when there is a buffer with
\* memory for it that reaches that far.
PlaceOf(list, channel, frame) ==
  LET b == FindChannel(list, channel)
      at == frame * AtLeastOne(list[b].channels) + (channel - Base(list, b))
  IN  IF \/ Reaching(list, channel) = {}
         \/ ~list[b].present
         \/ at >= Capacity(list[b])
      THEN <<>>
      ELSE <<b, at>>

-----------------------------------------------------------------------------
(* CoreAudio. *)

GatheredFrames(list) ==
  IF selected = <<>> THEN 0
  ELSE Smaller(FirstFrames(list), Cardinality(DOMAIN interleaved) \div Len(selected))

HeldAt(list, frame, slot) ==
  LET place == PlaceOf(list, selected[slot + 1], frame)
  IN  IF place = <<>> THEN Silence ELSE list[place[1]].samples[place[2]]

\* Mutant: a channel that is not there is passed over.
GatheredKeeping(list, frames) ==
  LET n == Len(selected)
  IN  [k \in DOMAIN interleaved |->
         IF k >= frames * n \/ GatheredFrames(list) = 0 THEN interleaved[k]
         ELSE IF PlaceOf(list, selected[(k % n) + 1], k \div n) = <<>> THEN interleaved[k]
         ELSE HeldAt(list, k \div n, k % n)]

\* gather_input, and silence where no input arrived.
Gathered(list, frames) ==
  LET n == Len(selected)
  IN  [k \in DOMAIN interleaved |->
         IF k >= frames * n THEN interleaved[k]
         ELSE IF GatheredFrames(list) = 0 THEN Silence
         ELSE HeldAt(list, k \div n, k % n)]

Zeroed(list) ==
  [b \in DOMAIN list |->
     IF list[b].present
     THEN [list[b] EXCEPT !.samples = [i \in DOMAIN list[b].samples |-> Silence]]
     ELSE list[b]]

\* Which of the samples the callback wrote for `frames` is for a place.
Landing(list, b, at, frames) ==
  LET n == Len(outputs)
  IN  {k \in 0..frames * n - 1 : PlaceOf(list, outputs[(k % n) + 1], k \div n) = <<b, at>>}

\* scatter_output and scatter, after the silence both begin with.
Scattered(list, samples, frames) ==
  [b \in DOMAIN list |-> [list[b] EXCEPT !.samples =
     [at \in DOMAIN list[b].samples |->
        IF Landing(list, b, at, frames) = {} THEN list[b].samples[at]
        ELSE samples[CHOOSE k \in Landing(list, b, at, frames) : TRUE]]]]

\* Mutant: what is not selected is left alone.
ScatterOutputAlone(list, samples, frames) == Scattered(list, samples, frames)

ScatterOutput(list, samples, frames) ==
  IF outputs = <<>> THEN list ELSE Scattered(Zeroed(list), samples, frames)

\* The callback is given the gathered frames and writes all of its output, or
\* declines and leaves the silence it was handed.
Process(gathered, frames, writes) ==
  /\ heard' = [f \in 1..frames |->
                 [s \in DOMAIN selected |-> gathered[(f - 1) * Len(selected) + s - 1]]]
  /\ scratch' = [k \in DOMAIN scratch |->
                   IF k >= frames * Len(outputs) THEN scratch[k]
                   ELSE IF writes THEN <<block', k % Len(outputs), k \div Len(outputs)>>
                   ELSE Silence]

IoProc(input, output, writes) ==
  LET asked == IF GatheredFrames(input) > 0 THEN GatheredFrames(input) ELSE FirstFrames(output)
      frames == Smaller(asked, MaxBufferFrames)
  IN  /\ recorded' = input
      /\ IF frames = 0
         THEN heard' = <<>> /\ returned' = output /\ UNCHANGED <<interleaved, scratch>>
         ELSE /\ interleaved' = Gathered(input, frames)
              /\ Process(interleaved', frames, writes)
              /\ returned' = ScatterOutput(output, scratch', frames)
      /\ UNCHANGED planes

-----------------------------------------------------------------------------
(* RemoteIO: one plane for every channel, in both directions. *)

RenderedPlanes(frames) ==
  [c \in DOMAIN planes |->
     [f \in DOMAIN planes[c] |->
        IF c < MostRenderChannels /\ f < frames THEN <<block', c, f>> ELSE planes[c][f]]]

\* A failed render leaves silence, whatever the planes hold.
RenderedBlock(frames, succeeds) ==
  LET n == Len(selected)
  IN  [k \in DOMAIN interleaved |->
         IF k >= frames * n THEN interleaved[k]
         ELSE IF succeeds /\ selected[(k % n) + 1] \in DOMAIN planes
         THEN planes'[selected[(k % n) + 1]][k \div n]
         ELSE Silence]

RenderCallback(frames, output, succeeds, writes) ==
  IF frames = 0 \/ frames > MaxBufferFrames
  THEN /\ recorded' = NoList /\ heard' = <<>> /\ returned' = Zeroed(output)
       /\ UNCHANGED <<planes, interleaved, scratch>>
  ELSE /\ planes' = IF succeeds THEN RenderedPlanes(frames) ELSE planes
       /\ recorded' = IF succeeds
                      THEN [c \in 1..Cardinality(DOMAIN planes) |->
                              [channels |-> 1, present |-> TRUE, samples |-> planes'[c - 1]]]
                      ELSE NoList
       /\ interleaved' = RenderedBlock(frames, succeeds)
       /\ Process(interleaved', frames, writes)
       /\ returned' = Scattered(Zeroed(output), scratch', frames)

-----------------------------------------------------------------------------

\* external: the device calls, with lists of any of the shapes.
Planar == {shape \in OutputShapes : \A b \in DOMAIN shape : shape[b].channels = 1}

HardwareCalls ==
  /\ block < MaxBlocks
  /\ block' = block + 1
  /\ \E writes \in BOOLEAN :
       \/ /\ backend = "CoreAudio"
          /\ \E input \in InputShapes, output \in OutputShapes :
               IoProc(InputList(input), OutputList(output), writes)
       \/ /\ backend = "RemoteIO"
          /\ \E frames \in FrameCounts, output \in Planar, succeeds \in BOOLEAN :
               RenderCallback(frames, OutputList(output), succeeds, writes)
  /\ UNCHANGED openedVars

BuffersSpec == BuffersInit /\ [][HardwareCalls]_buffersVars

-----------------------------------------------------------------------------
(* Properties. *)

Samples(list) == UNION {Range(list[b].samples) : b \in {b \in DOMAIN list : list[b].present}}

\* What the callback hears of a channel in a frame is what the device recorded
\* of that channel in that frame of this block, or silence where the device
\* recorded none: never another channel, another frame, or the block before
\* (coreaudio.cpp:446-461, ios.mm:338-351).  A block whose first buffer holds no
\* frame has none (coreaudio.cpp:434-440).
HeardIsRecorded ==
  \A f \in DOMAIN heard : \A s \in DOMAIN selected :
    LET sample == <<block, selected[s], f - 1>>
    IN  heard[f][s] = IF FirstFrames(recorded) > 0 /\ sample \in Samples(recorded)
                      THEN sample ELSE Silence

\* What the session wrote of this block is what the device plays: each sample in
\* its channel and frame, and silence in every channel the mask leaves out, in
\* every frame nothing was written for and in memory no channel has
\* (coreaudio.cpp:366-368).  A device that asks for frames is played to even when
\* it records none (coreaudio.cpp:489-499), and a block too long for the buffers
\* is silent (ios.mm:311-314).
PlayedIsWritten ==
  /\ outputs # <<>> /\ FirstFrames(returned) > 0 =>
       heard # <<>> \/ backend = "RemoteIO"
  /\ backend = "RemoteIO" \/ (heard # <<>> /\ outputs # <<>>) =>
       \A b \in {b \in DOMAIN returned : returned[b].present} :
         \A at \in DOMAIN returned[b].samples :
           LET channels == returned[b].channels
               channel == Base(returned, b) + (at % channels)
               frame == at \div channels
           IN  IF channels > 0 /\ channel \in Range(outputs) /\ frame < Len(heard)
               THEN \E s \in DOMAIN outputs :
                      /\ outputs[s] = channel
                      /\ returned[b].samples[at] = scratch[frame * Len(outputs) + s - 1]
               ELSE returned[b].samples[at] = Silence

================================================================================
