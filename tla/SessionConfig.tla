------------------------------ MODULE SessionConfig ------------------------------
(***************************************************************************)
(* What a session is started with: the device chosen among those the       *)
(* backend lists, the checks of start_session (ffi/start.cpp), and the     *)
(* configurations it hands to the engine and to the backend, each with the *)
(* contract that would end the process.                                    *)
(*                                                                         *)
(* A device is [id, inputs, outputs, rate, isDefault], its UID a positive  *)
(* number.  Rates are whole hertz; a mask is the set of its bits.          *)
(***************************************************************************)
EXTENDS Integers, Sequences, SequencesExt

CONSTANTS
  MaxBufferFrames,   \* kMaxBufferFrames of the backend
  MaskBits,          \* 32
  MostRenderChannels \* kMaxChannels of the iOS backend

ASSUME ConfigAssumption ==
  /\ MaxBufferFrames \in Nat \ {0} /\ MaskBits \in Nat \ {0} /\ MostRenderChannels \in Nat \ {0}

SystemDefault == 0   \* and no device at all
NoUid == -1

DeviceInfo == [id : Int, inputs : Nat, outputs : Nat, rate : Int, isDefault : BOOLEAN]

\* overlap_hop
OverlapHop(overlap, size) ==
  LET parts == [None |-> 1, Half |-> 2, ThreeQuarters |-> 4, SevenEighths |-> 8]
      hop == size \div parts[overlap]
  IN  IF hop < 1 THEN 1 ELSE hop

\* analyzer_session_config_default
DefaultConfig ==
  [uid |-> SystemDefault, channel |-> 0, fft_size |-> 4096, buffer_frames |-> 512,
   overlap |-> "ThreeQuarters", averaging |-> "Fast", mode |-> "Spectrum",
   reference |-> "Internal", reference_channel |-> 1, signal |-> "Silence",
   output_mask |-> {0, 1}]

-----------------------------------------------------------------------------
(* Devices as the backend lists them (coreaudio.cpp). *)

\* channel_count: the channels of the streams whose description arrived whole.
ChannelCount(streams, described) ==
  FoldSeq(+, 0, SubSeq(streams, 1, IF described < Len(streams) THEN described ELSE Len(streams)))

\* available_rates, in tenths of a hertz: the ends of the ranges in order,
\* without the ones that a kept one stands for.
Apart(a, b) == b - a >= 5

AvailableRates(ranges) ==
  LET Ends(range) == IF range[2] - range[1] > 5 THEN {range[1], range[2]} ELSE {range[1]}
      sorted == SetToSortSeq(UNION {Ends(ranges[i]) : i \in DOMAIN ranges}, <)
  IN  FoldLeft(LAMBDA kept, rate : IF kept = <<>> \/ Apart(Last(kept), rate)
                                   THEN Append(kept, rate) ELSE kept, <<>>, sorted)

\* devices: what has no UID is not offered (describe).
Listed(hardware) == SelectSeq(hardware, LAMBDA device : device.id # NoUid)

\* devices on iOS: every port with the rate and the outputs the one session has
\* while another port is routed.
ListedOnIos(ports, session) ==
  [i \in DOMAIN ports |->
     [id |-> ports[i].id, inputs |-> IF ports[i].channels < 1 THEN 1 ELSE ports[i].channels,
      outputs |-> session.outputs, rate |-> session.rate,
      isDefault |-> ports[i].id = session.routed]]

\* The first of a list at some positions, if there is one.
FirstAt(list, positions) ==
  IF positions = {} THEN <<>>
  ELSE <<list[CHOOSE i \in positions : \A j \in positions : i <= j]>>

\* find_device: the first of the name, or the first that says it is the default.
FindDevice(uid, devices) ==
  FirstAt(devices, {i \in DOMAIN devices :
                      IF uid = SystemDefault THEN devices[i].isDefault
                      ELSE devices[i].id = uid})

-----------------------------------------------------------------------------
(* start_session. *)

Playing(config) == config.signal # "Silence"
InternalReference(config) == config.mode = "Transfer" /\ config.reference = "Internal"

Channels(config, device) == device.inputs + IF InternalReference(config) THEN 1 ELSE 0

\* The channels of the mask that the device has, in their order.
OutputChannels(config, device) ==
  LET chosen[c \in 0..device.outputs] ==
        IF c = 0 THEN <<>>
        ELSE IF c - 1 < MaskBits /\ c - 1 \in config.output_mask
        THEN Append(chosen[c - 1], c - 1)
        ELSE chosen[c - 1]
  IN  IF Playing(config) THEN chosen[device.outputs] ELSE <<>>

ReferenceChannel(config, device) ==
  IF InternalReference(config) THEN device.inputs ELSE config.reference_channel

\* choose_mode refuses.
ModeRefused(config, device) ==
  /\ config.mode = "Transfer"
  /\ \/ ReferenceChannel(config, device) >= Channels(config, device)
     \/ ReferenceChannel(config, device) = config.channel
     \/ InternalReference(config) /\ ~Playing(config)

Refused(config, devices) ==
  \/ config.fft_size < 2 \/ config.fft_size % 2 # 0
  \/ LET found == FindDevice(config.uid, devices)
     IN  \/ found = <<>>
         \/ found[1].inputs = 0 \/ config.channel >= found[1].inputs
         \/ found[1].rate <= 0
         \/ Playing(config) /\ OutputChannels(config, found[1]) = <<>>
         \/ ModeRefused(config, found[1])

EngineConfig(config, device) ==
  [channels |-> Channels(config, device), analysis_channel |-> config.channel,
   mode |-> IF config.mode = "Spectrum" THEN [transfer |-> FALSE]
            ELSE [transfer |-> TRUE, reference |-> ReferenceChannel(config, device),
                  measurement |-> config.channel],
   size |-> config.fft_size, overlap |-> config.overlap, rate |-> device.rate,
   averaging |-> config.averaging]

StreamConfig(config, device) ==
  [input |-> device.id, output |-> IF Playing(config) THEN device.id ELSE SystemDefault,
   sample_rate |-> device.rate, buffer_frames |-> config.buffer_frames,
   input_channels |-> [c \in 1..device.inputs |-> c - 1],
   output_channels |-> OutputChannels(config, device)]

-----------------------------------------------------------------------------
(* What they meet. *)

\* The contracts of Engine::start, the analysers, the transform and the ring.
EngineAccepts(engine) ==
  /\ engine.channels > 0 /\ engine.analysis_channel < engine.channels
  /\ engine.mode.transfer =>
       /\ engine.mode.reference < engine.channels /\ engine.mode.measurement < engine.channels
       /\ engine.mode.reference # engine.mode.measurement
  /\ engine.rate > 0 /\ engine.size >= 2 /\ engine.size % 2 = 0

\* The channel whose level is shown (Worker::analysed_).
AnalysedChannel(engine) ==
  IF engine.mode.transfer THEN engine.mode.measurement ELSE engine.analysis_channel

\* StreamConfig::validate refuses.
Invalid(stream) ==
  (stream.input_channels = <<>> /\ stream.output_channels = <<>>) \/ stream.sample_rate <= 0

Within(channels, available) == \A i \in DOMAIN channels : channels[i] < available

\* open_input: the device may have changed since it was listed, may refuse the
\* rate, and grants the buffer it likes.
Opened(stream, hardware, granted) ==
  IF \/ Invalid(stream)
     \/ stream.output \notin {SystemDefault, stream.input}
     \/ \A i \in DOMAIN hardware : hardware[i].id # stream.input
  THEN <<>>
  ELSE LET device == SelectSeq(hardware, LAMBDA d : d.id = stream.input)[1]
       IN  IF \/ ~Within(stream.input_channels, device.inputs)
              \/ ~Within(stream.output_channels, device.outputs)
              \/ granted > MaxBufferFrames
           THEN <<>>
           ELSE <<[stream EXCEPT !.buffer_frames = granted, !.sample_rate = device.rate]>>

\* open_stream on iOS: the session is asked for the port, the channels, the rate
\* and the buffer, and what it then has is checked, the buffer excepted.
OpenedOnIos(stream, ports, granted) ==
  IF \/ Invalid(stream)
     \/ stream.output \notin {SystemDefault, stream.input}
     \/ \A i \in DOMAIN ports : ports[i].id # stream.input
     \/ granted.rate # stream.sample_rate
     \/ ~Within(stream.input_channels, granted.inputs)
     \/ ~Within(stream.output_channels, granted.outputs)
     \/ ~Within(stream.input_channels \o stream.output_channels, MostRenderChannels)
  THEN <<>>
  ELSE <<[stream EXCEPT !.sample_rate = granted.rate,
            !.buffer_frames = IF granted.frames < 1 THEN 1
                              ELSE IF granted.frames > MaxBufferFrames THEN MaxBufferFrames
                              ELSE granted.frames]>>

================================================================================
