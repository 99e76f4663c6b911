----------------------------- MODULE MCDeviceBuffers -----------------------------
(* Devices of up to three channels and blocks of up to two frames, which   *)
(* arrive in one buffer or in several, with streams that are short, absent *)
(* or without memory.                                                      *)
EXTENDS DeviceBuffers

Device(id, inputs, outs, rate, isDefault) ==
  [id |-> id, inputs |-> inputs, outputs |-> outs, rate |-> rate, isDefault |-> isDefault]

MCHardware ==
  {<<Device(1, 2, 3, 48000, TRUE)>>, Listed(<<Device(NoUid, 9, 0, 0, FALSE), Device(2, 3, 2, 44100, FALSE)>>)}

MCConfigs ==
  {[DefaultConfig EXCEPT !.output_mask = {0, 2}, !.signal = "Sine"],
   [DefaultConfig EXCEPT !.uid = 2],
   [DefaultConfig EXCEPT !.uid = 2, !.output_mask = {1, 31}, !.signal = "Sweep"]}

Granted(rate, inputs, outs, frames) == [rate |-> rate, inputs |-> inputs, outputs |-> outs, frames |-> frames]

MCGrants == {Granted(48000, 2, 3, 2), Granted(44100, 3, 2, 9), Granted(44100, 1, 2, 3)}

Stream(channels, samples) == [channels |-> channels, samples |-> samples, present |-> TRUE]
Disabled(channels, samples) == [Stream(channels, samples) EXCEPT !.present = FALSE]

MCInputShapes ==
  {<<>>, <<Stream(2, 4)>>, <<Stream(3, 6)>>, <<Stream(3, 12)>>, <<Stream(1, 2), Stream(2, 4)>>,
   <<Stream(2, 4), Stream(1, 1)>>, <<Disabled(1, 2), Stream(2, 2)>>, <<Stream(1, 1)>>,
   <<Stream(2, 0), Stream(1, 2)>>, <<Stream(0, 3), Stream(2, 3)>>}
MCOutputShapes ==
  {<<>>, <<Stream(3, 9)>>, <<Stream(2, 4)>>, <<Stream(1, 2), Stream(2, 2)>>,
   <<Disabled(2, 4), Stream(1, 2)>>, <<Stream(0, 2), Stream(2, 4)>>, <<Stream(1, 3), Stream(1, 1), Stream(1, 2)>>,
   <<Stream(1, 2), Disabled(1, 2)>>}

-----------------------------------------------------------------------------
(* start_session, over many configurations and devices. *)

Devices == {Device(id, inputs, outs, rate, isDefault) :
              id \in {NoUid, 1, 2}, inputs \in 0..2, outs \in 0..2, rate \in {0, 48000},
              isDefault \in BOOLEAN}
Asked ==
  [uid : {SystemDefault, 1}, channel : 0..2, fft_size : {0, 2, 3, 4096}, buffer_frames : {512},
   overlap : {"None", "SevenEighths"}, averaging : {"Fast"}, mode : {"Spectrum", "Transfer"},
   reference : {"Internal", "Input"}, reference_channel : 0..2, signal : {"Silence", "Sine"},
   output_mask : {{}, {0}, {1, 31}}]

\* A configuration that is not refused trips no contract of what it starts, and
\* its stream opens on the device it was checked against (start.cpp:72-167).
ASSUME StartTripsNoContract ==
  \A config \in Asked, device \in Devices :
    LET devices == Listed(<<device>>)
    IN  ~Refused(config, devices) =>
          /\ EngineAccepts(EngineConfig(config, device))
          /\ Opened(StreamConfig(config, device), devices, MaxBufferFrames) # <<>>
          /\ OverlapHop(config.overlap, config.fft_size) \in 1..config.fft_size

\* The channel a transfer session shows is one the device has, and an internal
\* reference is the one channel it has not.
ASSUME InternalIsAppended ==
  \A config \in Asked, device \in Devices :
    LET engine == EngineConfig(config, device)
    IN  ~Refused(config, Listed(<<device>>)) =>
          /\ AnalysedChannel(engine) = config.channel /\ config.channel < device.inputs
          /\ engine.mode.transfer =>
               (engine.mode.reference >= device.inputs <=> InternalReference(config))

\* The defaults start on any device that can be heard.
ASSUME DefaultStarts ==
  \A device \in Devices :
    device.id # NoUid /\ device.isDefault /\ device.inputs > 0 /\ device.rate > 0 =>
      ~Refused(DefaultConfig, <<device>>)

\* A device that lost a channel between the list and the opening is refused.
ASSUME LostChannelIsRefused ==
  \A config \in Asked, device \in Devices :
    ~Refused(config, Listed(<<device>>)) =>
      Opened(StreamConfig(config, device), <<[device EXCEPT !.inputs = @ - 1]>>, MaxBufferFrames) = <<>>

\* The rates offered are in order and half a hertz apart, and the start of
\* every range a device reports is within half a hertz of one of them.
Ranges == {<<a, b>> \in {0, 3, 4, 6, 8, 11} \X {0, 3, 4, 6, 8, 11} : a <= b}
ASSUME RatesAreApart ==
  \A first \in Ranges, second \in Ranges :
    LET rates == AvailableRates(<<first, second>>)
    IN  /\ \A i \in 1..Len(rates) - 1 : Apart(rates[i], rates[i + 1])
        /\ \A range \in {first, second} : \E i \in DOMAIN rates :
             ~Apart(rates[i], range[1]) /\ ~Apart(range[1], rates[i])
\* On iOS the stream runs at the rate the engine was told, whichever port is
\* routed while the ports are listed and whatever the session grants when one is
\* selected (ios.mm:581-583); it is refused rather than mislabelled.
Ports == <<[id |-> 1, channels |-> 0], [id |-> 2, channels |-> 3]>>
Routes == {[rate |-> rate, outputs |-> 2, routed |-> routed] : rate \in {44100, 48000}, routed \in 1..2}
IosGrants == {Granted(rate, inputs, outs, frames) :
                rate \in {44100, 48000}, inputs \in {0, 1, 3}, outs \in 0..2, frames \in {0, 2, 9}}
IosAsked == {config \in Asked : config.fft_size = 4096 /\ config.overlap = "None"}
ASSUME IosRateIsAnalysed ==
  \A config \in IosAsked, session \in Routes :
    LET devices == ListedOnIos(Ports, session)
    IN  ~Refused(config, devices) =>
          LET device == FindDevice(config.uid, devices)[1]
              stream == StreamConfig(config, device)
          IN  \A granted \in IosGrants : LET opened == OpenedOnIos(stream, Ports, granted)
                IN  opened # <<>> =>
                      /\ opened[1].sample_rate = EngineConfig(config, device).rate
                      /\ opened[1].buffer_frames \in 1..MaxBufferFrames
                      /\ Len(stream.input_channels) <= granted.inputs
================================================================================
