------------------------------ MODULE OfflineStream ------------------------------
(***************************************************************************)
(* A stream that pulls from memory (audio/offline.cpp): what open_offline  *)
(* refuses, and what one pump() hands to the callback.  A source is its    *)
(* interleaved samples, its channels and its rate.                         *)
(***************************************************************************)
EXTENDS Integers, Sequences

SourceFrames(source) == Len(source.samples) \div source.channels

\* StreamConfig::validate and open_offline's check of the channels; the
\* device has the source's channels in and two out.
Opens(source, config) ==
  /\ config.inputs # <<>> \/ config.outputs # <<>>
  /\ config.rate > 0
  /\ \A i \in DOMAIN config.inputs : config.inputs[i] < source.channels
  /\ \A i \in DOMAIN config.outputs : config.outputs[i] < 2

OpenOffline(source, config, block) ==
  [source |-> source, inputs |-> config.inputs, block |-> block, position |-> 0]

PumpFrames(stream) ==
  LET remaining == SourceFrames(stream.source) - stream.position
  IN  IF stream.block < remaining THEN stream.block ELSE remaining

\* pump: the frames the callback gets, the selected channels of each in the
\* order asked for.
Gathered(stream) ==
  [frame \in 1 .. PumpFrames(stream) |->
     [slot \in DOMAIN stream.inputs |->
        stream.source.samples[(stream.position + frame - 1) * stream.source.channels
                              + stream.inputs[slot] + 1]]]

Pumped(stream) == [stream EXCEPT !.position = @ + PumpFrames(stream)]

==================================================================================
