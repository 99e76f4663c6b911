------------------------------- MODULE FrameFifo -------------------------------
(***************************************************************************)
(* What the capture ring promises its two users, with no ring in sight: a  *)
(* bounded first-in first-out queue of samples.  A block enters whole or   *)
(* not at all, a refused block is counted, and whole frames leave in the   *)
(* order they were accepted (engine/ring.hpp, the header comment).         *)
(*                                                                         *)
(* A sample is its number in the stream of well-formed blocks the audio    *)
(* callback has offered, so a lost, repeated, reordered or torn sample is  *)
(* visible in the numbers that come out.                                   *)
(***************************************************************************)
EXTENDS Naturals, Sequences

CONSTANTS Channels,        \* samples per frame
          CapacityFrames   \* frames the queue holds

VARIABLES queue,       \* samples accepted and not yet delivered
          delivered,   \* samples delivered, in order
          offered,     \* samples of well-formed blocks offered so far
          overruns     \* blocks refused

vars == <<queue, delivered, offered, overruns>>

Init == /\ queue = <<>>
        /\ delivered = <<>>
        /\ offered = 0
        /\ overruns = 0

(* A block of n frames that fits is accepted whole. *)
Accept(n) ==
  /\ Len(queue) + n * Channels <= Channels * CapacityFrames
  /\ queue' = queue \o [i \in 1..(n * Channels) |-> offered + i - 1]
  /\ offered' = offered + n * Channels
  /\ UNCHANGED <<delivered, overruns>>

(* A block of n frames that does not fit is dropped whole, and counted. *)
Drop(n) ==
  /\ Len(queue) + n * Channels > Channels * CapacityFrames
  /\ offered' = offered + n * Channels
  /\ overruns' = overruns + 1
  /\ UNCHANGED <<queue, delivered>>

(* A block that is not a whole number of frames is refused, and counted. *)
Refuse ==
  /\ overruns' = overruns + 1
  /\ UNCHANGED <<queue, delivered, offered>>

(* Some whole frames, the oldest, are delivered. *)
Deliver(n) ==
  /\ n * Channels <= Len(queue)
  /\ delivered' = delivered \o SubSeq(queue, 1, n * Channels)
  /\ queue' = SubSeq(queue, n * Channels + 1, Len(queue))
  /\ UNCHANGED <<offered, overruns>>

Next ==
  \/ \E n \in 1..CapacityFrames : Accept(n) \/ Deliver(n)
  \/ \E n \in 1..(offered' - offered) : Drop(n)
  \/ Refuse

Spec == Init /\ [][Next]_vars
================================================================================
