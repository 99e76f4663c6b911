------------------------------ MODULE LatestValue ------------------------------
(***************************************************************************)
(* What the snapshot channel promises: a register that always holds the    *)
(* newest published value, whole, and a reader that takes it or keeps what *)
(* it has (engine/snapshot.hpp, the header comment).  A value is known by  *)
(* the number of the publish that produced it; 0 is the initial value.     *)
(***************************************************************************)
EXTENDS Naturals

VARIABLES newest,   \* the last value published
          held      \* the value the reader's reference shows

vars == <<newest, held>>

Init == newest = 0 /\ held = 0

Publish == newest' = newest + 1 /\ UNCHANGED held

Take == newest > held /\ held' = newest /\ UNCHANGED newest

Next == Publish \/ Take

Spec == Init /\ [][Next]_vars
================================================================================
