-------------------------------- MODULE Snapshot --------------------------------
(***************************************************************************)
(* The triple buffer that carries finished results from one thread to      *)
(* another without either waiting (engine/snapshot.hpp).  It is used twice *)
(* by the program: the worker publishes SpectrumFrames to the UI thread,   *)
(* and the UI thread publishes equaliser coefficients to the callback.     *)
(*                                                                         *)
(* The three slots are owned by role.  `fill` stores one field at a time   *)
(* into the publisher's slot, and the reader may look at the slot it holds *)
(* at any moment, so a slot in the wrong hands shows as a torn value.      *)
(* A field's content is the number of the publish that wrote it.           *)
(***************************************************************************)
EXTENDS Naturals, FiniteSets

CONSTANTS Fields,        \* the fields of T that fill must overwrite
          MaxPublishes   \* bound: calls of publish_with

ASSUME SnapshotAssumption == Fields # {} /\ MaxPublishes \in Nat

Slots == 0..2
Fresh == 4                      \* TripleBuffer::kFresh

Index(byte) == byte % 4         \* byte & kIndexMask
IsFresh(byte) == byte >= Fresh  \* (byte & kFresh) != 0, of a byte below 8

VARIABLES
  slots,      \* TripleBuffer::slots: per slot, the publish each field is from
  back,       \* TripleBuffer::back: an index, plus Fresh while unread
  input,      \* SnapshotPublisher::input_
  output,     \* SnapshotReader::output_
  publisher,  \* "idle", or "filling" inside publish_with
  unfilled,   \* fields fill has still to store
  reader,     \* "idle", or "taking": has_update() was true, exchange to come
  published   \* history: publishes completed

vars == <<slots, back, input, output, publisher, unfilled, reader, published>>

Init == /\ slots = [s \in Slots |-> [f \in Fields |-> 0]]
        /\ back = 1
        /\ input = 0
        /\ output = 2
        /\ publisher = "idle"
        /\ unfilled = {}
        /\ reader = "idle"
        /\ published = 0

--------------------------------------------------------------------------------
(* SnapshotPublisher::publish_with *)

(* Mutant: one field is left as it was two publishes ago. *)
AllButOneField == Fields \ {CHOOSE f \in Fields : TRUE}

(* fill must overwrite every field of the recycled slot. *)
ToFill == Fields

BeginFill ==
  /\ publisher = "idle"
  /\ published < MaxPublishes
  /\ publisher' = "filling"
  /\ unfilled' = ToFill
  /\ UNCHANGED <<slots, back, input, output, reader, published>>

FillField(f) ==
  /\ publisher = "filling"
  /\ f \in unfilled
  /\ slots' = [slots EXCEPT ![input][f] = published + 1]
  /\ unfilled' = unfilled \ {f}
  /\ UNCHANGED <<back, input, output, publisher, reader, published>>

HandOver == input + Fresh

(* One exchange hands over what was written and takes whatever was back. *)
ExchangeInput ==
  /\ publisher = "filling"
  /\ unfilled = {}
  /\ back' = HandOver
  /\ input' = Index(back)
  /\ publisher' = "idle"
  /\ published' = published + 1
  /\ UNCHANGED <<slots, output, unfilled, reader>>

--------------------------------------------------------------------------------
(* SnapshotReader::read *)

(* has_update() was true.  When it is false the call returns the slot it    *)
(* already holds and changes nothing.                                       *)
SeeUpdate ==
  /\ reader = "idle"
  /\ IsFresh(back)
  /\ reader' = "taking"
  /\ UNCHANGED <<slots, back, input, output, publisher, unfilled, published>>

(* Mutant: the old slot is given back marked fresh. *)
GiveBackFresh == output + Fresh

GiveBack == output

(* One exchange takes the newest value and returns the old slot. *)
ExchangeOutput ==
  /\ reader = "taking"
  /\ back' = GiveBack
  /\ output' = Index(back)
  /\ reader' = "idle"
  /\ UNCHANGED <<slots, input, publisher, unfilled, published>>

--------------------------------------------------------------------------------
Publisher == BeginFill \/ (\E f \in Fields : FillField(f)) \/ ExchangeInput

Reader == SeeUpdate \/ ExchangeOutput

Next == Publisher \/ Reader

Spec == Init /\ [][Next]_vars

(* The reader polls (a redraw timer, the next audio callback); a publisher  *)
(* may stop at any point, even in the middle of a fill.                     *)
FairSpec == Spec /\ WF_vars(Reader)

--------------------------------------------------------------------------------
TypeOK ==
  /\ slots \in [Slots -> [Fields -> 0..MaxPublishes]]
  /\ back \in 0..7 /\ Index(back) \in Slots
  /\ input \in Slots
  /\ output \in Slots
  /\ publisher \in {"idle", "filling"}
  /\ unfilled \subseteq Fields
  /\ reader \in {"idle", "taking"}
  /\ published \in 0..MaxPublishes

(* The slot holds the value of publish n in every field. *)
Holds(s, n) == \A f \in Fields : slots[s][f] = n

(* "The producer always writes into one nobody is reading" (snapshot.hpp):  *)
(* the three roles are three different slots.                               *)
RolesDistinct == /\ input # output
                 /\ input # Index(back)
                 /\ output # Index(back)

(* "The UI cannot observe a half-written frame": at every moment all the    *)
(* fields of the slot the reader holds come from one publish.               *)
NoTornRead == \E n \in 0..published : Holds(output, n)

(* A fresh back buffer holds the newest value; with nothing fresh the       *)
(* reader holds it already, so has_update() == false never hides a result.  *)
NewestIsReachable ==
  IF IsFresh(back) THEN Holds(Index(back), published)
                   ELSE Holds(output, published)

(* The value the reader's reference shows. *)
Held == CHOOSE n \in 0..published : Holds(output, n)

(* The triple buffer implements the register: each read shows the newest    *)
(* value or the one already held, and old values, still in the recycled     *)
(* slots, never come back.                                                  *)
Register == INSTANCE LatestValue WITH newest <- published, held <- Held

ImplementsRegister == Register!Spec

================================================================================
