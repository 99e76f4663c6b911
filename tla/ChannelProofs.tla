------------------------------ MODULE ChannelProofs ------------------------------
(***************************************************************************)
(* Proofs about the triple buffer, by which a value crosses between        *)
(* threads without a lock, for any set of fields and any number of         *)
(* publishes: the roles stay distinct, the reader never sees a torn value, *)
(* and the buffer implements the latest-value register.                    *)
(***************************************************************************)
EXTENDS Snapshot, TLAPS

--------------------------------------------------------------------------------
(* The triple buffer. *)


(* The publisher's slot holds the value in the making in every field stored *)
(* so far.                                                                  *)
FillInv ==
  /\ publisher = "filling" =>
       /\ published < MaxPublishes
       /\ \A f \in Fields \ unfilled : slots[input][f] = published + 1
  /\ publisher = "idle" => unfilled = {}

(* While the back slot is fresh it holds the newest value and the reader an *)
(* older one; otherwise the reader has the newest.                          *)
FreshInv ==
  /\ IsFresh(back) => /\ Holds(Index(back), published)
                      /\ \E n \in 0..(published - 1) : Holds(output, n)
  /\ ~IsFresh(back) => Holds(output, published)
  /\ reader = "taking" => IsFresh(back)

BufferInv == TypeOK /\ RolesDistinct /\ FillInv /\ FreshInv

--------------------------------------------------------------------------------
(* What the byte arithmetic of the code does to the bytes that occur. *)
LEMMA Bytes ==
  /\ \A s \in Slots : /\ Index(s) = s /\ ~IsFresh(s)
                      /\ Index(s + Fresh) = s /\ IsFresh(s + Fresh)
                      /\ s \in 0..7 /\ s + Fresh \in 0..7
  BY DEF Slots, Index, IsFresh, Fresh

LEMMA BufferInitially == Init => BufferInv
  <1> SUFFICES ASSUME Init PROVE BufferInv
    OBVIOUS
  <1>1. TypeOK
    BY SnapshotAssumption, Bytes DEF Init, TypeOK, Slots
  <1>2. RolesDistinct
    BY Bytes DEF Init, RolesDistinct, Slots
  <1>3. FillInv /\ FreshInv
    BY Bytes DEF Init, FillInv, FreshInv, Holds, Slots
  <1> QED BY <1>1, <1>2, <1>3 DEF BufferInv

(* The invariant survives every step of either thread. *)
LEMMA BufferStep == BufferInv /\ [Next]_vars => BufferInv'
  <1> SUFFICES ASSUME BufferInv, [Next]_vars PROVE BufferInv'
    OBVIOUS
  <1> USE SnapshotAssumption DEF BufferInv
  <1>1. CASE BeginFill
    <2>1. TypeOK' /\ RolesDistinct'
      BY <1>1 DEF BeginFill, TypeOK, RolesDistinct, ToFill
    <2>2. FillInv' /\ FreshInv'
      BY <1>1 DEF BeginFill, FillInv, FreshInv, ToFill, TypeOK, Holds
    <2> QED BY <2>1, <2>2
  <1>2. ASSUME NEW f \in Fields, FillField(f) PROVE BufferInv'
    <2>1. TypeOK' /\ RolesDistinct'
      BY <1>2 DEF FillField, FillInv, TypeOK, RolesDistinct
    <2>2. FillInv'
      BY <1>2 DEF FillField, FillInv, TypeOK
    <2>3. \A s \in Slots : s # input => slots'[s] = slots[s]
      BY <1>2 DEF FillField, TypeOK
    <2>4. FreshInv'
      BY <1>2, <2>3 DEF FillField, FreshInv, Holds, TypeOK, RolesDistinct
    <2> QED BY <2>1, <2>2, <2>4
  <1>3. CASE ExchangeInput
    <2>1. /\ back' = input + Fresh /\ input' = Index(back)
          /\ Index(back') = input /\ IsFresh(back') /\ back' \in 0..7
      BY <1>3, Bytes DEF ExchangeInput, HandOver, TypeOK
    <2>2. TypeOK' /\ RolesDistinct'
      BY <1>3, <2>1 DEF ExchangeInput, TypeOK, RolesDistinct, FillInv
    <2>3. Holds(input, published + 1)
      BY <1>3 DEF ExchangeInput, FillInv, Holds
    <2>4. \E n \in 0..published : Holds(output, n)
      BY DEF FreshInv, TypeOK
    <2>5. FillInv' /\ FreshInv'
      BY <1>3, <2>1, <2>3, <2>4 DEF ExchangeInput, FillInv, FreshInv, Holds, TypeOK
    <2> QED BY <2>2, <2>5
  <1>4. CASE SeeUpdate
    BY <1>4 DEF SeeUpdate, TypeOK, RolesDistinct, FillInv, FreshInv, Holds
  <1>5. CASE ExchangeOutput
    <2>1. /\ back' = output /\ output' = Index(back)
          /\ Index(back') = output /\ ~IsFresh(back') /\ back' \in 0..7
      BY <1>5, Bytes DEF ExchangeOutput, GiveBack, TypeOK
    <2>2. TypeOK' /\ RolesDistinct'
      BY <1>5, <2>1 DEF ExchangeOutput, TypeOK, RolesDistinct
    <2>3. FillInv' /\ FreshInv'
      BY <1>5, <2>1 DEF ExchangeOutput, FillInv, FreshInv, Holds
    <2> QED BY <2>2, <2>3
  <1>6. CASE UNCHANGED vars
    BY <1>6 DEF vars, TypeOK, RolesDistinct, FillInv, FreshInv, Holds
  <1> QED BY <1>1, <1>2, <1>3, <1>4, <1>5, <1>6 DEF Next, Publisher, Reader

LEMMA BufferInvariance == Spec => []BufferInv
  <1> QED BY BufferInitially, BufferStep, PTL DEF Spec

--------------------------------------------------------------------------------
(* Every variable keeps to its range, so the masked index is always a slot. *)
THEOREM BufferTypeCorrect == Spec => []TypeOK
  <1>1. BufferInv => TypeOK
    BY DEF BufferInv
  <1> QED BY <1>1, BufferInvariance, PTL

(* Publisher, back and reader never share a slot, whatever the interleaving *)
(* of fills, checks and exchanges: nobody reads what is being written.      *)
THEOREM RolesAlwaysDistinct == Spec => []RolesDistinct
  <1>1. BufferInv => RolesDistinct
    BY DEF BufferInv
  <1> QED BY <1>1, BufferInvariance, PTL

(* The slot the reader holds is always one whole published value. *)
THEOREM NeverTorn == Spec => []NoTornRead
  <1>1. BufferInv => NoTornRead
    BY DEF BufferInv, FreshInv, NoTornRead, TypeOK
  <1> QED BY <1>1, BufferInvariance, PTL

(* has_update() is false only when the reader already holds the newest. *)
THEOREM NewestAlwaysReachable == Spec => []NewestIsReachable
  <1>1. BufferInv => NewestIsReachable
    BY DEF BufferInv, FreshInv, NewestIsReachable
  <1> QED BY <1>1, BufferInvariance, PTL

--------------------------------------------------------------------------------
(* A slot holds at most one value, so Held is that value. *)
LEMMA HeldIs ==
  ASSUME NEW n \in 0..published, Holds(output, n)
  PROVE  Held = n
  <1>1. PICK f \in Fields : TRUE
    BY SnapshotAssumption
  <1>2. \A m \in 0..published : Holds(output, m) => m = n
    BY <1>1 DEF Holds
  <1> QED BY <1>2 DEF Held

(* The same in the next state. *)
LEMMA HeldIsNext ==
  ASSUME NEW n \in 0..(published'), Holds(output, n)'
  PROVE  Held' = n
  <1>1. PICK f \in Fields : TRUE
    BY SnapshotAssumption
  <1>2. \A m \in 0..(published') : Holds(output, m)' => m = n
    BY <1>1 DEF Holds
  <1> QED BY <1>2 DEF Held

LEMMA RegisterStep == BufferInv /\ BufferInv' /\ [Next]_vars => [Register!Next]_(Register!vars)
  <1> SUFFICES ASSUME BufferInv, BufferInv', [Next]_vars
               PROVE  [Register!Next]_(Register!vars)
    OBVIOUS
  <1> USE SnapshotAssumption DEF Register!Next, Register!vars, Register!Publish,
                                 Register!Take
  <1>0. PICK h \in 0..published : Holds(output, h) /\ (IsFresh(back) => h < published)
                                  /\ (~IsFresh(back) => h = published)
    BY DEF BufferInv, FreshInv, TypeOK
  <1>h. Held = h
    BY <1>0, HeldIs
  <1>1. CASE BeginFill \/ SeeUpdate \/ UNCHANGED vars
    <2>1. UNCHANGED <<slots, output, published>>
      BY <1>1 DEF BeginFill, SeeUpdate, vars
    <2> QED BY <2>1 DEF Held, Holds
  <1>2. ASSUME NEW f \in Fields, FillField(f) PROVE UNCHANGED <<published, Held>>
    <2>1. slots'[output] = slots[output] /\ UNCHANGED <<output, published>>
      BY <1>2 DEF FillField, BufferInv, RolesDistinct, TypeOK
    <2> QED BY <2>1 DEF Held, Holds
  <1>3. CASE ExchangeInput
    <2>1. UNCHANGED <<slots, output>> /\ published' = published + 1
      BY <1>3 DEF ExchangeInput
    <2>2. h \in 0..(published') /\ Holds(output, h)'
      BY <2>1, <1>0 DEF Holds, BufferInv, TypeOK
    <2> QED BY <2>1, <2>2, <1>h, HeldIsNext
  <1>4. CASE ExchangeOutput
    <2>1. /\ IsFresh(back) /\ published' = published /\ slots' = slots
          /\ output' = Index(back)
      BY <1>4 DEF ExchangeOutput, BufferInv, FreshInv
    <2>2. published' \in 0..(published') /\ Holds(output, published)'
      BY <2>1 DEF BufferInv, FreshInv, Holds, TypeOK
    <2>3. Held' = published
      BY <2>1, <2>2, HeldIsNext
    <2>4. published > h
      BY <2>1, <1>0 DEF BufferInv, TypeOK
    <2> QED BY <2>1, <2>3, <2>4, <1>h
  <1> QED BY <1>1, <1>2, <1>3, <1>4 DEF Next, Publisher, Reader

(* Every behaviour of the triple buffer is one of the register: a reader    *)
(* sees whole values, never an older one than before, and always the newest *)
(* when it takes one.                                                       *)
THEOREM BufferImplementsRegister == Spec => ImplementsRegister
  <1>1. Init => Register!Init
    <2> SUFFICES ASSUME Init PROVE Register!Init
      OBVIOUS
    <2>1. 0 \in 0..published /\ Holds(output, 0)
      BY DEF Init, Holds, Slots
    <2> QED BY <2>1, HeldIs DEF Init, Register!Init
  <1> QED
    BY <1>1, BufferInvariance, RegisterStep, PTL
    DEF Spec, ImplementsRegister, Register!Spec
================================================================================
