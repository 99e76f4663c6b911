-------------------------- MODULE SessionControlsProofs --------------------------
(***************************************************************************)
(* Proofs about a session as its owner uses it, for any bands, gains,      *)
(* plots, names, settings and number of calls.  The parts of the session   *)
(* have invariants of their own, each kept by every call on every part:    *)
(* the filters that are heard, the target that was fitted to, the curves   *)
(* that are drawn, the traces that were captured, the settings that were   *)
(* loaded and the files that were saved.                                   *)
(***************************************************************************)
EXTENDS SessionControls, Arithmetic, SequenceTheorems, FiniteSetTheorems, TLAPS

--------------------------------------------------------------------------------
(* Sequences and numbers.                                                   *)

(* A function on the first numbers is a sequence.                          *)
LEMMA Listed ==
  ASSUME NEW S, NEW n \in Nat, NEW f \in [1..n -> S]
  PROVE  f \in Seq(S) /\ Len(f) = n
  OBVIOUS

(* What a sequence and one more element hold.                               *)
LEMMA AppendIs ==
  ASSUME NEW S, NEW s \in Seq(S), NEW x \in S
  PROVE  /\ Append(s, x) \in Seq(S) /\ Len(Append(s, x)) = Len(s) + 1 /\ Len(s) \in Nat
         /\ \A k \in 1..Len(s) : Append(s, x)[k] = s[k]
         /\ Append(s, x)[Len(s) + 1] = x
  BY AppendProperties

(* What is left of a sequence without one of its elements.                  *)
LEMMA RemoveAtIs ==
  ASSUME NEW S, NEW s \in Seq(S), NEW i \in 1..Len(s)
  PROVE  /\ RemoveAt(s, i) \in Seq(S) /\ Len(RemoveAt(s, i)) = Len(s) - 1
         /\ \A k \in 1..(Len(s) - 1) : RemoveAt(s, i)[k] = IF k < i THEN s[k] ELSE s[k + 1]
  <1> DEFINE a == SubSeq(s, 1, i - 1)
             b == SubSeq(s, i + 1, Len(s))
  <1>1. a \in Seq(S) /\ Len(a) = i - 1 /\ \A k \in 1..(i - 1) : a[k] = s[k]
    OBVIOUS
  <1>2. b \in Seq(S) /\ Len(b) = Len(s) - i /\ \A k \in 1..(Len(s) - i) : b[k] = s[i + k]
    OBVIOUS
  <1> HIDE DEF a, b
  <1> DEFINE c == a \o b
  <1>3. c \in Seq(S)
    BY <1>1, <1>2, ConcatProperties
  <1>4. Len(c) = Len(a) + Len(b)
    BY <1>1, <1>2, ConcatProperties
  <1>5. \A k \in 1..Len(a) + Len(b) : c[k] = IF k <= Len(a) THEN a[k] ELSE b[k - Len(a)]
    BY <1>1, <1>2, ConcatProperties
  <1>6. RemoveAt(s, i) = c
    BY DEF RemoveAt, a, b
  <1>7. Len(a) \in Nat /\ Len(b) \in Nat /\ Len(a) + Len(b) = Len(s) - 1
    BY <1>1, <1>2
  <1> HIDE DEF c
  <1>8. \A k \in 1..(Len(s) - 1) : c[k] = IF k < i THEN s[k] ELSE s[k + 1]
    <2> TAKE k \in 1..(Len(s) - 1)
    <2>1. CASE k < i
      BY <2>1, <1>1, <1>5, <1>7
    <2>2. CASE k >= i
      <3>1. c[k] = b[k - Len(a)]
        BY <2>2, <1>1, <1>5, <1>7
      <3>2. k - Len(a) \in 1..(Len(s) - i) /\ i + (k - Len(a)) = k + 1
        BY <2>2, <1>1
      <3>3. b[k - Len(a)] = s[i + (k - Len(a))]
        BY <3>2, <1>2
      <3>4. ~(k < i)
        BY <2>2
      <3> QED BY <3>1, <3>2, <3>3, <3>4
    <2> QED BY <2>1, <2>2
  <1> QED BY <1>3, <1>4, <1>6, <1>7, <1>8

(* One sequence after another has the elements of both.                     *)
LEMMA ToSetOfTwo ==
  ASSUME NEW S, NEW a \in Seq(S), NEW b \in Seq(S)
  PROVE  a \o b \in Seq(S) /\ ToSet(a \o b) = ToSet(a) \cup ToSet(b)
  <1> DEFINE c == a \o b
  <1>1. c \in Seq(S)
    BY ConcatProperties
  <1>2. Len(c) = Len(a) + Len(b)
    BY ConcatProperties
  <1>3. \A i \in 1..Len(a) + Len(b) : c[i] = IF i <= Len(a) THEN a[i] ELSE b[i - Len(a)]
    BY ConcatProperties
  <1>4. /\ Len(a) \in Nat /\ Len(b) \in Nat /\ DOMAIN a = 1..Len(a) /\ DOMAIN b = 1..Len(b)
        /\ DOMAIN c = 1..Len(a) + Len(b)
    BY <1>1, <1>2
  <1> HIDE DEF c
  <1>5. ASSUME NEW i \in DOMAIN c
        PROVE  c[i] \in ToSet(a) \cup ToSet(b)
    <2>1. CASE i <= Len(a)
      BY <1>3, <1>4, <2>1 DEF ToSet
    <2>2. CASE i > Len(a)
      <3>1. i - Len(a) \in DOMAIN b /\ c[i] = b[i - Len(a)]
        BY <1>3, <1>4, <2>2
      <3> QED BY <3>1 DEF ToSet
    <2> QED BY <1>4, <2>1, <2>2
  <1>6. ASSUME NEW i \in DOMAIN a
        PROVE  a[i] \in ToSet(c)
    <2>1. i \in DOMAIN c /\ c[i] = a[i]
      BY <1>3, <1>4
    <2> QED BY <2>1 DEF ToSet
  <1>7. ASSUME NEW i \in DOMAIN b
        PROVE  b[i] \in ToSet(c)
    <2>1. i + Len(a) \in DOMAIN c /\ c[i + Len(a)] = b[i]
      BY <1>3, <1>4
    <2> QED BY <2>1 DEF ToSet
  <1>8. ToSet(c) = ToSet(a) \cup ToSet(b)
    BY <1>5, <1>6, <1>7 DEF ToSet
  <1> QED BY <1>1, <1>8 DEF c

(* Numbers up to a bound, if there are any, have a greatest one.            *)
LEMMA GreatestIs ==
  ASSUME NEW n \in Nat, NEW T \in SUBSET (1..n), T # {}
  PROVE  \E x \in T : \A y \in T : y <= x
  <1> DEFINE Down == {n - x : x \in T}
  <1>1. Down \in SUBSET Nat /\ Down # {}
    <2>1. \A x \in T : n - x \in Nat
      OBVIOUS
    <2>2. PICK x \in T : TRUE
      OBVIOUS
    <2>3. n - x \in Down
      BY <2>2
    <2> QED BY <2>1, <2>3
  <1>2. PICK d \in Down : \A e \in Down : d <= e
    BY <1>1, LeastIs
  <1>3. PICK x \in T : d = n - x
    BY <1>2
  <1>4. \A y \in T : n - x <= n - y
    BY <1>2, <1>3
  <1>5. ASSUME NEW y \in T
        PROVE  y <= x
    <2>1. x \in Int /\ y \in Int
      OBVIOUS
    <2>2. \A a, b \in Int : n - a <= n - b => b <= a
      BY Z3
    <2> QED BY <1>4, <2>1, <2>2
  <1> QED BY <1>5

(* The sums of the first numbers of a sequence, one after another.          *)
Sums(s, f) ==
  /\ f \in [0..Len(s) -> Int]
  /\ \A k \in 0..Len(s) : f[k] = IF k = 0 THEN 0 ELSE f[k - 1] + s[k]

(* The last of them is the sum.                                             *)
LEMMA SumIs ==
  ASSUME NEW s \in Seq(Int)
  PROVE  \E f : Sums(s, f) /\ SumOf(s) = f[Len(s)]
  <1> DEFINE n == Len(s)
             next == [k \in 1..n |-> [sum \in Int |-> sum + s[k]]]
             Chosen(f) == f = [k \in 0..n |-> IF k = 0 THEN 0 ELSE f[k - 1] + s[k]]
  <1>1. n \in Nat /\ \A k \in 1..n : s[k] \in Int
    OBVIOUS
  <1>2. next \in [1..n -> [Int -> Int]]
    <2> HIDE DEF n
    <2> QED BY <1>1
  <1>3. PICK f : Steps(f, Int, 0, n, next)
    <2>1. 0 \in Int
      OBVIOUS
    <2> HIDE DEF n, next
    <2> QED BY <1>1, <1>2, <2>1, StepsExist
  <1>4. /\ f \in [0..n -> Int]
        /\ \A k \in 0..n : f[k] = IF k = 0 THEN 0 ELSE next[k][f[k - 1]]
    <2> HIDE DEF n, next
    <2> QED BY <1>3 DEF Steps
  <1>5. Chosen(f)
    <2>1. ASSUME NEW k \in 0..n
          PROVE  f[k] = IF k = 0 THEN 0 ELSE f[k - 1] + s[k]
      <3>1. CASE k = 0
        <4> HIDE DEF n, next
        <4> QED BY <1>4, <3>1
      <3>2. CASE k # 0
        <4>1. k \in 1..n /\ k - 1 \in 0..n /\ f[k - 1] \in Int
          <5>1. k \in 1..n /\ k - 1 \in 0..n
            BY <1>1, <3>2
          <5> HIDE DEF n
          <5> QED BY <1>4, <5>1
        <4>2. f[k] = next[k][f[k - 1]]
          <5> HIDE DEF next, n
          <5> QED BY <1>4, <3>2
        <4>3. next[k][f[k - 1]] = f[k - 1] + s[k]
          <5> HIDE DEF n
          <5> QED BY <4>1
        <4> HIDE DEF next, n
        <4> QED BY <3>2, <4>2, <4>3
      <3> QED BY <3>1, <3>2
    <2>2. f = [k \in 0..n |-> f[k]]
      BY <1>4
    <2> HIDE DEF n, next
    <2> QED BY <2>1, <2>2
  <1>6. PICK sum : Chosen(sum) /\ SumOf(s) = sum[n]
    BY <1>5, Zenon DEF SumOf
  <1>7. \A k \in 0..n : sum[k] = IF k = 0 THEN 0 ELSE sum[k - 1] + s[k]
    <2> HIDE DEF n
    <2> QED BY <1>6
  <1> DEFINE T == {k \in 0..n : sum[k] \in Int}
  <1>8. 0 \in T
    <2>1. 0 \in 0..n
      BY <1>1
    <2> HIDE DEF n, Chosen
    <2> QED BY <1>7, <2>1
  <1>9. ASSUME NEW k \in 1..n, k - 1 \in T
        PROVE  k \in T
    <2>1. k \in 0..n /\ k # 0 /\ sum[k - 1] \in Int
      BY <1>1, <1>9
    <2> HIDE DEF n, Chosen
    <2> QED BY <1>1, <1>7, <2>1
  <1>10. \A k \in 0..n : k \in T
    <2> HIDE DEF T, n, Chosen
    <2> QED BY <1>1, <1>8, <1>9, Climbs
  <1>11. sum \in [0..n -> Int]
    <2>1. sum = [k \in 0..n |-> sum[k]]
      <3> HIDE DEF n
      <3> QED BY <1>6
    <2>2. \A k \in 0..n : sum[k] \in Int
      BY <1>10
    <2> HIDE DEF n, Chosen, T
    <2> QED BY <2>1, <2>2
  <1> HIDE DEF Chosen
  <1> QED BY <1>6, <1>7, <1>11 DEF Sums

(* A whole number.                                                          *)
LEMMA SumIsWhole ==
  ASSUME NEW s \in Seq(Int)
  PROVE  SumOf(s) \in Int
  <1>1. PICK f : Sums(s, f) /\ SumOf(s) = f[Len(s)]
    BY SumIs
  <1>2. Len(s) \in 0..Len(s)
    OBVIOUS
  <1> QED BY <1>1, <1>2 DEF Sums

--------------------------------------------------------------------------------
(* The equalisers and the channel to the callback.                          *)

(* The one equaliser that has these bands, sections and preamplification.   *)
Equaliser(b, s, p) == [bands : {b}, sections : {s}, preamp : {p}]

(* An equaliser whose sections are the designs of its bands, one for one    *)
(* (dsp/eq.cpp): the code keeps the two vectors apart and changes them call *)
(* by call.                                                                 *)
Designed(eq) ==
  /\ eq \in Equaliser(eq.bands, eq.sections, eq.preamp)
  /\ eq.bands \in Seq(FilterBands)
  /\ eq.sections = DesignAll(eq.bands)
  /\ eq.preamp \in Int

(* An equaliser put together from bands and their designs is one.           *)
LEMMA IsDesigned ==
  ASSUME NEW bands \in Seq(FilterBands), NEW p \in Int,
         NEW eq \in Equaliser(bands, DesignAll(bands), p)
  PROVE  Designed(eq) /\ eq.bands = bands
  BY DEF Designed, Equaliser

(* The sections a band may be designed to.                                  *)
Designs == {Design(b) : b \in FilterBands}

(* A design has a section per band.                                         *)
LEMMA DesignAllIs ==
  ASSUME NEW bands \in Seq(FilterBands)
  PROVE  /\ DesignAll(bands) \in Seq(Designs) /\ Len(DesignAll(bands)) = Len(bands)
         /\ \A i \in 1..Len(bands) : DesignAll(bands)[i] = Design(bands[i])
  <1>1. DesignAll(bands) \in [1..Len(bands) -> Designs] /\ Len(bands) \in Nat
    BY DEF DesignAll, Designs
  <1>2. \A i \in 1..Len(bands) : DesignAll(bands)[i] = Design(bands[i])
    BY DEF DesignAll
  <1> QED BY <1>1, <1>2, Listed

(* What designs the bands one by one is their design.                      *)
LEMMA DesignAllIsOnly ==
  ASSUME NEW bands \in Seq(FilterBands), NEW s \in Seq(Designs), Len(s) = Len(bands),
         \A i \in 1..Len(bands) : s[i] = Design(bands[i])
  PROVE  s = DesignAll(bands)
  <1>1. DOMAIN s = 1..Len(bands) /\ DOMAIN bands = 1..Len(bands) /\ s = [i \in DOMAIN s |-> s[i]]
    OBVIOUS
  <1> QED BY <1>1 DEF DesignAll

(* Replacing a band redesigns its section, and no other.                    *)
LEMMA SetBandDesigned ==
  ASSUME NEW eq, Designed(eq), NEW i \in DOMAIN eq.bands, NEW b \in FilterBands
  PROVE  Designed(SetBand(eq, i, b)) /\ Len(SetBand(eq, i, b).bands) = Len(eq.bands)
  <1> DEFINE B == eq.bands
             S == eq.sections
             P == eq.preamp
             C == [B EXCEPT ![i] = b]
             T == [S EXCEPT ![i] = Design(b)]
             new == [eq EXCEPT !.bands[i] = b, !.sections[i] = Design(b)]
  <1>1. /\ eq \in Equaliser(B, S, P) /\ B \in Seq(FilterBands) /\ S = DesignAll(B) /\ P \in Int
        /\ i \in DOMAIN B
    BY DEF Designed
  <1>2. SetBand(eq, i, b) \in {eq, new}
    BY DEF SetBand
  <1> HIDE DEF B, S, P
  <1>3. new \in Equaliser(C, T, P)
    BY <1>1 DEF Equaliser
  <1>4. C \in Seq(FilterBands) /\ Len(C) = Len(B)
    BY <1>1
  <1>5. T = DesignAll(C)
    BY <1>1 DEF DesignAll
  <1> HIDE DEF C, T, new
  <1>6. Designed(new) /\ new.bands = C
    BY <1>1, <1>3, <1>4, <1>5, IsDesigned
  <1> QED BY <1>2, <1>4, <1>6 DEF B

(* A band added at the end has its section at the end.                      *)
LEMMA PushBandDesigned ==
  ASSUME NEW eq, Designed(eq), NEW b \in FilterBands
  PROVE  Designed(PushBand(eq, b)) /\ Len(PushBand(eq, b).bands) = Len(eq.bands) + 1
  <1> DEFINE B == eq.bands
             S == eq.sections
             P == eq.preamp
             C == Append(B, b)
             T == Append(S, Design(b))
             new == PushBand(eq, b)
  <1>1. eq \in Equaliser(B, S, P) /\ B \in Seq(FilterBands) /\ S = DesignAll(B) /\ P \in Int
    BY DEF Designed
  <1> HIDE DEF B, S, P
  <1>2. new \in Equaliser(C, T, P)
    BY <1>1 DEF Equaliser, PushBand, B, S, P
  <1>3. C \in Seq(FilterBands) /\ Len(C) = Len(B) + 1
    BY <1>1
  <1>4. T = DesignAll(C)
    <2>1. /\ S \in Seq(Designs) /\ Len(S) = Len(B)
          /\ \A k \in 1..Len(B) : S[k] = Design(B[k])
      BY <1>1, DesignAllIs
    <2>2. T \in Seq(Designs) /\ Len(T) = Len(B) + 1
      BY <2>1 DEF Designs
    <2>3. \A k \in 1..Len(B) + 1 : T[k] = Design(C[k])
      BY <2>1, <1>1
    <2> QED BY <2>2, <2>3, <1>3, DesignAllIsOnly
  <1> HIDE DEF C, T, new
  <1>5. Designed(new) /\ new.bands = C
    BY <1>1, <1>2, <1>3, <1>4, IsDesigned
  <1> QED BY <1>3, <1>5 DEF B, new

(* A band removed takes its own section with it.                            *)
LEMMA RemoveBandDesigned ==
  ASSUME NEW eq, Designed(eq), NEW i \in DOMAIN eq.bands
  PROVE  Designed(RemoveBand(eq, i)) /\ Len(RemoveBand(eq, i).bands) = Len(eq.bands) - 1
  <1> DEFINE B == eq.bands
             S == eq.sections
             P == eq.preamp
             C == RemoveAt(B, i)
             T == RemoveAt(S, i)
             new == RemoveBand(eq, i)
  <1>1. /\ eq \in Equaliser(B, S, P) /\ B \in Seq(FilterBands) /\ S = DesignAll(B) /\ P \in Int
        /\ i \in 1..Len(B)
    BY DEF Designed
  <1> HIDE DEF B, S, P
  <1>2. new \in Equaliser(C, T, P)
    BY <1>1 DEF Equaliser, RemoveBand, B, S, P
  <1> HIDE DEF new
  <1>3. /\ C \in Seq(FilterBands) /\ Len(C) = Len(B) - 1
        /\ \A k \in 1..(Len(B) - 1) : C[k] = IF k < i THEN B[k] ELSE B[k + 1]
    BY <1>1, RemoveAtIs
  <1>4. T = DesignAll(C)
    <2>1. /\ S \in Seq(Designs) /\ Len(S) = Len(B)
          /\ \A k \in 1..Len(B) : S[k] = Design(B[k])
      BY <1>1, DesignAllIs
    <2>2. /\ T \in Seq(Designs) /\ Len(T) = Len(B) - 1
          /\ \A k \in 1..(Len(B) - 1) : T[k] = IF k < i THEN S[k] ELSE S[k + 1]
      <3>1. i \in 1..Len(S)
        BY <1>1, <2>1
      <3> QED BY <2>1, <3>1, RemoveAtIs
    <2> HIDE DEF C, T
    <2>3. \A k \in 1..(Len(B) - 1) : T[k] = Design(C[k])
      <3> TAKE k \in 1..(Len(B) - 1)
      <3>1. k \in 1..Len(B) /\ k + 1 \in 1..Len(B)
        BY <1>1
      <3> QED BY <3>1, <2>1, <2>2, <1>3
    <2> QED BY <2>2, <2>3, <1>3, DesignAllIsOnly
  <1> HIDE DEF C, T
  <1>5. Designed(new) /\ new.bands = C
    BY <1>1, <1>2, <1>3, <1>4, IsDesigned
  <1> QED BY <1>3, <1>5 DEF B, new

(* Setting all the bands designs them all.                                  *)
LEMMA SetBandsDesigned ==
  ASSUME NEW eq, Designed(eq), NEW bands \in Seq(FilterBands)
  PROVE  Designed(SetBands(eq, bands)) /\ SetBands(eq, bands).bands = bands
  <1>1. SetBands(eq, bands) \in Equaliser(bands, DesignAll(bands), eq.preamp)
    BY DEF Designed, Equaliser, SetBands
  <1>2. eq.preamp \in Int
    BY DEF Designed
  <1> QED BY <1>1, <1>2, IsDesigned

(* The preamplification has no part in the design.                          *)
LEMMA PreampDesigned ==
  ASSUME NEW eq, Designed(eq), NEW db \in Int
  PROVE  Designed([eq EXCEPT !.preamp = db]) /\ [eq EXCEPT !.preamp = db].bands = eq.bands
  <1>1. [eq EXCEPT !.preamp = db] \in Equaliser(eq.bands, DesignAll(eq.bands), db)
    BY DEF Designed, Equaliser
  <1> QED BY <1>1, IsDesigned DEF Designed

(* Flattening leaves as many bands, designed again.                         *)
LEMMA FlattenDesigned ==
  ASSUME NEW eq, Designed(eq)
  PROVE  Designed(Flatten(eq)) /\ Len(Flatten(eq).bands) = Len(eq.bands)
  <1> DEFINE flat == [i \in DOMAIN eq.bands |-> [eq.bands[i] EXCEPT !.gain = 0]]
  <1>1. flat \in Seq(FilterBands) /\ Len(flat) = Len(eq.bands)
    <2>1. \A b \in FilterBands : [b EXCEPT !.gain = 0] \in FilterBands
      BY DEF FilterBands
    <2>2. flat \in [1..Len(eq.bands) -> FilterBands] /\ Len(eq.bands) \in Nat
      BY <2>1 DEF Designed
    <2> QED BY <2>2, Listed
  <1> HIDE DEF flat
  <1>2. Designed(SetBands(eq, flat)) /\ SetBands(eq, flat).bands = flat
    BY <1>1, SetBandsDesigned
  <1>3. 0 \in Int
    OBVIOUS
  <1>4. /\ Designed([SetBands(eq, flat) EXCEPT !.preamp = 0])
        /\ [SetBands(eq, flat) EXCEPT !.preamp = 0].bands = flat
    BY <1>2, <1>3, PreampDesigned
  <1>5. Flatten(eq) = [SetBands(eq, flat) EXCEPT !.preamp = 0]
    BY DEF Flatten, flat
  <1> QED BY <1>1, <1>4, <1>5

(* A finite set of whole numbers with one in it has a greatest.             *)
LEMMA GreatestOfMany ==
  ASSUME NEW n \in Nat, NEW f \in [1..n -> Int], NEW x \in Int
  PROVE  Max({x} \cup {f[i] : i \in 1..n}) \in Int
  <1> DEFINE Upto(k) == {x} \cup {f[i] : i \in 1..k}
             Tops(k) == {g \in Upto(k) : \A y \in Upto(k) : g >= y}
             T == {k \in 0..n : Tops(k) # {}}
  <1>1. \A k \in 0..n : Upto(k) \subseteq Int
    OBVIOUS
  <1>2. 0 \in T
    <2>1. Upto(0) = {x} /\ 0 \in 0..n
      OBVIOUS
    <2>2. x \in Tops(0)
      BY <2>1
    <2> HIDE DEF Tops
    <2> QED BY <2>1, <2>2
  <1>3. ASSUME NEW k \in 1..n, k - 1 \in T
        PROVE  k \in T
    <2>1. k \in 0..n /\ k - 1 \in 0..n /\ f[k] \in Int
      OBVIOUS
    <2>2. Upto(k) = Upto(k - 1) \cup {f[k]}
      <3>1. 1..k = (1..(k - 1)) \cup {k}
        BY <2>1
      <3> QED BY <3>1
    <2>3. PICK g \in Tops(k - 1) : TRUE
      BY <1>3
    <2>4. g \in Upto(k - 1) /\ \A y \in Upto(k - 1) : g >= y
      BY <2>3
    <2>5. Upto(k - 1) \subseteq Int
      BY <1>1, <2>1
    <2> HIDE DEF Upto
    <2>6. CASE g >= f[k]
      <3>1. g \in Tops(k)
        BY <2>2, <2>4, <2>6
      <3> QED BY <2>1, <3>1
    <2>7. CASE ~(g >= f[k])
      <3>1. \A y \in Upto(k - 1) : f[k] >= y
        BY <2>1, <2>4, <2>5, <2>7
      <3>2. f[k] \in Tops(k)
        BY <2>1, <2>2, <3>1
      <3> QED BY <2>1, <3>2
    <2> QED BY <2>6, <2>7
  <1>4. n \in T
    <2>1. n \in 0..n
      OBVIOUS
    <2> HIDE DEF T
    <2> QED BY <1>2, <1>3, <2>1, Climbs
  <1>5. PICK g \in Upto(n) : \A y \in Upto(n) : g >= y
    BY <1>4
  <1>6. Max(Upto(n)) \in Upto(n)
    <2> HIDE DEF Upto
    <2> QED BY <1>5 DEF Max
  <1>7. n \in 0..n
    OBVIOUS
  <1> QED BY <1>1, <1>6, <1>7

(* The level at every place is a whole number, and so is the greatest.      *)
LEMMA PeakGainIs ==
  ASSUME NEW eq, Designed(eq)
  PROVE  PeakGain(eq) \in Int
  <1> DEFINE S == eq.sections
             n == Len(S)
             At(hz) == [i \in DOMAIN S |-> IF S[i].hz = hz THEN S[i].gain ELSE 0]
             f == [i \in 1..n |-> LevelAt(eq, S[i].hz)]
  <1>1. eq.preamp \in Int /\ S \in Seq(Designs)
    BY DesignAllIs DEF Designed
  <1>2. \A d \in Designs : d.gain \in Int
    BY DEF Designs, Design, Identity, FilterBands
  <1>3. n \in Nat /\ DOMAIN S = 1..n /\ \A i \in 1..n : S[i].gain \in Int
    <2>1. n \in Nat /\ DOMAIN S = 1..n /\ \A i \in 1..n : S[i] \in Designs
      BY <1>1
    <2> HIDE DEF S, n
    <2> QED BY <1>2, <2>1
  <1>4. \A hz : LevelAt(eq, hz) \in Int
    <2> TAKE hz
    <2>1. At(hz) \in Seq(Int)
      <3>1. At(hz) \in [1..n -> Int]
        <4> HIDE DEF S, n
        <4> QED BY <1>3
      <3> HIDE DEF At, n
      <3> QED BY <1>3, <3>1, Listed
    <2> HIDE DEF At
    <2>2. SumOf(At(hz)) \in Int
      BY <2>1, SumIsWhole
    <2>3. LevelAt(eq, hz) = eq.preamp + SumOf(At(hz))
      BY DEF LevelAt, At
    <2> QED BY <1>1, <2>2, <2>3
  <1>5. f \in [1..n -> Int]
    BY <1>4
  <1>6. PeakGain(eq) = Max({eq.preamp} \cup {f[i] : i \in 1..n})
    <2>1. {f[i] : i \in 1..n} = {LevelAt(eq, S[i].hz) : i \in DOMAIN S}
      <3> HIDE DEF S, n
      <3> QED BY <1>3
    <2> QED BY <2>1 DEF PeakGain
  <1> HIDE DEF f, n
  <1> QED BY <1>1, <1>3, <1>5, <1>6, GreatestOfMany

(* Trimming changes nothing but the preamplification.                       *)
LEMMA TrimDesigned ==
  ASSUME NEW eq, Designed(eq)
  PROVE  Designed(TrimToUnity(eq)) /\ TrimToUnity(eq).bands = eq.bands
  <1>1. PeakGain(eq) \in Int
    BY PeakGainIs
  <1>2. eq.preamp - PeakGain(eq) \in Int
    BY <1>1 DEF Designed
  <1>3. TrimToUnity(eq) \in {eq, [eq EXCEPT !.preamp = eq.preamp - PeakGain(eq)]}
    BY DEF TrimToUnity
  <1> QED BY <1>2, <1>3, PreampDesigned

(* The modes that have an equaliser.                                        *)
Held == {"Graphic", "Parametric"}

(* Each equaliser is designed from its bands.                              *)
BandsInv ==
  /\ eqMode \in EqModes
  /\ equalisers \in [Graphic : {equalisers.Graphic}, Parametric : {equalisers.Parametric}]
  /\ \A m \in Held : Designed(equalisers[m])

(* What was published last is made from them, and the callback runs that   *)
(* or something older.                                                     *)
ChannelInv ==
  /\ generation \in Nat
  /\ coefficients = FromEqualiser(generation, eqMode, equalisers)
  /\ heard.generation \in 0..generation
  /\ heard.generation = generation => heard = coefficients

(* The inductive invariant of the equalisers and of the channel.            *)
EqInv == BandsInv /\ ChannelInv

(* The graphic equaliser, which no fit fills, has no more bands than the    *)
(* coefficients have places.                                                *)
Room(eqs) == Len(eqs.Graphic.bands) <= MaxEqBands

(* What has just been published is made from the equalisers as they are.    *)
LEMMA PublishKeeps ==
  ASSUME ChannelInv, PublishEq
  PROVE  ChannelInv'
  BY DEF ChannelInv, PublishEq, FromEqualiser

(* An edit that leaves the active equaliser designed keeps the invariant,   *)
(* and the room if an edit of the graphic does.                             *)
LEMMA EditKeeps ==
  ASSUME EqInv, NEW eq, Designed(eq), Edit(eq), Room(equalisers),
         eqMode = "Graphic" => Len(eq.bands) <= MaxEqBands
  PROVE  EqInv' /\ Room(equalisers)'
  <1>1. eqMode \in Held /\ eqMode' = eqMode
    BY DEF Edit, EqInv, BandsInv, EqModes, Held
  <1>2. /\ equalisers' \in [Graphic : {equalisers'.Graphic}, Parametric : {equalisers'.Parametric}]
        /\ \A m \in Held : equalisers'[m] = IF m = eqMode THEN eq ELSE equalisers[m]
    BY <1>1 DEF Edit, EqInv, BandsInv, Held
  <1>3. BandsInv'
    BY <1>1, <1>2 DEF BandsInv, EqInv, Held
  <1>4. ChannelInv'
    BY PublishKeeps DEF EqInv, Edit
  <1>5. Room(equalisers')
    BY <1>2 DEF Room, Held
  <1> QED BY <1>3, <1>4, <1>5 DEF EqInv

(* The equaliser that a call edits is designed.                             *)
LEMMA ActiveDesigned ==
  ASSUME EqInv, eqMode # "Off"
  PROVE  Designed(ActiveEq) /\ ActiveEq.bands \in Seq(FilterBands) /\ eqMode \in Held
  BY DEF EqInv, BandsInv, EqModes, ActiveEq, Held, Designed

(* What every edit leaves is designed, and has no more bands than there    *)
(* were or than there is room for.                                         *)
LEMMA EditsAre ==
  ASSUME EqInv,
         EqSetBand \/ EqSetGain \/ EqAddBand \/ EqRemoveBand \/ EqFlatten \/ EqTrim \/ EqSetPreamp
  PROVE  \E eq : /\ Designed(eq) /\ Edit(eq)
                 /\ Len(ActiveEq.bands) <= MaxEqBands => Len(eq.bands) <= MaxEqBands
  <1>0. MaxEqBands \in Nat /\ BandChoices \subseteq FilterBands /\ Gains \subseteq Int
    BY EqualiserAssumption
  <1>1. eqMode # "Off"
    BY DEF EqSetBand, EqSetGain, EqAddBand, EqRemoveBand, EqFlatten, EqTrim, EqSetPreamp
  <1>2. /\ Designed(ActiveEq) /\ ActiveEq.bands \in Seq(FilterBands)
        /\ Len(ActiveEq.bands) \in Nat /\ DOMAIN ActiveEq.bands = 1..Len(ActiveEq.bands)
    BY <1>1, ActiveDesigned
  <1>3. CASE EqSetBand
    <2>1. PICK i \in DOMAIN ActiveEq.bands, b \in BandChoices : Edit(SetBand(ActiveEq, i, b))
      BY <1>3 DEF EqSetBand
    <2> QED BY <1>0, <1>2, <2>1, SetBandDesigned
  <1>4. CASE EqSetGain
    <2>1. PICK i \in DOMAIN ActiveEq.bands, g \in Gains : Edit(SetGain(ActiveEq, i, g))
      BY <1>4 DEF EqSetGain
    <2>2. [ActiveEq.bands[i] EXCEPT !.gain = g] \in FilterBands
      <3>1. ActiveEq.bands[i] \in FilterBands /\ g \in Int
        BY <1>0, <1>2, <2>1
      <3> QED BY <3>1 DEF FilterBands
    <2> QED BY <1>2, <2>1, <2>2, SetBandDesigned DEF SetGain
  <1>5. CASE EqAddBand
    <2>1. PICK b \in BandChoices : Edit(PushBand(ActiveEq, b)) /\ Len(ActiveEq.bands) < MaxEqBands
      BY <1>5 DEF EqAddBand
    <2> QED BY <1>0, <1>2, <2>1, PushBandDesigned
  <1>6. CASE EqRemoveBand
    <2>1. PICK i \in DOMAIN ActiveEq.bands : Edit(RemoveBand(ActiveEq, i))
      BY <1>6 DEF EqRemoveBand
    <2> QED BY <1>0, <1>2, <2>1, RemoveBandDesigned
  <1>7. CASE EqFlatten
    BY <1>2, <1>7, FlattenDesigned DEF EqFlatten
  <1>8. CASE EqTrim
    BY <1>2, <1>8, TrimDesigned DEF EqTrim
  <1>9. CASE EqSetPreamp
    <2>1. PICK db \in Gains : Edit([ActiveEq EXCEPT !.preamp = db])
      BY <1>9 DEF EqSetPreamp
    <2> QED BY <1>0, <1>2, <2>1, PreampDesigned
  <1> QED BY <1>3, <1>4, <1>5, <1>6, <1>7, <1>8, <1>9

(* The bands of a fit are bands.                                            *)
LEMMA FitsAre ==
  ASSUME NEW bands \in Fits
  PROVE  bands \in Seq(FilterBands)
  <1> DEFINE Peaks == {b \in BandChoices : b.kind = "Peaking" /\ ~Transparent(b)}
  <1>1. PICK asked \in FiltersAsked :
          \E n \in 0..Lesser(asked, MostFilters) : bands \in [1..n -> Peaks]
    BY DEF Fits
  <1>2. PICK n \in 0..Lesser(asked, MostFilters) : bands \in [1..n -> Peaks]
    BY <1>1
  <1>3. asked \in Nat /\ MostFilters \in Nat /\ Peaks \subseteq FilterBands
    BY EqualiserAssumption
  <1>4. n \in Nat
    BY <1>3 DEF Lesser
  <1> HIDE DEF Peaks
  <1>5. bands \in [1..n -> FilterBands]
    BY <1>2, <1>3
  <1> QED BY <1>4, <1>5, Listed

(* A fit that is adopted replaces the parametric equaliser, whole.          *)
LEMMA AdoptFitKeeps ==
  ASSUME EqInv, NEW bands \in Fits, AdoptFit(bands)
  PROVE  EqInv' /\ (Room(equalisers) => Room(equalisers)')
  <1> DEFINE eq == SetBands(equalisers.Parametric, bands)
  <1>1. Designed(equalisers.Parametric) /\ bands \in Seq(FilterBands)
    BY FitsAre DEF EqInv, BandsInv, Held
  <1>2. Designed(eq) /\ eq.bands = bands
    BY <1>1, SetBandsDesigned
  <1>3. /\ equalisers' \in [Graphic : {equalisers'.Graphic}, Parametric : {equalisers'.Parametric}]
        /\ equalisers'.Graphic = equalisers.Graphic /\ equalisers'.Parametric = eq
    BY DEF AdoptFit, EqInv, BandsInv
  <1> HIDE DEF eq
  <1>4. BandsInv'
    BY <1>2, <1>3 DEF AdoptFit, BandsInv, EqInv, EqModes, Held
  <1>5. ChannelInv'
    BY PublishKeeps DEF EqInv, AdoptFit
  <1>6. Room(equalisers) => Room(equalisers')
    BY <1>3 DEF Room
  <1> QED BY <1>4, <1>5, <1>6 DEF EqInv

(* The equalisers of a new session.                                         *)
FreshEqs == [Graphic |-> NewEqualiser(FlatBands), Parametric |-> NewEqualiser(<<>>)]

(* The equalisers of a new session are designed and fit.                    *)
LEMMA FreshDesigned ==
  /\ Designed(FreshEqs.Graphic) /\ Designed(FreshEqs.Parametric)
  /\ Room(FreshEqs)
  <1>1. \A bands \in Seq(FilterBands) :
          NewEqualiser(bands) \in Equaliser(bands, DesignAll(bands), 0)
    BY DEF NewEqualiser, Equaliser
  <1>2. FlatBands \in Seq(FilterBands) /\ Len(FlatBands) = Len(OctaveCentres)
    <2>1. \A hz \in Int : Peaking(hz, 0) \in FilterBands
      BY DEF Peaking, FilterBands, FilterKinds
    <2>2. OctaveCentres \in Seq(Int)
      BY EqualiserAssumption
    <2>3. FlatBands \in [1..Len(OctaveCentres) -> FilterBands] /\ Len(OctaveCentres) \in Nat
      BY <2>1, <2>2 DEF FlatBands
    <2> QED BY <2>3, Listed
  <1>3. <<>> \in Seq(FilterBands) /\ Len(<<>>) = 0
    BY EmptySeq
  <1>4. /\ Designed(FreshEqs.Graphic) /\ FreshEqs.Graphic.bands = FlatBands
        /\ Designed(FreshEqs.Parametric) /\ FreshEqs.Parametric.bands = <<>>
    <2>1. 0 \in Int
      OBVIOUS
    <2> QED BY <1>1, <1>2, <1>3, <2>1, IsDesigned DEF FreshEqs
  <1> QED BY <1>2, <1>4, EqualiserAssumption DEF Room

(* The invariant holds of a session that starts,                            *)
LEMMA EqInitHolds ==
  ASSUME EqInit
  PROVE  EqInv /\ Room(equalisers)
  <1>1. equalisers = FreshEqs
    BY DEF EqInit, FreshEqs
  <1>2. BandsInv
    BY <1>1, FreshDesigned DEF BandsInv, EqInit, EqModes, Held, FreshEqs
  <1>3. ChannelInv
    BY DEF ChannelInv, EqInit, FromEqualiser
  <1> QED BY <1>1, <1>2, <1>3, FreshDesigned DEF EqInv

(* and of one that is started in the place of another.                      *)
LEMMA NewSessionEqInv ==
  ASSUME NewSession
  PROVE  EqInv' /\ Room(equalisers)'
  <1>1. equalisers' = FreshEqs
    BY DEF NewSession, FreshEqs
  <1>2. BandsInv'
    BY <1>1, FreshDesigned DEF BandsInv, NewSession, EqModes, Held, FreshEqs
  <1>3. ChannelInv'
    BY DEF ChannelInv, NewSession, FromEqualiser
  <1> QED BY <1>1, <1>2, <1>3, FreshDesigned DEF EqInv

(* The steps that touch the equalisers.                                    *)
LEMMA EqTouched ==
  ASSUME [Next]_vars
  PROVE  \/ EqCall \/ EqProcess \/ NewSession
         \/ \E bands \in Fits : AdoptFit(bands)
         \/ UNCHANGED eqVars
  <1>1. CASE EqCall
    BY <1>1
  <1>2. CASE TargetCall \/ DrawCall \/ TraceCall \/ Capture \/ Align
    BY <1>2 DEF TargetCall, DrawCall, TraceCall, Capture, Align, sessionVars
  <1>3. CASE Optimise
    BY <1>3 DEF Optimise
  <1>4. CASE SaveSettings \/ LoadSettings \/ SaveMeasurement \/ ExportFilters
    BY <1>4 DEF SaveSettings, LoadSettings, SaveMeasurement, ExportFilters, sessionVars
  <1>5. CASE RestartSession \/ KilledWhileSaving
    BY <1>5 DEF RestartSession, KilledWhileSaving
  <1>6. CASE Callback \/ Worker
    BY <1>6 DEF Callback, Worker
  <1>7. CASE UNCHANGED vars
    BY <1>7 DEF vars, sessionVars
  <1> QED BY <1>1, <1>2, <1>3, <1>4, <1>5, <1>6, <1>7 DEF Next

(* Every call on the session, every callback and every frame keeps it.      *)
LEMMA EqSteps ==
  ASSUME EqInv, Room(equalisers), [Next]_vars
  PROVE  EqInv' /\ Room(equalisers)'
  <1>1. CASE EqCall
    <2>1. CASE \E mode \in EqModes : SetEqMode(mode)
      <3>1. BandsInv' /\ equalisers' = equalisers /\ PublishEq
        BY <2>1 DEF SetEqMode, EqInv, BandsInv
      <3> QED BY <3>1, PublishKeeps DEF EqInv, Room
    <2>2. CASE ~\E mode \in EqModes : SetEqMode(mode)
      <3>1. \/ EqSetBand \/ EqSetGain \/ EqAddBand \/ EqRemoveBand
            \/ EqFlatten \/ EqTrim \/ EqSetPreamp
        BY <1>1, <2>2 DEF EqCall
      <3>2. PICK eq : /\ Designed(eq) /\ Edit(eq)
                      /\ Len(ActiveEq.bands) <= MaxEqBands => Len(eq.bands) <= MaxEqBands
        BY <3>1, EditsAre
      <3>3. eqMode = "Graphic" => Len(ActiveEq.bands) <= MaxEqBands
        BY DEF Room, ActiveEq
      <3> QED BY <3>2, <3>3, EditKeeps
    <2> QED BY <2>1, <2>2
  <1>2. CASE EqProcess
    BY <1>2 DEF EqProcess, EqInv, BandsInv, ChannelInv, Room, FromEqualiser
  <1>3. CASE NewSession
    BY <1>3, NewSessionEqInv
  <1>4. CASE \E bands \in Fits : AdoptFit(bands)
    BY <1>4, AdoptFitKeeps
  <1>5. CASE UNCHANGED eqVars
    BY <1>5 DEF eqVars, EqInv, BandsInv, ChannelInv, Room
  <1> QED BY <1>1, <1>2, <1>3, <1>4, <1>5, EqTouched

(* Through any calls, the sections of an equaliser are the designs of its   *)
(* bands, what was published last is made from them, and the callback runs  *)
(* that or something older (session.cpp, eq.cpp, snapshot.hpp).             *)
THEOREM EqualisersDesigned == Spec => [](EqInv /\ Room(equalisers))
  <1> DEFINE Inv == EqInv /\ Room(equalisers)
  <1>1. Init => Inv
    BY EqInitHolds DEF Init, SessionInit
  <1>2. Inv /\ [Next]_vars => Inv'
    BY EqSteps
  <1> HIDE DEF Inv
  <1>3. Spec => []Inv
    BY <1>1, <1>2, PTL DEF Spec
  <1> QED BY <1>3 DEF Inv

(* The coefficients are those of the first sections shown.                  *)
LEMMA CaughtUp ==
  ASSUME EqInv, Room(equalisers)
  PROVE  HeardIsShown
  <1> SUFFICES ASSUME heard.generation = generation PROVE HeardIsShown
    BY DEF HeardIsShown
  <1>1. heard = FromEqualiser(generation, eqMode, equalisers) /\ MaxEqBands \in Nat
    BY EqualiserAssumption DEF EqInv, ChannelInv
  <1>2. CASE eqMode = "Off"
    BY <1>1, <1>2 DEF FromEqualiser, Active, HeardIsShown, Lesser
  <1>3. CASE eqMode # "Off"
    <2> DEFINE bands == equalisers[eqMode].bands
               count == Lesser(Len(bands), MaxEqBands)
    <2>1. /\ bands \in Seq(FilterBands)
          /\ equalisers[eqMode].sections = DesignAll(bands)
      BY <1>3 DEF EqInv, BandsInv, EqModes, Held, Designed
    <2>2. /\ Len(DesignAll(bands)) = Len(bands)
          /\ \A i \in 1..Len(bands) : DesignAll(bands)[i] = Design(bands[i])
      BY <2>1, DesignAllIs
    <2>3. count \in 0..MaxEqBands /\ count <= Len(bands) /\ Len(bands) \in Nat
      BY <1>1, <2>1 DEF Lesser
    <2>4. /\ heard.trim = equalisers[eqMode].preamp
          /\ heard.count = count
          /\ heard.sections = [i \in 1..MaxEqBands |->
                                 IF i <= count THEN Design(bands[i]) ELSE Identity]
      BY <1>1, <1>3 DEF FromEqualiser, Active
    <2>5. count < Len(bands) => eqMode = "Parametric"
      <3>1. eqMode = "Graphic" => Len(bands) <= MaxEqBands
        BY DEF Room
      <3>2. eqMode = "Graphic" => count = Len(bands)
        BY <1>1, <2>3, <3>1 DEF Lesser
      <3>3. eqMode \in {"Graphic", "Parametric"}
        BY <1>3 DEF EqInv, BandsInv, EqModes
      <3> QED BY <2>3, <3>2, <3>3
    <2> HIDE DEF bands, count
    <2>6. \A i \in 1..count : heard.sections[i] = DesignAll(bands)[i]
      BY <1>1, <2>2, <2>3, <2>4
    <2> QED BY <1>3, <2>1, <2>2, <2>4, <2>5, <2>6 DEF HeardIsShown, Active, count
  <1> QED BY <1>2, <1>3

(* Whatever the owner calls, and however many bands a fit brings, the audio *)
(* thread, once caught up, runs the first MaxEqBands sections shown; all of *)
(* them unless a fit brought the parametric equaliser more than that: the   *)
(* calls that add a band check for room, the one that fits does not.        *)
THEOREM ShownIsAlwaysHeard == Spec => []HeardIsShown
  BY EqualisersDesigned, CaughtUp, PTL

--------------------------------------------------------------------------------
(* The target and the fits made to it.                                      *)

(* A target has a shape and an offset.                                      *)
TargetInv == target \in [shape : {target.shape}, offset : {target.offset}]

(* The invariant of the fits.                                               *)
FitInv == TargetInv /\ FitIsAligned

(* Aligning leaves the shape, and an offset found from it where there is   *)
(* something to align.                                                     *)
LEMMA AlignedTo ==
  ASSUME TargetInv, NEW frame, NEW layout, AlignTarget(frame, layout)
  PROVE  /\ TargetInv'
         /\ InBand(layout) => target'.offset = Aligned(target'.shape, frame, layout)
  BY DEF TargetInv, AlignTarget

(* No call moves the target that a fit was made to; a fit is always made to *)
(* a target just aligned.                                                   *)
LEMMA FitSteps ==
  ASSUME FitInv, [Next]_vars
  PROVE  FitInv'
  <1> USE DEF FitInv
  <1>1. CASE UNCHANGED <<target, fitted>>
    BY <1>1 DEF TargetInv, FitIsAligned, InBand, Aligned
  <1>2. CASE TargetCall
    <2>1. TargetInv'
      BY <1>2 DEF TargetCall, ApplyTarget, LoadTarget, TargetInv
    <2> QED BY <1>2, <2>1 DEF TargetCall, FitIsAligned, InBand, Aligned
  <1>3. CASE Align
    <2>1. TargetInv'
      BY <1>3, AlignedTo DEF Align, TargetInv
    <2> QED BY <1>3, <2>1 DEF Align, FitIsAligned, InBand, Aligned
  <1>4. CASE Optimise
    <2>1. CASE published = 0
      BY <1>4, <2>1 DEF Optimise, TargetInv, FitIsAligned, InBand, Aligned
    <2>2. CASE published # 0
      <3>1. /\ AlignTarget(published, columnHz')
            /\ fitted' = [frame |-> published, layout |-> columnHz', target |-> target']
        BY <1>4, <2>2 DEF Optimise
      <3>2. TargetInv' /\ (InBand(columnHz') =>
                             target'.offset = Aligned(target'.shape, published, columnHz'))
        BY <3>1, AlignedTo
      <3> QED BY <3>1, <3>2 DEF FitIsAligned
    <2> QED BY <2>1, <2>2
  <1>5. CASE NewSession
    BY <1>5 DEF NewSession, TargetInv, FitIsAligned
  <1>6. CASE Next
    <2>1. CASE EqCall \/ DrawCall \/ TraceCall \/ Capture
      BY <1>1, <2>1 DEF EqCall, DrawCall, TraceCall, Capture, sessionVars
    <2>2. CASE SaveSettings \/ LoadSettings \/ SaveMeasurement \/ ExportFilters
      BY <1>1, <2>2 DEF SaveSettings, LoadSettings, SaveMeasurement, ExportFilters, sessionVars
    <2>3. CASE RestartSession \/ KilledWhileSaving
      BY <1>5, <2>3 DEF RestartSession, KilledWhileSaving
    <2>4. CASE Callback \/ Worker
      BY <1>1, <2>4 DEF Callback, Worker
    <2> QED BY <1>2, <1>3, <1>4, <1>6, <2>1, <2>2, <2>3, <2>4 DEF Next
  <1> QED BY <1>1, <1>6 DEF vars, sessionVars

(* A fit corrects towards a target at the level of the frame it corrects,   *)
(* whatever was typed, loaded or aligned before and whatever frames are     *)
(* published during the calls (optimiser.cpp).                              *)
THEOREM FitsAreAligned == Spec => []FitIsAligned
  <1>1. Init => FitInv
    BY DEF Init, SessionInit, TargetInit, FitInv, TargetInv, FitIsAligned
  <1>2. FitInv /\ [Next]_vars => FitInv'
    BY FitSteps
  <1>3. FitInv => FitIsAligned
    BY DEF FitInv
  <1> QED BY <1>1, <1>2, <1>3, PTL DEF Spec

--------------------------------------------------------------------------------
(* The curves of the plot.                                                  *)

(* The cached frequencies are those of the plot.                           *)
PlotInv ==
  /\ plot.length \in Nat \ {0}
  /\ columnHz.columns # 0 => columnHz = Layout(plot.span, plot.length, columnHz.columns)

(* The frequencies asked for, cached or not, are those of the plot.         *)
LEMMA ColumnsAre ==
  ASSUME PlotInv, NEW wanted \in Nat \ {0}
  PROVE  ColumnsHz(wanted) = Layout(plot.span, plot.length, wanted)
  BY DEF PlotInv, ColumnsHz, Layout

(* A curve has the columns of the plot, or what the host has room for.      *)
LEMMA FewerIs ==
  ASSUME NEW capacity \in Capacities, PlotInv
  PROVE  Fewer(plot.length, capacity) \in Nat \ {0}
         /\ Fewer(plot.length, capacity) \in {plot.length, capacity}
  BY PlotAssumption DEF Fewer, PlotInv

(* Building the frequencies, and nothing else of the plot.                 *)
LEMMA ColumnsKeep ==
  ASSUME PlotInv, NEW wanted \in Nat \ {0}, columnHz' = ColumnsHz(wanted), UNCHANGED plot
  PROVE  PlotInv'
  BY ColumnsAre DEF PlotInv, Layout

(* A change of the plot forgets the frequencies of the old one.             *)
LEMMA DrawKeeps ==
  ASSUME PlotInv, DrawCall
  PROVE  PlotInv'
  <1>1. CASE SetPlot
    BY <1>1, PlotAssumption DEF SetPlot, PlotInv, NoColumns, Layout
  <1>2. CASE CopyReduced \/ CopyTransfer \/ CopySpectrogram \/ (\E frame : CopyStored(frame))
    <2>1. UNCHANGED <<plot, columnHz>>
      BY <1>2 DEF CopyReduced, CopyTransfer, CopySpectrogram, CopyStored
    <2> QED BY <2>1 DEF PlotInv, Layout
  <1>3. CASE CopyComputed("target") \/ CopyComputed("eq") \/ CopyCorrected
    <2>1. PICK capacity \in Capacities : columnHz' = ColumnsHz(Fewer(plot.length, capacity))
                                         /\ UNCHANGED plot
      BY <1>3 DEF CopyComputed, CopyCorrected
    <2> QED BY <2>1, FewerIs, ColumnsKeep
  <1> QED BY <1>1, <1>2, <1>3 DEF DrawCall

(* Every step keeps the cache right.                                        *)
LEMMA PlotSteps ==
  ASSUME PlotInv, [Next]_vars
  PROVE  PlotInv'
  <1>1. CASE UNCHANGED <<plot, columnHz>>
    BY <1>1 DEF PlotInv, Layout
  <1>2. CASE MeasuredAtColumns
    <2>1. plot.length \in Nat \ {0}
      BY DEF PlotInv
    <2> QED BY <1>2, <2>1, ColumnsKeep DEF MeasuredAtColumns
  <1>3. CASE NewSession
    BY <1>3, PlotAssumption DEF NewSession, PlotInv, NoColumns, Layout
  <1>4. CASE Next
    <2>1. CASE EqCall \/ TargetCall \/ TraceCall \/ Capture
      BY <1>1, <2>1 DEF EqCall, TargetCall, TraceCall, Capture, TakeFrame, sessionVars, plotVars
    <2>2. CASE SaveSettings \/ LoadSettings \/ SaveMeasurement \/ ExportFilters
      BY <1>1, <2>2 DEF SaveSettings, LoadSettings, SaveMeasurement, TakeFrame, ExportFilters,
                        sessionVars, plotVars
    <2>3. CASE RestartSession \/ KilledWhileSaving
      BY <1>3, <2>3 DEF RestartSession, KilledWhileSaving
    <2>4. CASE Callback \/ Worker
      BY <1>1, <2>4 DEF Callback, Worker, PublishFrame, plotVars
    <2>5. CASE Align \/ Optimise
      BY <1>2, <2>5 DEF Align, Optimise
    <2> QED BY <1>4, DrawKeeps, <2>1, <2>2, <2>3, <2>4, <2>5 DEF Next
  <1> QED BY <1>1, <1>4 DEF vars, sessionVars, plotVars

(* What CurvesLineUp says of a step.                                        *)
LinedUp ==
  drawn' # drawn /\ drawn'.curve # "none" =>
    /\ drawn'.layout.span = plot.span
    /\ drawn'.layout.length = IF drawn'.curve = "spectrogram"
                              THEN drawn'.layout.columns ELSE plot.length
    /\ drawn'.layout.columns \in {plot.length} \cup Capacities

(* A curve handed out is one that was just drawn, on the plot as it is.     *)
LEMMA CurvesAre ==
  ASSUME PlotInv, [Next]_vars
  PROVE  LinedUp
  <1> SUFFICES ASSUME drawn' # drawn, drawn'.curve # "none"
               PROVE  LinedUp
    BY DEF LinedUp
  <1>1. DrawCall
    <2>1. ~(EqCall \/ TargetCall \/ TraceCall \/ Capture)
      BY DEF EqCall, TargetCall, TraceCall, Capture, TakeFrame, sessionVars, plotVars
    <2>2. ~(SaveSettings \/ LoadSettings \/ SaveMeasurement \/ ExportFilters)
      BY DEF SaveSettings, LoadSettings, SaveMeasurement, TakeFrame, ExportFilters,
             sessionVars, plotVars
    <2>3. ~(RestartSession \/ KilledWhileSaving)
      BY DEF RestartSession, KilledWhileSaving, NewSession
    <2>4. ~(Callback \/ Worker)
      BY DEF Callback, Worker, PublishFrame, plotVars
    <2>5. ~(Align \/ Optimise)
      BY DEF Align, Optimise, MeasuredAtColumns
    <2> QED BY <2>1, <2>2, <2>3, <2>4, <2>5 DEF Next, vars, sessionVars, plotVars
  <1>2. ~SetPlot
    BY DEF SetPlot
  <1>3. ASSUME NEW capacity \in Capacities, NEW frame,
               NEW name \in {"reduced", "transfer", "stored", "target", "eq", "corrected"},
               drawn' = Curve(name, frame, OnAxis(Fewer(plot.length, capacity)))
        PROVE  LinedUp
    BY <1>3, FewerIs DEF LinedUp, Curve, OnAxis, Layout
  <1>4. CASE CopyReduced
    BY <1>3, <1>4 DEF CopyReduced
  <1>5. CASE CopyTransfer
    BY <1>3, <1>5 DEF CopyTransfer
  <1>6. CASE \E frame : CopyStored(frame)
    BY <1>3, <1>6 DEF CopyStored
  <1>7. \A capacity \in Capacities :
          ColumnsHz(Fewer(plot.length, capacity)) = OnAxis(Fewer(plot.length, capacity))
    BY FewerIs, ColumnsAre DEF OnAxis
  <1>8. CASE CopyComputed("target") \/ CopyComputed("eq")
    BY <1>3, <1>7, <1>8 DEF CopyComputed
  <1>9. CASE CopyCorrected
    BY <1>3, <1>7, <1>9 DEF CopyCorrected
  <1>10. CASE CopySpectrogram
    <2>1. PICK rows \in Capacities :
            /\ drawn' = Curve("spectrogram", published,
                              Layout(spectrogramAxis'.span, spectrogramAxis'.length, rows))
            /\ spectrogramAxis'.span = plot.span /\ spectrogramAxis'.length = rows
      BY <1>10 DEF CopySpectrogram
    <2> QED BY <2>1 DEF LinedUp, Curve, Layout
  <1> QED BY <1>1, <1>2, <1>4, <1>5, <1>6, <1>8, <1>9, <1>10 DEF DrawCall

(* Every curve handed to the host lies on the columns of the plot as it is  *)
(* at that moment, through any changes of the plot and however the          *)
(* frequencies were come by (session.cpp, frames.cpp, axis.cpp).            *)
THEOREM CurvesAlwaysLineUp == Spec => CurvesLineUp
  <1>1. Init => PlotInv
    BY PlotAssumption DEF Init, SessionInit, PlotInit, PlotInv, NoColumns, Layout
  <1>2. PlotInv /\ [Next]_vars => PlotInv'
    BY PlotSteps
  <1>3. PlotInv /\ [Next]_vars => [LinedUp]_drawn
    BY CurvesAre
  <1> QED BY <1>1, <1>2, <1>3, PTL DEF Spec, CurvesLineUp, LinedUp

--------------------------------------------------------------------------------
(* The captured traces.                                                     *)

(* Names that were asked for or made up.                                    *)
AnyName == [text : STRING \cup {"Trace"}, numbers : Seq(Nat)]

(* A name with a number added is a name, and the number can be read off.    *)
LEMMA NumberedIs ==
  ASSUME NEW base \in AnyName, NEW k \in Nat
  PROVE  /\ Numbered(base, k) \in AnyName
         /\ Len(Numbered(base, k).numbers) = Len(base.numbers) + 1
         /\ Numbered(base, k).numbers[Len(base.numbers) + 1] = k
  <1> DEFINE numbers == Append(base.numbers, k)
  <1>1. base.numbers \in Seq(Nat)
    BY DEF AnyName
  <1>2. numbers \in Seq(Nat) /\ Len(numbers) = Len(base.numbers) + 1
    BY <1>1, AppendProperties
  <1>3. numbers[Len(base.numbers) + 1] = k
    BY <1>1, AppendProperties
  <1> HIDE DEF numbers
  <1>4. Numbered(base, k) = [base EXCEPT !.numbers = numbers]
    BY DEF Numbered, numbers
  <1>5. Numbered(base, k) \in AnyName /\ Numbered(base, k).numbers = numbers
    BY <1>2, <1>4 DEF AnyName
  <1> QED BY <1>2, <1>3, <1>5

(* What is asked for, or a trace without a name, is a name.                 *)
LEMMA BaseIs ==
  ASSUME NEW asked \in Names
  PROVE  Base(asked) \in AnyName
  <1>0. <<>> \in Seq(Nat)
    OBVIOUS
  <1>2. [text |-> "Trace", numbers |-> <<>>] \in AnyName
    BY <1>0 DEF AnyName
  <1>3. asked \in AnyName
    BY DEF Names, AnyName
  <1> QED BY <1>2, <1>3 DEF Base

(* A name that was found unique is somebody's only if every number was      *)
(* taken, and then there are that many traces: the base name and its        *)
(* numbered forms are distinct, and each has a trace of its own (store.cpp, *)
(* unique_name).                                                            *)
LEMMA UniqueNameIs ==
  ASSUME NEW base \in AnyName, Len(measurements) \in Nat,
         DOMAIN measurements = 1..Len(measurements)
  PROVE  /\ UniqueName(base) \in AnyName
         /\ NameIsTaken(UniqueName(base)) => Len(measurements) + 1 >= SuffixLimit
  <1> DEFINE Free == {k \in 2..SuffixLimit - 1 : ~NameIsTaken(Numbered(base, k))}
  <1>0. SuffixLimit \in Nat
    BY TraceAssumption
  <1>1. CASE ~NameIsTaken(base)
    BY <1>1 DEF UniqueName
  <1>2. CASE Free # {}
    <2> DEFINE k == CHOOSE k \in Free : \A j \in Free : k <= j
    <2>1. Free \in SUBSET Nat
      BY <1>0
    <2>2. \E x \in Free : \A y \in Free : x <= y
      BY <1>2, <2>1, LeastIs
    <2>3. k \in Free
      BY <2>2
    <2>4. NameIsTaken(base) => UniqueName(base) = Numbered(base, k)
      BY <1>2 DEF UniqueName
    <2>5. k \in Nat /\ ~NameIsTaken(Numbered(base, k))
      BY <2>1, <2>3
    <2> QED BY <1>1, <2>4, <2>5, NumberedIs
  <1>3. CASE NameIsTaken(base) /\ Free = {}
    <2> DEFINE Nth(k) == IF k = 1 THEN base ELSE Numbered(base, k)
               at == [k \in 1..SuffixLimit - 1 |->
                        CHOOSE i \in DOMAIN measurements : measurements[i].name = Nth(k)]
    <2>1. UniqueName(base) = base
      BY <1>3 DEF UniqueName
    <2>2. \A k \in 1..SuffixLimit - 1 :
            \E i \in DOMAIN measurements : measurements[i].name = Nth(k)
      BY <1>0, <1>3 DEF NameIsTaken
    <2>3. \A x, y \in 1..SuffixLimit - 1 : Nth(x) = Nth(y) => x = y
      <3> TAKE x, y \in 1..SuffixLimit - 1
      <3>1. x \in Nat /\ y \in Nat
        BY <1>0
      <3>2. Len(base.numbers) \in Nat
        BY DEF AnyName
      <3> QED BY <3>1, <3>2, NumberedIs
    <2> HIDE DEF Nth
    <2>4. /\ at \in [1..SuffixLimit - 1 -> 1..Len(measurements)]
          /\ \A k \in 1..SuffixLimit - 1 : measurements[at[k]].name = Nth(k)
      BY <2>2
    <2> HIDE DEF at
    <2>5. SUFFICES ASSUME Len(measurements) < SuffixLimit - 1
                   PROVE  FALSE
      BY <1>0, <2>1
    <2>6. /\ IsFiniteSet(1..SuffixLimit - 1) /\ IsFiniteSet(1..Len(measurements))
          /\ Cardinality(1..Len(measurements)) < Cardinality(1..SuffixLimit - 1)
      <3>1. SuffixLimit - 1 \in Int /\ Len(measurements) \in Int /\ 1 \in Int
        BY <1>0
      <3>2. /\ IsFiniteSet(1..SuffixLimit - 1)
            /\ Cardinality(1..SuffixLimit - 1) =
                 IF 1 > SuffixLimit - 1 THEN 0 ELSE (SuffixLimit - 1) - 1 + 1
        BY <3>1, FS_Interval
      <3>3. /\ IsFiniteSet(1..Len(measurements))
            /\ Cardinality(1..Len(measurements)) =
                 IF 1 > Len(measurements) THEN 0 ELSE Len(measurements) - 1 + 1
        BY <3>1, FS_Interval
      <3> QED BY <1>0, <2>5, <3>2, <3>3
    <2>7. PICK x, y \in 1..SuffixLimit - 1 : x # y /\ at[x] = at[y]
      <3> DEFINE S == 1..SuffixLimit - 1
                 T == 1..Len(measurements)
      <3>1. /\ IsFiniteSet(S) /\ IsFiniteSet(T) /\ Cardinality(T) < Cardinality(S)
            /\ at \in [S -> T]
        BY <2>4, <2>6
      <3> HIDE DEF S, T
      <3>2. \E x, y \in S : x # y /\ at[x] = at[y]
        BY <3>1, FS_PigeonHole
      <3> QED BY <3>2 DEF S
    <2> QED BY <2>3, <2>4, <2>7
  <1> QED BY <1>1, <1>2, <1>3

(* What the store keeps of a trace, what the session shows of it, and what  *)
(* is known of its capture.                                                 *)
StoredTraces == [id : Nat, name : AnyName, frame : Nat]

(* What the session shows of a trace.                                       *)
ShownTraces == [id : Nat, visible : BOOLEAN, colour : Nat]

(* What is known of a trace's capture.                                      *)
Captures == [frame : Nat, among : Nat]

(* The types of the traces.                                                 *)
TraceTypes ==
  /\ published \in Nat /\ nextId \in Nat /\ nextColour \in Nat
  /\ measurements \in Seq(StoredTraces)
  /\ display \in Seq(ShownTraces)
  /\ captured \in Seq(Captures)

(* The store and the list have the same traces in the same places.          *)
InStep ==
  /\ Len(measurements) = Len(display) /\ Len(captured) = Len(display)
  /\ \A i \in 1..Len(display) :
       /\ measurements[i].id = display[i].id
       /\ measurements[i].frame = captured[i].frame
       /\ display[i].id < nextId
       /\ display[i].colour < nextColour

(* A trace further down the list is younger: its identifier and its colour  *)
(* are greater, and its name is an older one's only if the numbers could    *)
(* have run out when it was captured.                                       *)
Younger ==
  \A i, j \in 1..Len(display) : i < j =>
    /\ display[i].id < display[j].id
    /\ display[i].colour < display[j].colour
    /\ measurements[i].name = measurements[j].name => captured[j].among >= SuffixLimit

(* The inductive invariant of the traces.                                   *)
TraceInv == TraceTypes /\ InStep /\ Younger

(* The types of a trace's fields.                                           *)
LEMMA TracesTyped ==
  ASSUME TraceTypes
  PROVE  /\ \A k \in 1..Len(display) : display[k].id \in Nat /\ display[k].colour \in Nat
         /\ \A k \in 1..Len(captured) : captured[k].among \in Nat
         /\ \A k \in 1..Len(measurements) : measurements[k].id \in Nat
  <1>1. /\ \A k \in 1..Len(display) : display[k] \in ShownTraces
        /\ \A k \in 1..Len(captured) : captured[k] \in Captures
        /\ \A k \in 1..Len(measurements) : measurements[k] \in StoredTraces
    BY ElementOfSeq DEF TraceTypes
  <1> QED BY <1>1 DEF ShownTraces, Captures, StoredTraces

(* An identifier in the list is found at its own place, and only there.     *)
LEMMA PlaceIs ==
  ASSUME TraceInv, NEW i \in 1..Len(display)
  PROVE  Places(display[i].id) = {i} /\ Place(display[i].id) = i
  <1>1. DOMAIN measurements = 1..Len(display) /\ Len(display) \in Nat
    BY DEF TraceInv, TraceTypes, InStep
  <1>2. \A k \in 1..Len(display) : display[k].id \in Nat
    BY TracesTyped DEF TraceInv
  <1>3. \A k \in 1..Len(display) : measurements[k].id = display[i].id => k = i
    <2> TAKE k \in 1..Len(display)
    <2>1. k < i \/ k = i \/ i < k
      BY <1>1
    <2> QED BY <1>2, <2>1 DEF TraceInv, InStep, Younger
  <1>4. measurements[i].id = display[i].id
    BY DEF TraceInv, InStep
  <1>5. Places(display[i].id) = {i}
    BY <1>1, <1>3, <1>4 DEF Places
  <1>6. i <= i
    BY <1>1
  <1>7. \A k \in {i} : k = i
    OBVIOUS
  <1>8. Place(display[i].id) = i
    BY <1>5, <1>6, <1>7 DEF Place
  <1> QED BY <1>5, <1>8

(* The invariant implies the property.                                      *)
LEMMA ShownAsCaptured ==
  ASSUME TraceInv
  PROVE  TracesAreWhatWasCaptured
  <1>1. DOMAIN display = 1..Len(display) /\ Len(display) \in Nat
    BY DEF TraceInv, TraceTypes
  <1>2. \A i \in 1..Len(display) : Stored(display[i].id) = measurements[i]
    BY PlaceIs DEF Stored
  <1>3. \A i \in 1..Len(display) : Cardinality(Places(display[i].id)) = 1
    BY PlaceIs, FS_Singleton
  <1>4. \A i, j \in 1..Len(display) : i # j => display[i].colour # display[j].colour
    <2> TAKE i, j \in 1..Len(display)
    <2>1. display[i].colour \in Nat /\ display[j].colour \in Nat
      BY TracesTyped DEF TraceInv
    <2>2. i < j \/ i = j \/ j < i
      BY <1>1
    <2> QED BY <2>1, <2>2 DEF TraceInv, Younger
  <1>5. \A i \in 1..Len(display) : measurements[i].frame = captured[i].frame
    BY DEF TraceInv, InStep
  <1>6. \A i, j \in 1..Len(display) :
          i < j /\ measurements[i].name = measurements[j].name => captured[j].among >= SuffixLimit
    BY DEF TraceInv, Younger
  <1>7. Len(measurements) = Len(display)
    BY DEF TraceInv, InStep
  <1> QED BY <1>1, <1>2, <1>3, <1>4, <1>5, <1>6, <1>7 DEF TracesAreWhatWasCaptured

(* A capture adds a trace younger than all others.                          *)
LEMMA CaptureKeeps ==
  ASSUME TraceInv, CaptureTrace(published), published' \in Nat
  PROVE  TraceInv'
  <1>1. PICK asked \in NamesAsked :
          /\ measurements' = Append(measurements, [id |-> nextId, name |-> UniqueName(Base(asked)),
                                                   frame |-> published])
          /\ nextId' = nextId + 1
          /\ display' = Append(display, [id |-> nextId, visible |-> TRUE, colour |-> nextColour])
          /\ nextColour' = nextColour + 1
          /\ captured' = Append(captured, [frame |-> published, among |-> Len(display) + 1])
    BY DEF CaptureTrace
  <1> DEFINE name == UniqueName(Base(asked))
             stored == [id |-> nextId, name |-> name, frame |-> published]
             shown == [id |-> nextId, visible |-> TRUE, colour |-> nextColour]
             capture == [frame |-> published, among |-> Len(display) + 1]
             n == Len(display)
  <1>2. /\ n \in Nat /\ nextId \in Nat /\ nextColour \in Nat /\ published \in Nat
        /\ DOMAIN measurements = 1..n /\ Len(measurements) = n /\ Len(captured) = n
    BY DEF TraceInv, TraceTypes, InStep
  <1>3. name \in AnyName /\ (NameIsTaken(name) => n + 1 >= SuffixLimit)
    <2>1. Base(asked) \in AnyName
      BY TraceAssumption, BaseIs
    <2> QED BY <1>2, <2>1, UniqueNameIs
  <1>4. NameIsTaken(name) <=> \E i \in 1..n : measurements[i].name = name
    BY <1>2 DEF NameIsTaken
  <1> HIDE DEF name
  <1>5. /\ stored \in StoredTraces /\ stored.id = nextId /\ stored.name = name
        /\ stored.frame = published
    BY <1>2, <1>3 DEF StoredTraces
  <1>6. shown \in ShownTraces /\ shown.id = nextId /\ shown.colour = nextColour
    BY <1>2 DEF ShownTraces
  <1>7. capture \in Captures /\ capture.frame = published /\ capture.among = n + 1
    BY <1>2 DEF Captures
  <1> HIDE DEF stored, shown, capture
  <1>8. /\ measurements' = Append(measurements, stored) /\ display' = Append(display, shown)
        /\ captured' = Append(captured, capture)
    BY <1>1 DEF stored, shown, capture, name
  <1>9. /\ measurements' \in Seq(StoredTraces) /\ Len(measurements') = n + 1
        /\ \A k \in 1..n : measurements'[k] = measurements[k]
        /\ measurements'[n + 1] = stored
    <2>1. measurements \in Seq(StoredTraces)
      BY DEF TraceInv, TraceTypes
    <2>2. /\ Append(measurements, stored) \in Seq(StoredTraces)
          /\ Len(Append(measurements, stored)) = n + 1
          /\ \A k \in 1..n : Append(measurements, stored)[k] = measurements[k]
          /\ Append(measurements, stored)[n + 1] = stored
      BY <1>2, <1>5, <2>1, AppendIs
    <2> QED BY <1>8, <2>2
  <1>10. /\ display' \in Seq(ShownTraces) /\ Len(display') = n + 1
         /\ \A k \in 1..n : display'[k] = display[k]
         /\ display'[n + 1] = shown
    BY <1>6, <1>8, AppendIs DEF TraceInv, TraceTypes
  <1>11. /\ captured' \in Seq(Captures) /\ Len(captured') = n + 1
         /\ \A k \in 1..n : captured'[k] = captured[k]
         /\ captured'[n + 1] = capture
    BY <1>2, <1>7, <1>8, AppendIs DEF TraceInv, TraceTypes
  <1>12. TraceTypes'
    BY <1>1, <1>2, <1>9, <1>10, <1>11 DEF TraceTypes
  <1>13. \A k \in 1..n : display[k].id \in Nat /\ display[k].colour \in Nat
    BY TracesTyped DEF TraceInv
  <1>14. \A k \in 1..n : /\ measurements[k].id = display[k].id
                         /\ measurements[k].frame = captured[k].frame
                         /\ display[k].id < nextId
                         /\ display[k].colour < nextColour
    BY DEF TraceInv, InStep
  <1>15. InStep'
    <2>1. \A k \in 1..n + 1 : k \in 1..n \/ k = n + 1
      BY <1>2
    <2>2. nextId' = nextId + 1 /\ nextColour' = nextColour + 1
      BY <1>1
    <2>3. \A k \in 1..n : /\ measurements'[k].id = display'[k].id
                          /\ measurements'[k].frame = captured'[k].frame
                          /\ display'[k].id < nextId'
                          /\ display'[k].colour < nextColour'
      <3> TAKE k \in 1..n
      <3>1. /\ measurements'[k] = measurements[k] /\ display'[k] = display[k]
            /\ captured'[k] = captured[k]
        BY <1>9, <1>10, <1>11
      <3>2. display[k].id < nextId + 1 /\ display[k].colour < nextColour + 1
        BY <1>2, <1>13, <1>14
      <3> QED BY <1>14, <2>2, <3>1, <3>2
    <2>4. /\ measurements'[n + 1].id = display'[n + 1].id
          /\ measurements'[n + 1].frame = captured'[n + 1].frame
          /\ display'[n + 1].id < nextId'
          /\ display'[n + 1].colour < nextColour'
      BY <1>2, <1>5, <1>6, <1>7, <1>9, <1>10, <1>11, <2>2
    <2> HIDE DEF n
    <2> QED BY <1>9, <1>10, <1>11, <2>1, <2>3, <2>4 DEF InStep
  <1>16. \A i, j \in 1..n : i < j =>
           /\ display[i].id < display[j].id
           /\ display[i].colour < display[j].colour
           /\ measurements[i].name = measurements[j].name => captured[j].among >= SuffixLimit
    BY DEF TraceInv, Younger
  <1>17. Younger'
    <2>1. \A i, j \in 1..n + 1 : i < j => (i \in 1..n /\ j \in 1..n) \/ (i \in 1..n /\ j = n + 1)
      BY <1>2
    <2>2. \A i, j \in 1..n : i < j =>
           /\ display'[i].id < display'[j].id
           /\ display'[i].colour < display'[j].colour
           /\ measurements'[i].name = measurements'[j].name => captured'[j].among >= SuffixLimit
      BY <1>9, <1>10, <1>11, <1>16
    <2>3. \A i \in 1..n :
           /\ display'[i].id < display'[n + 1].id
           /\ display'[i].colour < display'[n + 1].colour
           /\ measurements'[i].name = measurements'[n + 1].name =>
                captured'[n + 1].among >= SuffixLimit
      BY <1>3, <1>4, <1>5, <1>6, <1>7, <1>9, <1>10, <1>11, <1>14
    <2> HIDE DEF n
    <2> QED BY <1>10, <2>1, <2>2, <2>3 DEF Younger
  <1> QED BY <1>12, <1>15, <1>17 DEF TraceInv

(* A removal takes the same trace out of the store and the list.            *)
LEMMA RemoveKeeps ==
  ASSUME TraceInv, RemoveTrace, published' \in Nat
  PROVE  TraceInv'
  <1>1. PICK r \in DOMAIN display :
          /\ display' = RemoveAt(display, r)
          /\ measurements' = Without(display[r].id)
          /\ captured' = RemoveAt(captured, r)
    BY DEF RemoveTrace
  <1> DEFINE n == Len(display)
             Old(k) == IF k < r THEN k ELSE k + 1
  <1>2. /\ n \in Nat /\ Len(measurements) = n /\ Len(captured) = n /\ r \in 1..n
        /\ n - 1 \in Nat
    BY DEF TraceInv, TraceTypes, InStep
  <1>3. Places(display[r].id) # {} /\ Place(display[r].id) = r
    BY <1>2, PlaceIs
  <1>4. measurements' = RemoveAt(measurements, r)
    BY <1>1, <1>3 DEF Without
  <1>5. \A k \in 1..(n - 1) : Old(k) \in 1..n
    BY <1>2
  <1>6. /\ display' \in Seq(ShownTraces) /\ Len(display') = n - 1
        /\ \A k \in 1..(n - 1) : display'[k] = IF k < r THEN display[k] ELSE display[k + 1]
    <2>1. display \in Seq(ShownTraces) /\ r \in 1..Len(display)
      BY <1>2 DEF TraceInv, TraceTypes
    <2> QED BY <1>1, <1>2, <2>1, RemoveAtIs
  <1>7. /\ measurements' \in Seq(StoredTraces) /\ Len(measurements') = n - 1
        /\ \A k \in 1..(n - 1) :
             measurements'[k] = IF k < r THEN measurements[k] ELSE measurements[k + 1]
    <2>1. measurements \in Seq(StoredTraces) /\ r \in 1..Len(measurements)
      BY <1>2 DEF TraceInv, TraceTypes
    <2> QED BY <1>2, <1>4, <2>1, RemoveAtIs
  <1>8. /\ captured' \in Seq(Captures) /\ Len(captured') = n - 1
        /\ \A k \in 1..(n - 1) : captured'[k] = IF k < r THEN captured[k] ELSE captured[k + 1]
    <2>1. captured \in Seq(Captures) /\ r \in 1..Len(captured)
      BY <1>2 DEF TraceInv, TraceTypes
    <2> QED BY <1>1, <1>2, <2>1, RemoveAtIs
  <1>9. \A k \in 1..(n - 1) : /\ display'[k] = display[Old(k)]
                              /\ measurements'[k] = measurements[Old(k)]
                              /\ captured'[k] = captured[Old(k)]
    BY <1>6, <1>7, <1>8
  <1>10. \A i, j \in 1..(n - 1) : i < j => Old(i) < Old(j)
    BY <1>2
  <1> HIDE DEF Old
  <1>11. UNCHANGED <<nextId, nextColour>>
    BY DEF RemoveTrace
  <1>12. TraceTypes'
    BY <1>6, <1>7, <1>8, <1>11 DEF TraceInv, TraceTypes
  <1>13. InStep'
    <2>1. \A k \in 1..(n - 1) :
            /\ measurements'[k].id = display'[k].id
            /\ measurements'[k].frame = captured'[k].frame
            /\ display'[k].id < nextId'
            /\ display'[k].colour < nextColour'
      BY <1>5, <1>9, <1>11 DEF TraceInv, InStep
    <2> HIDE DEF n
    <2> QED BY <1>6, <1>7, <1>8, <2>1 DEF InStep
  <1>14. Younger'
    <2>1. \A i, j \in 1..(n - 1) : i < j =>
           /\ display'[i].id < display'[j].id
           /\ display'[i].colour < display'[j].colour
           /\ measurements'[i].name = measurements'[j].name => captured'[j].among >= SuffixLimit
      BY <1>5, <1>9, <1>10 DEF TraceInv, Younger
    <2> HIDE DEF n
    <2> QED BY <1>6, <2>1 DEF Younger
  <1> QED BY <1>12, <1>13, <1>14 DEF TraceInv

(* Showing and hiding a trace changes nothing else.                         *)
LEMMA SetVisibleKeeps ==
  ASSUME TraceInv, SetVisible, published' \in Nat
  PROVE  TraceInv'
  <1>1. PICK i \in DOMAIN display, visible \in BOOLEAN :
          display' = [display EXCEPT ![i].visible = visible]
    BY DEF SetVisible
  <1>2. UNCHANGED <<measurements, nextId, nextColour, captured>>
    BY DEF SetVisible
  <1> DEFINE shown == [display[i] EXCEPT !.visible = visible]
  <1>3. display \in Seq(ShownTraces) /\ i \in 1..Len(display)
    BY DEF TraceInv, TraceTypes
  <1>4. display[i] \in ShownTraces
    BY <1>3, ElementOfSeq
  <1>5. shown \in ShownTraces /\ shown.id = display[i].id /\ shown.colour = display[i].colour
    BY <1>4 DEF ShownTraces
  <1>6. display' = [display EXCEPT ![i] = shown]
    BY <1>1
  <1> HIDE DEF shown
  <1>7. /\ display' \in Seq(ShownTraces) /\ Len(display') = Len(display)
        /\ \A k \in 1..Len(display) : display'[k] = IF k = i THEN shown ELSE display[k]
    BY <1>3, <1>5, <1>6, ExceptSeq
  <1>8. \A k \in 1..Len(display) :
          display'[k].id = display[k].id /\ display'[k].colour = display[k].colour
    BY <1>5, <1>7
  <1>9. TraceTypes'
    BY <1>2, <1>7 DEF TraceInv, TraceTypes
  <1>10. InStep'
    BY <1>2, <1>7, <1>8 DEF TraceInv, InStep
  <1>11. Younger'
    BY <1>2, <1>7, <1>8 DEF TraceInv, Younger
  <1> QED BY <1>9, <1>10, <1>11 DEF TraceInv

(* No traces, as at the start and after a clear.                            *)
NoTraces ==
  /\ nextId \in Nat /\ nextColour \in Nat /\ published \in Nat
  /\ measurements = <<>> /\ display = <<>> /\ captured = <<>>

(* Nothing is wrong with no traces.                                         *)
LEMMA EmptyIsRight == NoTraces => TraceInv
  <1> SUFFICES ASSUME NoTraces
               PROVE  TraceInv
    OBVIOUS
  <1>1. /\ measurements \in Seq(StoredTraces) /\ display \in Seq(ShownTraces)
        /\ captured \in Seq(Captures)
    BY DEF NoTraces
  <1>2. Len(display) = 0 /\ Len(measurements) = 0 /\ Len(captured) = 0
    BY DEF NoTraces
  <1>3. \A k \in 1..0 : FALSE
    OBVIOUS
  <1> QED BY <1>1, <1>2, <1>3 DEF NoTraces, TraceInv, TraceTypes, InStep, Younger

(* Every step keeps the traces right.                                       *)
LEMMA TraceSteps ==
  ASSUME TraceInv, [Next]_vars
  PROVE  TraceInv'
  <1>0. NoTraces' => TraceInv'
    BY EmptyIsRight, PTL
  <1>1. published \in Nat
    BY DEF TraceInv, TraceTypes
  <1>2. CASE UNCHANGED traceVars /\ published' \in Nat
    BY <1>2 DEF traceVars, TraceInv, TraceTypes, InStep, Younger
  <1>3. CASE UNCHANGED vars
    BY <1>1, <1>2, <1>3 DEF vars, sessionVars, plotVars
  <1>4. CASE EqCall \/ TargetCall \/ Callback
    BY <1>1, <1>2, <1>4 DEF EqCall, TargetCall, Callback, plotVars
  <1>5. CASE DrawCall
    <2>1. UNCHANGED published
      BY <1>5 DEF DrawCall, SetPlot, CopyReduced, CopyTransfer, CopySpectrogram, CopyComputed,
                  CopyStored, CopyCorrected, Latest
    <2> QED BY <1>1, <1>2, <1>5, <2>1 DEF DrawCall
  <1>6. CASE TraceCall
    <2>1. UNCHANGED published
      BY <1>6 DEF TraceCall, sessionVars, plotVars
    <2>2. CASE ClearTraces
      <3>1. /\ nextId' \in Nat /\ nextColour' \in Nat
            /\ measurements' = <<>> /\ display' = <<>> /\ captured' = <<>>
        BY <2>2 DEF ClearTraces, TraceInv, TraceTypes
      <3> QED BY <1>0, <1>1, <2>1, <3>1 DEF NoTraces
    <2> QED BY <1>1, <1>6, <2>1, <2>2, SetVisibleKeeps, RemoveKeeps DEF TraceCall
  <1>7. CASE Capture
    <2>1. UNCHANGED published
      BY <1>7 DEF Capture, TakeFrame, Latest
    <2> QED BY <1>1, <1>2, <1>7, <2>1, CaptureKeeps DEF Capture
  <1>8. CASE Align \/ Optimise
    BY <1>1, <1>2, <1>8 DEF Align, Optimise, MeasuredAtColumns, Latest
  <1>9. CASE SaveSettings \/ LoadSettings \/ SaveMeasurement \/ ExportFilters
    BY <1>1, <1>2, <1>9 DEF SaveSettings, LoadSettings, SaveMeasurement, TakeFrame, Latest,
                            ExportFilters, sessionVars, plotVars
  <1>10. CASE RestartSession
    BY <1>2, <1>10 DEF RestartSession, NewSession
  <1>11. CASE KilledWhileSaving
    <2>1. /\ nextId' \in Nat /\ nextColour' \in Nat /\ published' \in Nat
          /\ measurements' = <<>> /\ display' = <<>> /\ captured' = <<>>
      BY <1>11 DEF KilledWhileSaving, NewSession
    <2> QED BY <1>0, <2>1 DEF NoTraces
  <1>12. CASE Worker
    <2>1. published' = published + 1
      BY <1>12 DEF Worker, PublishFrame, Channel!Publish
    <2> QED BY <1>1, <1>2, <1>12, <2>1 DEF Worker
  <1> QED BY <1>3, <1>4, <1>5, <1>6, <1>7, <1>8, <1>9, <1>10, <1>11, <1>12 DEF Next

(* Every trace shows the curve it was captured from, under an identifier, a *)
(* colour and (while the numbers last) a name of its own, and the store     *)
(* keeps nothing else, through any captures, removals and clears            *)
(* (traces.cpp, store.cpp).                                                 *)
THEOREM TracesStayWhatWasCaptured == Spec => []TracesAreWhatWasCaptured
  <1>1. Init => TraceInv
    BY EmptyIsRight DEF NoTraces, Init, SessionInit, PlotInit, Channel!Init, TracesInit
  <1>2. TraceInv /\ [Next]_vars => TraceInv'
    BY TraceSteps
  <1>3. TraceInv => TracesAreWhatWasCaptured
    BY ShownAsCaptured
  <1> QED BY <1>1, <1>2, <1>3, PTL DEF Spec

--------------------------------------------------------------------------------
(* The settings and their file.                                             *)

(* Settings as a file or a host may give them,                              *)
Unvalidated ==
  [fft_size : Nat, window : Windows, averaging : Averagings, start_on_launch : BOOLEAN,
   min_hz : Floats, max_hz : Floats, min_db : Floats, max_db : Floats,
   level_grid_step : Floats, spl_offset_db : Maybe(Floats), mic_cal_path : Maybe(PathNames)]

(* and settings as the program keeps them.                                  *)
Settings ==
  [fft_size : FftSizes, window : Windows, averaging : Averagings, start_on_launch : BOOLEAN,
   min_hz : Int, max_hz : Int \cup {Inf}, min_db : Int, max_db : Int \cup {Inf},
   level_grid_step : Int, spl_offset_db : Maybe(Int), mic_cal_path : Maybe(PathNames)]

(* Settings an axis can be built from, as far as floats go.                 *)
UsableHz(s) ==
  /\ 0 < s.min_hz
  /\ IF s.max_hz = Inf THEN FloatOf(2 * s.min_hz) = Inf ELSE s.min_hz < s.max_hz
UsableDb(s) ==
  \/ s.max_db # Inf /\ s.min_db < s.max_db
  \/ /\ Exact <= Magnitude(s.min_db + DefaultRange)
     /\ s.max_db = FloatOf(s.min_db + DefaultRange)
Usable(s) ==
  UsableHz(s) /\ UsableDb(s) /\ 0 < s.level_grid_step /\ s.fft_size \in FftSizes

(* A finite float is a number.                                              *)
LEMMA FiniteIs ==
  ASSUME NEW x \in Floats, IsFinite(x)
  PROVE  x \in Int
  BY DEF Floats, IsFinite

(* What is optional is given or is not.                                     *)
LEMMA OptionIs ==
  ASSUME NEW S, NEW o \in Maybe(S)
  PROVE  (IsGiven(o) /\ o.value \in S /\ o = Given(o.value)) \/ (~IsGiven(o) /\ o = Unset)
  BY DEF Maybe, IsGiven, Unset, Given

(* Half of a whole number, and its nearest multiple.                        *)
LEMMA NearestIs ==
  ASSUME NEW x \in Int, NEW u \in Nat \ {0}
  PROVE  /\ u \div 2 \in Nat
         /\ ((x + u \div 2) \div u) * u \in Int
         /\ x + u \div 2 < ((x + u \div 2) \div u) * u + u
  <1>1. u \div 2 \in Nat
    OBVIOUS
  <1> DEFINE y == x + u \div 2
             q == y \div u
             r == y % u
  <1>2. y \in Int
    BY <1>1
  <1> HIDE DEF y
  <1>3. q \in Int /\ r \in Int /\ 0 <= r /\ r < u /\ y = q * u + r
    BY <1>2
  <1> HIDE DEF q, r
  <1>4. q * u \in Int
    BY <1>3
  <1>5. y < q * u + u
    BY <1>2, <1>3, <1>4
  <1> QED BY <1>1, <1>4, <1>5 DEF y, q

(* The step a float of this size is rounded to: none where there is none    *)
(* wide enough, and else the narrowest, half of which is too narrow.        *)
LEMMA FloatIs ==
  ASSUME NEW x \in Int
  PROVE  \/ FloatOf(x) = Inf
         \/ \E u \in FloatSteps :
              /\ FloatOf(x) = ((x + u \div 2) \div u) * u
              /\ \A v \in FloatSteps : v < u => ~(Magnitude(x) < Exact * v)
  <1> DEFINE wide == {u \in FloatSteps : Magnitude(x) < Exact * u}
  <1>1. wide \in SUBSET Nat
    BY PrecisionAssumption
  <1>2. CASE wide = {}
    BY <1>2 DEF FloatOf
  <1>3. CASE wide # {}
    <2>1. \E u \in wide : \A v \in wide : u <= v
      BY <1>1, <1>3, LeastIs
    <2> DEFINE u == Min(wide)
    <2>2. u \in wide /\ \A v \in wide : u <= v
      BY <2>1 DEF Min
    <2>3. \A v \in FloatSteps : v < u => v \notin wide
      BY <1>1, <2>2, PrecisionAssumption
    <2>4. FloatOf(x) = ((x + u \div 2) \div u) * u
      BY <1>3 DEF FloatOf
    <2> QED BY <2>2, <2>3, <2>4
  <1> QED BY <1>2, <1>3

(* A float is a whole number or infinite.                                   *)
LEMMA FloatIsNumber ==
  ASSUME NEW x \in Int
  PROVE  FloatOf(x) \in Int \cup {Inf}
  BY FloatIs, NearestIs, PrecisionAssumption

(* Below a bound whole numbers are floats.                                  *)
LEMMA SmallIsExact ==
  ASSUME NEW x \in Int, Magnitude(x) < Exact
  PROVE  FloatOf(x) = x
  <1> DEFINE wide == {u \in FloatSteps : Magnitude(x) < Exact * u}
  <1>1. 1 \in wide /\ wide \in SUBSET (Nat \ {0})
    <2>1. Exact * 1 = Exact
      BY PrecisionAssumption
    <2> QED BY <2>1, PrecisionAssumption
  <1>2. Min(wide) = 1
    <2>1. \A v \in wide : 1 <= v
      BY <1>1
    <2>2. \A u \in wide : (\A v \in wide : u <= v) => u = 1
      BY <1>1
    <2> QED BY <1>1, <2>1, <2>2 DEF Min
  <1>3. FloatOf(x) = ((x + 1 \div 2) \div 1) * 1
    BY <1>1, <1>2 DEF FloatOf
  <1> QED BY <1>3

(* Twice a number, if it is a finite float, is above the number.            *)
LEMMA TwiceIsAbove ==
  ASSUME NEW x \in Int, 0 < x, FloatOf(2 * x) # Inf
  PROVE  x < FloatOf(2 * x)
  <1>1. PICK u \in FloatSteps :
          /\ FloatOf(2 * x) = ((2 * x + u \div 2) \div u) * u
          /\ \A v \in FloatSteps : v < u => ~(Magnitude(2 * x) < Exact * v)
    BY FloatIs
  <1>2. u \in Nat \ {0}
    BY PrecisionAssumption
  <1>3. 2 * x \in Int /\ Magnitude(2 * x) = 2 * x
    BY DEF Magnitude
  <1>4. CASE u = 1
    BY <1>1, <1>4
  <1>5. CASE u # 1
    <2>1. PICK half \in FloatSteps : u = 2 * half
      BY <1>5, PrecisionAssumption
    <2>2. half \in Nat \ {0} /\ half < u /\ u \div 2 = half
      BY <2>1, PrecisionAssumption
    <2>3. Exact \in Nat /\ 2 <= Exact
      BY PrecisionAssumption DEF Defaults
    <2>4. Exact * half \in Nat /\ Exact * half <= 2 * x
      BY <1>1, <1>3, <2>2, <2>3
    <2>5. 2 * half <= Exact * half
      BY <2>2, <2>3
    <2>6. half <= x
      BY <2>2, <2>4, <2>5
    <2>7. FloatOf(2 * x) \in Int /\ 2 * x + half < FloatOf(2 * x) + u
      BY <1>1, <1>2, <1>3, <2>2, NearestIs
    <2> QED BY <2>1, <2>2, <2>6, <2>7
  <1> QED BY <1>4, <1>5

(* A repaired lowest level leaves a range, unless it is too large for one.  *)
LEMMA RangeIs ==
  ASSUME NEW x \in Int
  PROVE  /\ DefaultRange = 120
         /\ \/ FloatOf(x + 120) # Inf /\ x < FloatOf(x + 120)
            \/ Exact <= Magnitude(x + 120)
  <1>1. DefaultRange = 120
    BY DEF DefaultRange, Defaults
  <1>2. Magnitude(x + 120) \in Int /\ Exact \in Int
    BY PrecisionAssumption DEF Magnitude
  <1>3. CASE Magnitude(x + 120) < Exact
    BY <1>1, <1>3, SmallIsExact, FloatAssumption
  <1> QED BY <1>1, <1>2, <1>3

(* Validation makes usable settings of any: a bound that is repaired is on  *)
(* the right side of the other, where there is a float that is (settings.cpp, *)
(* Settings::validated).                                                    *)
LEMMA ValidatedIs ==
  ASSUME NEW s \in Unvalidated
  PROVE  Validated(s) \in Settings /\ Usable(Validated(s))
  <1> DEFINE minHz == IF ~IsFinite(s.min_hz) \/ s.min_hz <= 0 THEN Defaults.min_hz ELSE s.min_hz
             maxHz == IF ~IsFinite(s.max_hz) \/ s.max_hz <= minHz
                      THEN AtLeastDefault(FloatOf(2 * minHz)) ELSE s.max_hz
             minDb == IF IsFinite(s.min_db) THEN s.min_db ELSE Defaults.min_db
             maxDb == IF ~IsFinite(s.max_db) \/ s.max_db <= minDb
                      THEN FloatOf(minDb + DefaultRange) ELSE s.max_db
             fft == IF s.fft_size \in FftSizes THEN s.fft_size ELSE Defaults.fft_size
             step == IF ~IsFinite(s.level_grid_step) \/ s.level_grid_step <= 0
                     THEN Defaults.level_grid_step ELSE s.level_grid_step
             spl == IF IsGiven(s.spl_offset_db) /\ ~IsFinite(s.spl_offset_db.value)
                    THEN Unset ELSE s.spl_offset_db
             mic == IF IsGiven(s.mic_cal_path) /\ EmptyPath(s.mic_cal_path.value)
                    THEN Unset ELSE s.mic_cal_path
             v == [s EXCEPT !.fft_size = fft, !.min_hz = minHz, !.max_hz = maxHz,
                            !.min_db = minDb, !.max_db = maxDb, !.level_grid_step = step,
                            !.spl_offset_db = spl, !.mic_cal_path = mic]
  <1>1. /\ Defaults.min_hz = 20 /\ Defaults.max_hz = 20000 /\ Defaults.min_db = -120
        /\ Defaults.max_db = 0 /\ Defaults.level_grid_step = 20 /\ Defaults.fft_size = 4096
    BY DEF Defaults
  <1>2. /\ s.min_hz \in Floats /\ s.max_hz \in Floats /\ s.min_db \in Floats
        /\ s.max_db \in Floats /\ s.level_grid_step \in Floats
        /\ s.spl_offset_db \in Maybe(Floats) /\ s.mic_cal_path \in Maybe(PathNames)
    BY DEF Unvalidated
  <1>3. minHz \in Int /\ 0 < minHz
    BY <1>1, <1>2, FiniteIs
  <1>4. minDb \in Int
    BY <1>1, <1>2, FiniteIs
  <1>5. step \in Int /\ 0 < step
    BY <1>1, <1>2, FiniteIs
  <1>6. fft \in FftSizes
    BY <1>1 DEF FftSizes
  <1> HIDE DEF minHz, minDb
  <1>7. /\ maxHz \in Int \cup {Inf}
        /\ IF maxHz = Inf THEN FloatOf(2 * minHz) = Inf ELSE minHz < maxHz
    <2>1. CASE ~(~IsFinite(s.max_hz) \/ s.max_hz <= minHz)
      BY <1>2, <1>3, <2>1, FiniteIs DEF IsFinite
    <2>2. CASE ~IsFinite(s.max_hz) \/ s.max_hz <= minHz
      <3> DEFINE twice == FloatOf(2 * minHz)
      <3>1. maxHz = AtLeastDefault(twice)
        BY <2>2
      <3>2. twice \in Int \cup {Inf}
        BY <1>3, FloatIsNumber
      <3>3. CASE twice = Inf
        BY <3>1, <3>3 DEF AtLeastDefault, IsFinite
      <3>4. CASE twice # Inf
        <4>1. twice \in Int /\ minHz < twice /\ IsFinite(twice)
          BY <1>3, <3>2, <3>4, TwiceIsAbove, FloatAssumption DEF IsFinite
        <4>2. maxHz \in Int /\ minHz < maxHz
          BY <1>1, <1>3, <3>1, <4>1 DEF AtLeastDefault, Greater
        <4> QED BY <4>2, FloatAssumption
      <3> QED BY <3>3, <3>4
    <2> QED BY <2>1, <2>2
  <1>8. /\ maxDb \in Int \cup {Inf}
        /\ \/ maxDb # Inf /\ minDb < maxDb
           \/ /\ Exact <= Magnitude(minDb + DefaultRange)
              /\ maxDb = FloatOf(minDb + DefaultRange)
    <2>1. CASE ~(~IsFinite(s.max_db) \/ s.max_db <= minDb)
      BY <1>2, <1>4, <2>1, FiniteIs DEF IsFinite
    <2>2. CASE ~IsFinite(s.max_db) \/ s.max_db <= minDb
      <3>1. maxDb = FloatOf(minDb + 120) /\ DefaultRange = 120
        BY <1>4, <2>2, RangeIs
      <3>2. FloatOf(minDb + 120) \in Int \cup {Inf}
        BY <1>4, FloatIsNumber
      <3> QED BY <1>4, <3>1, <3>2, RangeIs
    <2> QED BY <2>1, <2>2
  <1>9. spl \in Maybe(Int)
    <2>1. CASE IsGiven(s.spl_offset_db) /\ IsFinite(s.spl_offset_db.value)
      BY <1>2, <2>1, OptionIs, FiniteIs DEF Maybe, Given
    <2>2. CASE ~IsGiven(s.spl_offset_db) \/ ~IsFinite(s.spl_offset_db.value)
      BY <1>2, <2>2, OptionIs DEF Maybe
    <2> QED BY <2>1, <2>2
  <1>10. mic \in Maybe(PathNames)
    BY <1>2 DEF Maybe
  <1> HIDE DEF maxHz, maxDb, fft, step, spl, mic
  <1>11. Validated(s) = v
    BY DEF Validated, minHz, maxHz, minDb, maxDb, fft, step, spl, mic
  <1>12. v \in Settings
    BY <1>3, <1>4, <1>5, <1>6, <1>7, <1>8, <1>9, <1>10 DEF Unvalidated, Settings
  <1>13. Usable(v)
    <2>1. /\ v.min_hz = minHz /\ v.max_hz = maxHz /\ v.min_db = minDb /\ v.max_db = maxDb
          /\ v.level_grid_step = step /\ v.fft_size = fft
      BY DEF Unvalidated
    <2> QED BY <1>3, <1>5, <1>6, <1>7, <1>8, <2>1 DEF Usable, UsableHz, UsableDb
  <1> QED BY <1>11, <1>12, <1>13

(* The defaults are usable.                                                 *)
LEMMA DefaultsUsable == Usable(Defaults)
  <1>1. 20000 # Inf /\ 0 # Inf
    BY FloatAssumption
  <1> QED BY <1>1 DEF Usable, UsableHz, UsableDb, Defaults, FftSizes

(* The words of a settings file.                                            *)
Words == STRING \cup Windows \cup Averagings \cup {"true", "false"}

(* What a line of a settings file may hold.                                 *)
AnyValue == [number : Floats] \cup [word : Words] \cup [path : PathNames]

(* The lines of a settings file.                                            *)
Lines == [key : DOMAIN Defaults, value : AnyValue]

(* The keys of the settings.                                                *)
Keys == {"fft_size", "window", "averaging", "start_on_launch", "min_hz", "max_hz", "min_db",
         "max_db", "level_grid_step", "spl_offset_db", "mic_cal_path"}

(* They are the fields of the defaults.                                     *)
LEMMA KeysAre == DOMAIN Defaults = Keys
  BY DEF Defaults, Keys

(* What a host hands over is validated.                                     *)
LEMMA FromCIs ==
  ASSUME NEW c \in CSettings
  PROVE  FromC(c) \in Settings /\ Usable(FromC(c))
  <1> DEFINE window == IF c.window = "tukey" THEN "hann" ELSE c.window
             mic == IF IsGiven(c.mic_cal_path) /\ EmptyPath(c.mic_cal_path.value)
                    THEN Unset ELSE c.mic_cal_path
             u == [c EXCEPT !.window = window, !.mic_cal_path = mic]
  <1>1. window \in Windows
    BY DEF CSettings, Windows
  <1>2. mic \in Maybe(PathNames)
    BY DEF CSettings, Maybe
  <1> HIDE DEF window, mic
  <1>3. u \in Unvalidated
    BY <1>1, <1>2 DEF CSettings, Unvalidated
  <1> HIDE DEF u
  <1>4. FromC(c) = Validated(u)
    BY DEF FromC, u, window, mic
  <1> QED BY <1>3, <1>4, ValidatedIs

(* What parses under a key is of that key's type.                           *)
LEMMA ParsedMeans ==
  ASSUME NEW value \in AnyValue
  PROVE  /\ Parses("fft_size", value) => Meaning("fft_size", value) \in Nat
         /\ Parses("window", value) => Meaning("window", value) \in Windows
         /\ Parses("averaging", value) => Meaning("averaging", value) \in Averagings
         /\ Parses("start_on_launch", value) => Meaning("start_on_launch", value) \in BOOLEAN
         /\ Parses("min_hz", value) => Meaning("min_hz", value) \in Floats
         /\ Parses("max_hz", value) => Meaning("max_hz", value) \in Floats
         /\ Parses("min_db", value) => Meaning("min_db", value) \in Floats
         /\ Parses("max_db", value) => Meaning("max_db", value) \in Floats
         /\ Parses("level_grid_step", value) => Meaning("level_grid_step", value) \in Floats
         /\ Parses("spl_offset_db", value) =>
              /\ Meaning("spl_offset_db", value) \in Maybe(Floats)
         /\ Parses("mic_cal_path", value) => Meaning("mic_cal_path", value) \in Maybe(PathNames)
  <1>1. IsNumber(value) => value.number \in Floats
    BY DEF AnyValue, IsNumber
  <1>2. IsPath(value) => value.path \in PathNames
    BY DEF AnyValue, IsPath
  <1>3. IsPath(value) => [value.path EXCEPT !.blank = FALSE] \in PathNames
    BY <1>2 DEF PathNames
  <1>4. Parses("fft_size", value) => Meaning("fft_size", value) \in Nat
    BY <1>1, FiniteIs DEF Parses, Meaning
  <1>5. Parses("start_on_launch", value) => Meaning("start_on_launch", value) \in BOOLEAN
    BY DEF Meaning
  <1>6. \A x \in Floats : Given(x) \in Maybe(Floats)
    BY DEF Given, Maybe
  <1>7. \A x \in PathNames : Given(x) \in Maybe(PathNames)
    BY DEF Given, Maybe
  <1>8. Parses("spl_offset_db", value) => Meaning("spl_offset_db", value) \in Maybe(Floats)
    BY <1>1, <1>6 DEF Parses, Meaning
  <1>9. Parses("mic_cal_path", value) => Meaning("mic_cal_path", value) \in Maybe(PathNames)
    BY <1>3, <1>7 DEF Parses, Meaning
  <1> QED BY <1>1, <1>4, <1>5, <1>8, <1>9 DEF Parses, Meaning

(* The lines that say something of a key, the one that wins, and what is    *)
(* then read: the parts of FromText.                                        *)
Says(lines, key) == {i \in DOMAIN lines : lines[i].key = key /\ Parses(key, lines[i].value)}

(* The last of them.                                                        *)
Winner(lines, key) == CHOOSE i \in Says(lines, key) : \A j \in Says(lines, key) : j <= i

(* What is read under a key.                                                *)
ReadAs(lines, key) ==
  IF Says(lines, key) = {} THEN Defaults[key] ELSE Meaning(key, lines[Winner(lines, key)].value)

(* The settings that are read, before they are validated.                   *)
Read(lines) == [key \in DOMAIN Defaults |-> ReadAs(lines, key)]

(* FromText validates what is read.                                         *)
LEMMA FromTextReads ==
  ASSUME NEW lines
  PROVE  FromText(lines) = Validated(Read(lines))
  BY DEF FromText, Read, ReadAs, Says, Winner

(* If any line says something of a key, the one that wins does.             *)
LEMMA WinnerSays ==
  ASSUME NEW lines \in Seq(Lines), NEW key, Says(lines, key) # {}
  PROVE  Winner(lines, key) \in Says(lines, key)
  <1>1. Len(lines) \in Nat /\ Says(lines, key) \in SUBSET (1..Len(lines))
    BY DEF Says
  <1>2. \E i \in Says(lines, key) : \A j \in Says(lines, key) : j <= i
    BY <1>1, GreatestIs
  <1> QED BY <1>2 DEF Winner

(* The lines of a file are lines.                                           *)
LEMMA LineTyped ==
  ASSUME NEW lines \in Seq(Lines), NEW i \in DOMAIN lines
  PROVE  lines[i] \in Lines /\ lines[i].value \in AnyValue
  <1>1. lines[i] \in Lines
    BY ElementOfSeq
  <1> QED BY <1>1 DEF Lines

(* Anything that is read has the types of settings.                         *)
LEMMA ReadIs ==
  ASSUME NEW lines \in Seq(Lines)
  PROVE  Read(lines) \in Unvalidated
  <1>1. ASSUME NEW key, Says(lines, key) # {}
        PROVE  \E value \in AnyValue :
                 Parses(key, value) /\ ReadAs(lines, key) = Meaning(key, value)
    BY <1>1, WinnerSays, LineTyped DEF Says, ReadAs
  <1>2. /\ Defaults.fft_size \in Nat /\ Defaults.window \in Windows
        /\ Defaults.averaging \in Averagings /\ Defaults.start_on_launch \in BOOLEAN
        /\ Defaults.min_hz \in Floats /\ Defaults.max_hz \in Floats
        /\ Defaults.min_db \in Floats /\ Defaults.max_db \in Floats
        /\ Defaults.level_grid_step \in Floats
        /\ Defaults.spl_offset_db \in Maybe(Floats) /\ Defaults.mic_cal_path \in Maybe(PathNames)
    BY DEF Defaults, Windows, Averagings, Floats, Maybe
  <1>3. \A key : Says(lines, key) = {} => ReadAs(lines, key) = Defaults[key]
    BY DEF ReadAs
  <1>4. /\ ReadAs(lines, "fft_size") \in Nat /\ ReadAs(lines, "window") \in Windows
        /\ ReadAs(lines, "averaging") \in Averagings
        /\ ReadAs(lines, "start_on_launch") \in BOOLEAN
        /\ ReadAs(lines, "min_hz") \in Floats /\ ReadAs(lines, "max_hz") \in Floats
        /\ ReadAs(lines, "min_db") \in Floats /\ ReadAs(lines, "max_db") \in Floats
        /\ ReadAs(lines, "level_grid_step") \in Floats
        /\ ReadAs(lines, "spl_offset_db") \in Maybe(Floats)
        /\ ReadAs(lines, "mic_cal_path") \in Maybe(PathNames)
    BY <1>1, <1>2, <1>3, ParsedMeans
  <1> QED BY <1>4, KeysAre DEF Read, Unvalidated, Keys

(* Any file reads as usable settings.                                       *)
LEMMA FromTextIs ==
  ASSUME NEW lines \in Seq(Lines)
  PROVE  FromText(lines) \in Settings /\ Usable(FromText(lines))
  BY ReadIs, FromTextReads, ValidatedIs

(* The lines every settings file has, and those of the two optional ones.   *)
Always(s) ==
  << Line("fft_size", Number(s.fft_size)), Line("window", Word(s.window)),
     Line("averaging", Word(s.averaging)), Line("start_on_launch", Truth(s.start_on_launch)),
     Line("min_hz", Number(s.min_hz)), Line("max_hz", Number(s.max_hz)),
     Line("min_db", Number(s.min_db)), Line("max_db", Number(s.max_db)),
     Line("level_grid_step", Number(s.level_grid_step)) >>

(* The line of an offset.                                                   *)
OffsetLine(s) == Line("spl_offset_db", Number(s.spl_offset_db.value))

(* The line of a calibration file.                                          *)
PathLine(s) == Line("mic_cal_path", [path |-> s.mic_cal_path.value])

(* Whether there is such a line.                                            *)
PathWritten(s) == IsGiven(s.mic_cal_path) /\ ~s.mic_cal_path.value.newline

(* What is written is lines.                                                *)
LEMMA LinesWritten ==
  ASSUME NEW s \in Settings
  PROVE  /\ Always(s) \in Seq(Lines)
         /\ IsGiven(s.spl_offset_db) => OffsetLine(s) \in Lines
         /\ PathWritten(s) => PathLine(s) \in Lines
  <1>1. \A x \in Int \cup {Inf} : Number(x) \in AnyValue
    BY DEF Number, AnyValue, Floats
  <1>2. \A w \in Words : Word(w) \in AnyValue
    BY DEF Word, AnyValue
  <1>3. \A b : Truth(b) \in AnyValue
    BY <1>2 DEF Truth, Words
  <1>4. \A key \in Keys, value \in AnyValue : Line(key, value) \in Lines
    BY KeysAre DEF Line, Lines
  <1>5. /\ s.fft_size \in Int /\ s.window \in Words /\ s.averaging \in Words
        /\ s.min_hz \in Int /\ s.max_hz \in Int \cup {Inf}
        /\ s.min_db \in Int /\ s.max_db \in Int \cup {Inf}
        /\ s.level_grid_step \in Int
        /\ s.spl_offset_db \in Maybe(Int) /\ s.mic_cal_path \in Maybe(PathNames)
    BY DEF Settings, FftSizes, Words
  <1>6. Always(s) \in Seq(Lines)
    <2>1. /\ Line("fft_size", Number(s.fft_size)) \in Lines
          /\ Line("window", Word(s.window)) \in Lines
          /\ Line("averaging", Word(s.averaging)) \in Lines
          /\ Line("start_on_launch", Truth(s.start_on_launch)) \in Lines
          /\ Line("min_hz", Number(s.min_hz)) \in Lines
          /\ Line("max_hz", Number(s.max_hz)) \in Lines
          /\ Line("min_db", Number(s.min_db)) \in Lines
          /\ Line("max_db", Number(s.max_db)) \in Lines
          /\ Line("level_grid_step", Number(s.level_grid_step)) \in Lines
      BY <1>1, <1>2, <1>3, <1>4, <1>5 DEF Keys
    <2> QED BY <2>1 DEF Always
  <1>7. IsGiven(s.spl_offset_db) => OffsetLine(s) \in Lines
    BY <1>1, <1>4, <1>5, OptionIs DEF Keys, OffsetLine
  <1>8. PathWritten(s) => PathLine(s) \in Lines
    <2>1. \A p \in PathNames : [path |-> p] \in AnyValue
      BY DEF AnyValue
    <2> QED BY <1>4, <1>5, <2>1, OptionIs DEF Keys, PathLine, PathWritten
  <1> QED BY <1>6, <1>7, <1>8

(* A settings file has these lines and no others.                           *)
LEMMA ToTextIs ==
  ASSUME NEW s \in Settings
  PROVE  /\ ToText(s) \in Seq(Lines)
         /\ ToSet(ToText(s)) = ToSet(Always(s))
              \cup (IF IsGiven(s.spl_offset_db) THEN {OffsetLine(s)} ELSE {})
              \cup (IF PathWritten(s) THEN {PathLine(s)} ELSE {})
  <1> DEFINE A == Always(s)
             B == IF IsGiven(s.spl_offset_db) THEN <<OffsetLine(s)>> ELSE <<>>
             C == IF PathWritten(s) THEN <<PathLine(s)>> ELSE <<>>
  <1>1. A \in Seq(Lines)
    BY LinesWritten
  <1>2. \A line \in Lines : <<line>> \in Seq(Lines) /\ ToSet(<<line>>) = {line}
    BY DEF ToSet
  <1>3. <<>> \in Seq(Lines) /\ ToSet(<<>>) = {}
    BY DEF ToSet
  <1>4. B \in Seq(Lines) /\ ToSet(B) = IF IsGiven(s.spl_offset_db) THEN {OffsetLine(s)} ELSE {}
    BY <1>2, <1>3, LinesWritten
  <1>5. C \in Seq(Lines) /\ ToSet(C) = IF PathWritten(s) THEN {PathLine(s)} ELSE {}
    BY <1>2, <1>3, LinesWritten
  <1> HIDE DEF A, B, C
  <1>6. A \o B \in Seq(Lines) /\ ToSet(A \o B) = ToSet(A) \cup ToSet(B)
    BY <1>1, <1>4, ToSetOfTwo
  <1>7. (A \o B) \o C \in Seq(Lines) /\ ToSet((A \o B) \o C) = ToSet(A \o B) \cup ToSet(C)
    <2> DEFINE D == A \o B
    <2>1. D \in Seq(Lines) /\ C \in Seq(Lines)
      BY <1>5, <1>6
    <2> HIDE DEF D
    <2>2. D \o C \in Seq(Lines) /\ ToSet(D \o C) = ToSet(D) \cup ToSet(C)
      BY <2>1, ToSetOfTwo
    <2> QED BY <2>2 DEF D
  <1>8. ToText(s) = (A \o B) \o C
    BY DEF ToText, A, B, C, Always, OffsetLine, PathWritten, PathLine
  <1>9. ToSet(A) = ToSet(Always(s))
    BY DEF A
  <1> QED BY <1>4, <1>5, <1>6, <1>7, <1>8, <1>9

(* A file cut short is still lines, the last of which may say anything.     *)
LEMMA InterruptedIs ==
  ASSUME NEW pieces \in Seq(Lines), NEW rest \in Interrupted(pieces)
  PROVE  rest \in Seq(Lines)
  <1> DEFINE Torn(n) == {Append(SubSeq(pieces, 1, n), [pieces[n + 1] EXCEPT !.value = torn]) :
                    torn \in IF "value" \in DOMAIN pieces[n + 1] THEN TornValues ELSE {}}
  <1>1. PICK n \in CutLines \cap 0..Len(pieces) - 1 :
          rest \in {SubSeq(pieces, 1, n)} \cup Torn(n)
    BY DEF Interrupted
  <1>2. n \in 0..Len(pieces) /\ n + 1 \in 1..Len(pieces)
    BY <1>1
  <1>3. SubSeq(pieces, 1, n) \in Seq(Lines)
    BY <1>2
  <1>4. ASSUME NEW torn \in TornValues
        PROVE  Append(SubSeq(pieces, 1, n), [pieces[n + 1] EXCEPT !.value = torn]) \in Seq(Lines)
    <2>1. torn \in AnyValue
      BY SettingsAssumption DEF LineValues, AnyValue, Words
    <2>2. pieces[n + 1] \in Lines
      BY <1>2, ElementOfSeq
    <2>3. [pieces[n + 1] EXCEPT !.value = torn] \in Lines
      BY <2>1, <2>2 DEF Lines
    <2> QED BY <1>3, <2>3, AppendProperties
  <1> QED BY <1>1, <1>3, <1>4

(* The file holds lines, and what was loaded is usable.                     *)
SettingsInv ==
  /\ DOMAIN disk = Paths
  /\ disk.settings \in Seq(Lines)
  /\ Usable(loaded)

(* What a save leaves, whole or cut short, is lines.                        *)
LEMMA SettingsSaved ==
  ASSUME NEW s \in SettingsOffered
  PROVE  /\ ToText(FromC(s)) \in Seq(Lines)
         /\ \A rest \in Interrupted(ToText(FromC(s))) : rest \in Seq(Lines)
  <1>1. ToText(FromC(s)) \in Seq(Lines)
    BY SettingsAssumption, FromCIs, ToTextIs
  <1> QED BY <1>1, InterruptedIs

(* A save of another file leaves the settings alone.                        *)
LEMMA OtherFilesWritten ==
  ASSUME SettingsInv, NEW path \in Paths \ {"settings"}, NEW pieces, NEW saved,
         WriteFile(path, pieces, saved)
  PROVE  DOMAIN disk' = Paths /\ disk'.settings = disk.settings
  BY DEF WriteFile, SettingsInv, Paths

(* Every call, and a kill in the middle of a save, keeps it.                *)
LEMMA SettingsSteps ==
  ASSUME SettingsInv, [Next]_vars
  PROVE  SettingsInv'
  <1>1. CASE UNCHANGED <<disk, loaded>>
    BY <1>1 DEF SettingsInv, Usable
  <1>2. CASE UNCHANGED vars
    BY <1>1, <1>2 DEF vars, fileVars
  <1>3. CASE EqCall \/ TargetCall \/ DrawCall \/ TraceCall \/ Capture \/ Align \/ Optimise
    BY <1>1, <1>3 DEF EqCall, TargetCall, DrawCall, TraceCall, Capture, Align, Optimise, fileVars
  <1>4. CASE RestartSession \/ Callback \/ Worker
    BY <1>1, <1>4 DEF RestartSession, Callback, Worker, fileVars
  <1>5. CASE SaveSettings
    <2>1. UNCHANGED loaded
      BY <1>5 DEF SaveSettings
    <2>2. PICK s \in SettingsOffered : WriteFile("settings", ToText(FromC(s)), Kept(FromC(s)))
      BY <1>5 DEF SaveSettings
    <2>3. \/ UNCHANGED disk
          \/ \E rest \in Seq(Lines) : disk' = [disk EXCEPT !.settings = rest]
      BY <2>2, SettingsSaved DEF WriteFile
    <2> QED BY <2>1, <2>3 DEF SettingsInv, Usable, Paths
  <1>6. CASE LoadSettings
    <2>1. Usable(Defaults)
      BY DefaultsUsable
    <2>2. Usable(FromText(disk.settings))
      BY FromTextIs DEF SettingsInv
    <2>3. Usable(loaded')
      BY <1>6, <2>1, <2>2 DEF LoadSettings
    <2>4. UNCHANGED disk
      BY <1>6 DEF LoadSettings
    <2> QED BY <2>3, <2>4 DEF SettingsInv, Usable
  <1>7. CASE SaveMeasurement
    <2>1. UNCHANGED loaded
      BY <1>7 DEF SaveMeasurement
    <2>2. \E path \in {"measurement", "text"} : \E pieces, saved : WriteFile(path, pieces, saved)
      BY <1>7 DEF SaveMeasurement
    <2>3. DOMAIN disk' = Paths /\ disk'.settings = disk.settings
      BY <2>2, OtherFilesWritten DEF Paths
    <2> QED BY <2>1, <2>3 DEF SettingsInv, Usable
  <1>8. CASE ExportFilters
    <2>1. UNCHANGED loaded
      BY <1>8 DEF ExportFilters
    <2>2. \E pieces, saved : WriteFile("filters", pieces, saved)
      BY <1>8 DEF ExportFilters
    <2>3. DOMAIN disk' = Paths /\ disk'.settings = disk.settings
      BY <2>2, OtherFilesWritten DEF Paths
    <2> QED BY <2>1, <2>3 DEF SettingsInv, Usable
  <1>9. CASE KilledWhileSaving
    <2>1. PICK s \in SettingsOffered : \E rest \in Interrupted(ToText(FromC(s))) :
            disk' = [disk EXCEPT !.settings = rest]
      BY <1>9 DEF KilledWhileSaving
    <2>2. PICK rest \in Seq(Lines) : disk' = [disk EXCEPT !.settings = rest]
      BY <2>1, SettingsSaved
    <2>3. DOMAIN disk' = Paths /\ disk'.settings = rest
      BY <2>2 DEF SettingsInv, Paths
    <2>4. loaded' = FromText(disk'.settings)
      BY <1>9 DEF KilledWhileSaving
    <2>5. Usable(loaded')
      BY <2>3, <2>4, FromTextIs
    <2> QED BY <2>3, <2>5 DEF SettingsInv, Usable
  <1> QED BY <1>2, <1>3, <1>4, <1>5, <1>6, <1>7, <1>8, <1>9 DEF Next

(* Settings loaded from a file that was saved, cut short at any piece with  *)
(* any value left in its last line, or never there, are usable: no axis     *)
(* divides by zero (model/settings.hpp).                                    *)
THEOREM LoadedIsAlwaysUsable == Spec => []LoadedIsUsable
  <1>1. Init => SettingsInv
    <2>1. <<>> \in Seq(Lines)
      OBVIOUS
    <2>2. Usable(Defaults)
      BY DefaultsUsable
    <2> QED BY <2>1, <2>2 DEF Init, SettingsInv, Absent, Paths
  <1>2. SettingsInv /\ [Next]_vars => SettingsInv'
    BY SettingsSteps
  <1>3. SettingsInv => LoadedIsUsable
    BY DEF SettingsInv, Usable, UsableHz, UsableDb, LoadedIsUsable
  <1> QED BY <1>1, <1>2, <1>3, PTL DEF Spec

(* The settings with these fields, but for the path.                        *)
Exactly(s, mic) ==
  [fft_size : {s.fft_size}, window : {s.window}, averaging : {s.averaging},
   start_on_launch : {s.start_on_launch}, min_hz : {s.min_hz}, max_hz : {s.max_hz},
   min_db : {s.min_db}, max_db : {s.max_db}, level_grid_step : {s.level_grid_step},
   spl_offset_db : {s.spl_offset_db}, mic_cal_path : {mic}]

(* There is one of them.                                                    *)
LEMMA ExactlyOne ==
  ASSUME NEW s, NEW mic, NEW a \in Exactly(s, mic), NEW b \in Exactly(s, mic)
  PROVE  a = b
  BY DEF Exactly

(* A path that is given has a name.                                         *)
Named(s) == IsGiven(s.mic_cal_path) => ~EmptyPath(s.mic_cal_path.value)

(* Usable settings are left as they are.                                    *)
LEMMA ValidatedStays ==
  ASSUME NEW s \in Settings, Usable(s), Named(s)
  PROVE  Validated(s) = s
  <1>1. s \in Exactly(s, s.mic_cal_path)
    BY DEF Settings, Exactly
  <1>2. \A x \in Int : IsFinite(x)
    BY FloatAssumption DEF IsFinite
  <1>3. Validated(s) \in Exactly(s, s.mic_cal_path)
    <2> DEFINE minHz == IF ~IsFinite(s.min_hz) \/ s.min_hz <= 0 THEN Defaults.min_hz ELSE s.min_hz
             maxHz == IF ~IsFinite(s.max_hz) \/ s.max_hz <= minHz
                      THEN AtLeastDefault(FloatOf(2 * minHz)) ELSE s.max_hz
             minDb == IF IsFinite(s.min_db) THEN s.min_db ELSE Defaults.min_db
             maxDb == IF ~IsFinite(s.max_db) \/ s.max_db <= minDb
                      THEN FloatOf(minDb + DefaultRange) ELSE s.max_db
             fft == IF s.fft_size \in FftSizes THEN s.fft_size ELSE Defaults.fft_size
             step == IF ~IsFinite(s.level_grid_step) \/ s.level_grid_step <= 0
                     THEN Defaults.level_grid_step ELSE s.level_grid_step
             spl == IF IsGiven(s.spl_offset_db) /\ ~IsFinite(s.spl_offset_db.value)
                    THEN Unset ELSE s.spl_offset_db
             mic == IF IsGiven(s.mic_cal_path) /\ EmptyPath(s.mic_cal_path.value)
                    THEN Unset ELSE s.mic_cal_path
             v == [s EXCEPT !.fft_size = fft, !.min_hz = minHz, !.max_hz = maxHz,
                            !.min_db = minDb, !.max_db = maxDb, !.level_grid_step = step,
                            !.spl_offset_db = spl, !.mic_cal_path = mic]
    <2>1. /\ s.min_hz \in Int /\ s.max_hz \in Int \cup {Inf}
          /\ s.min_db \in Int /\ s.max_db \in Int \cup {Inf}
          /\ s.level_grid_step \in Int /\ s.spl_offset_db \in Maybe(Int)
      BY DEF Settings
    <2>2. minHz = s.min_hz
      BY <1>2, <2>1 DEF Usable, UsableHz
    <2>3. maxHz = s.max_hz
      <3>1. CASE s.max_hz = Inf
        <4>1. FloatOf(2 * minHz) = Inf
          BY <2>2, <3>1 DEF Usable, UsableHz
        <4> QED BY <3>1, <4>1 DEF AtLeastDefault, IsFinite
      <3>2. CASE s.max_hz # Inf
        BY <1>2, <2>1, <2>2, <3>2 DEF Usable, UsableHz
      <3> QED BY <3>1, <3>2
    <2>4. minDb = s.min_db
      BY <1>2, <2>1
    <2>5. maxDb = s.max_db
      <3>1. CASE s.max_db # Inf /\ s.min_db < s.max_db
        BY <1>2, <2>1, <2>4, <3>1
      <3>2. CASE s.max_db = FloatOf(s.min_db + DefaultRange)
        BY <2>4, <3>2
      <3> QED BY <3>1, <3>2 DEF Usable, UsableDb
    <2>6. fft = s.fft_size
      BY DEF Usable
    <2>7. step = s.level_grid_step
      BY <1>2, <2>1 DEF Usable
    <2>8. spl = s.spl_offset_db
      BY <1>2, <2>1, OptionIs
    <2>9. mic = s.mic_cal_path
      BY DEF Named
    <2> HIDE DEF minHz, maxHz, minDb, maxDb, fft, step, spl, mic
    <2>10. v \in Exactly(s, s.mic_cal_path)
      BY <2>2, <2>3, <2>4, <2>5, <2>6, <2>7, <2>8, <2>9 DEF Settings, Exactly
    <2> QED BY <2>10 DEF Validated, minHz, maxHz, minDb, maxDb, fft, step, spl, mic
  <1> QED BY <1>1, <1>3, ExactlyOne

(* Where all lines with a key say the same, that is what is read.           *)
LEMMA OneMeaning ==
  ASSUME NEW lines \in Seq(Lines), NEW key, NEW value,
         \A line \in ToSet(lines) : line.key = key => line.value = value
  PROVE  /\ (\A line \in ToSet(lines) : line.key # key) => ReadAs(lines, key) = Defaults[key]
         /\ (\E line \in ToSet(lines) : line.key = key) =>
              ReadAs(lines, key) = IF Parses(key, value) THEN Meaning(key, value) ELSE Defaults[key]
  <1>1. \A i \in DOMAIN lines : lines[i] \in ToSet(lines)
    BY DEF ToSet
  <1>2. CASE \A line \in ToSet(lines) : line.key # key
    <2>1. Says(lines, key) = {}
      BY <1>1, <1>2 DEF Says
    <2> QED BY <1>2, <2>1 DEF ReadAs
  <1>3. CASE \E line \in ToSet(lines) : line.key = key
    <2>1. PICK i \in DOMAIN lines : lines[i].key = key
      BY <1>3 DEF ToSet
    <2>2. \A k \in DOMAIN lines : lines[k].key = key => lines[k].value = value
      BY <1>1
    <2>3. CASE Parses(key, value)
      <3>1. Says(lines, key) # {}
        BY <2>1, <2>2, <2>3 DEF Says
      <3>2. Winner(lines, key) \in Says(lines, key)
        BY <3>1, WinnerSays
      <3>3. lines[Winner(lines, key)].value = value
        BY <2>2, <3>2 DEF Says
      <3> QED BY <1>3, <2>3, <3>1, <3>3 DEF ReadAs
    <2>4. CASE ~Parses(key, value)
      <3>1. Says(lines, key) = {}
        BY <2>2, <2>4 DEF Says
      <3> QED BY <1>3, <2>4, <3>1 DEF ReadAs
    <2> QED BY <2>3, <2>4
  <1> QED BY <1>2, <1>3

(* Settings that were written read back, but for a path that cannot be:     *)
(* every line parses as what was printed, under its own key, and validation *)
(* changes nothing (settings.cpp, to_text and from_text).                   *)
LEMMA SettingsReadBack ==
  ASSUME NEW s \in Settings, Usable(s), Named(s)
  PROVE  FromText(ToText(s)) = Kept(s)
  <1> DEFINE lines == ToText(s)
             mic == IF PathWritten(s) /\ s.mic_cal_path.value.name # ""
                    THEN Given([s.mic_cal_path.value EXCEPT !.blank = FALSE]) ELSE Unset
             Basic == { Line("fft_size", Number(s.fft_size)), Line("window", Word(s.window)),
                        Line("averaging", Word(s.averaging)),
                        Line("start_on_launch", Truth(s.start_on_launch)),
                        Line("min_hz", Number(s.min_hz)), Line("max_hz", Number(s.max_hz)),
                        Line("min_db", Number(s.min_db)), Line("max_db", Number(s.max_db)),
                        Line("level_grid_step", Number(s.level_grid_step)) }
  <1>1. ToSet(Always(s)) = Basic
    BY DEF ToSet, Always
  <1>2. /\ lines \in Seq(Lines)
        /\ ToSet(lines) = Basic
              \cup (IF IsGiven(s.spl_offset_db) THEN {OffsetLine(s)} ELSE {})
              \cup (IF PathWritten(s) THEN {PathLine(s)} ELSE {})
    BY <1>1, ToTextIs
  <1> HIDE DEF lines
  <1>3. ASSUME NEW key, NEW value,
               Line(key, value) \in Basic, key # "spl_offset_db", key # "mic_cal_path",
               \A line \in Basic : line.key = key => line.value = value
        PROVE  ReadAs(lines, key) =
                 IF Parses(key, value) THEN Meaning(key, value) ELSE Defaults[key]
    <2>1. \A line \in ToSet(lines) : line.key = key => line.value = value
      BY <1>2, <1>3 DEF OffsetLine, PathLine, Line
    <2>2. Line(key, value) \in ToSet(lines) /\ Line(key, value).key = key
      BY <1>2, <1>3 DEF Line
    <2> QED BY <1>2, <2>1, <2>2, OneMeaning
  <1>4. ReadAs(lines, "fft_size") = s.fft_size
    <2>1. s.fft_size \in Nat /\ IsFinite(s.fft_size)
      BY FloatAssumption DEF Settings, FftSizes, IsFinite
    <2>2. Parses("fft_size", Number(s.fft_size))
          /\ Meaning("fft_size", Number(s.fft_size)) = s.fft_size
      BY <2>1 DEF Parses, Meaning, Number, IsNumber
    <2> QED BY <1>3, <2>2 DEF Line
  <1>5. ReadAs(lines, "window") = s.window
    <2>1. Parses("window", Word(s.window)) /\ Meaning("window", Word(s.window)) = s.window
      BY DEF Settings, Parses, Meaning, Word, IsWord
    <2> QED BY <1>3, <2>1 DEF Line
  <1>6. ReadAs(lines, "averaging") = s.averaging
    <2>1. /\ Parses("averaging", Word(s.averaging))
          /\ Meaning("averaging", Word(s.averaging)) = s.averaging
      BY DEF Settings, Parses, Meaning, Word, IsWord
    <2> QED BY <1>3, <2>1 DEF Line
  <1>7. ReadAs(lines, "start_on_launch") = s.start_on_launch
    <2>1. /\ Parses("start_on_launch", Truth(s.start_on_launch))
          /\ Meaning("start_on_launch", Truth(s.start_on_launch)) = s.start_on_launch
      BY DEF Settings, Parses, Meaning, Truth, Word, IsWord
    <2> QED BY <1>3, <2>1 DEF Line
  <1>8. \A x : \A key \in {"min_hz", "max_hz", "min_db", "max_db", "level_grid_step"} :
          Parses(key, Number(x)) /\ Meaning(key, Number(x)) = x
    BY DEF Parses, Meaning, Number, IsNumber
  <1>9. ReadAs(lines, "min_hz") = s.min_hz
    BY <1>3, <1>8 DEF Line
  <1>10. ReadAs(lines, "max_hz") = s.max_hz
    BY <1>3, <1>8 DEF Line
  <1>11. ReadAs(lines, "min_db") = s.min_db
    BY <1>3, <1>8 DEF Line
  <1>12. ReadAs(lines, "max_db") = s.max_db
    BY <1>3, <1>8 DEF Line
  <1>13. ReadAs(lines, "level_grid_step") = s.level_grid_step
    BY <1>3, <1>8 DEF Line
  <1>14. \A line \in Basic : line.key # "spl_offset_db" /\ line.key # "mic_cal_path"
    BY DEF Line
  <1>15. /\ Defaults["spl_offset_db"] = Unset /\ Defaults["mic_cal_path"] = Unset
    BY DEF Defaults
  <1> HIDE DEF Basic
  <1>16. ReadAs(lines, "spl_offset_db") = s.spl_offset_db
    <2> DEFINE value == Number(s.spl_offset_db.value)
    <2>1. \A line \in ToSet(lines) :
            line.key = "spl_offset_db" => line.value = value /\ IsGiven(s.spl_offset_db)
      BY <1>2, <1>14 DEF OffsetLine, PathLine, Line
    <2>2. s.spl_offset_db \in Maybe(Int)
      BY DEF Settings
    <2>3. CASE IsGiven(s.spl_offset_db)
      <3>1. OffsetLine(s) \in ToSet(lines) /\ OffsetLine(s).key = "spl_offset_db"
        BY <1>2, <2>3 DEF OffsetLine, Line
      <3>2. /\ Parses("spl_offset_db", value)
            /\ Meaning("spl_offset_db", value) = Given(s.spl_offset_db.value)
        BY DEF Parses, Meaning, Number, IsNumber
      <3>3. Given(s.spl_offset_db.value) = s.spl_offset_db
        BY <2>2, <2>3, OptionIs
      <3> QED BY <1>2, <2>1, <3>1, <3>2, <3>3, OneMeaning
    <2>4. CASE ~IsGiven(s.spl_offset_db)
      <3>1. s.spl_offset_db = Unset
        BY <2>2, <2>4, OptionIs
      <3>2. \A line \in ToSet(lines) : line.key # "spl_offset_db"
        BY <2>1, <2>4
      <3> QED BY <1>2, <1>15, <2>1, <3>1, <3>2, OneMeaning
    <2> QED BY <2>3, <2>4
  <1>17. ReadAs(lines, "mic_cal_path") = mic
    <2> DEFINE value == [path |-> s.mic_cal_path.value]
    <2>1. \A line \in ToSet(lines) :
            line.key = "mic_cal_path" => line.value = value /\ PathWritten(s)
      BY <1>2, <1>14 DEF OffsetLine, PathLine, Line
    <2>2. CASE PathWritten(s)
      <3>1. PathLine(s) \in ToSet(lines) /\ PathLine(s).key = "mic_cal_path"
        BY <1>2, <2>2 DEF PathLine, Line
      <3>2. /\ Parses("mic_cal_path", value) <=> s.mic_cal_path.value.name # ""
            /\ Meaning("mic_cal_path", value) = Given([s.mic_cal_path.value EXCEPT !.blank = FALSE])
        BY DEF Parses, Meaning, IsPath
      <3> QED BY <1>2, <1>15, <2>1, <2>2, <3>1, <3>2, OneMeaning
    <2>3. CASE ~PathWritten(s)
      <3>1. \A line \in ToSet(lines) : line.key # "mic_cal_path"
        BY <2>1, <2>3
      <3> QED BY <1>2, <1>15, <2>1, <2>3, <3>1, OneMeaning
    <2> QED BY <2>2, <2>3
  <1>18. mic \in Maybe(PathNames) /\ Kept(s) \in Exactly(s, mic) /\ Named(Kept(s))
    <2>1. s.mic_cal_path \in Maybe(PathNames)
      BY DEF Settings
    <2>2. CASE ~IsGiven(s.mic_cal_path)
      BY <2>1, <2>2, OptionIs DEF Kept, Exactly, Settings, PathWritten, Maybe, Named
    <2>3. CASE IsGiven(s.mic_cal_path)
      <3> DEFINE p == s.mic_cal_path.value
                 q == [p EXCEPT !.blank = FALSE]
      <3>1. p \in PathNames
        BY <2>1, <2>3, OptionIs
      <3>2. q \in PathNames /\ q.name = p.name
        BY <3>1 DEF PathNames
      <3>3. mic = IF p.newline \/ p.name = "" THEN Unset ELSE Given(q)
        BY <2>3 DEF PathWritten
      <3>4. mic \in Maybe(PathNames) /\ (IsGiven(mic) => mic.value.name # "")
        BY <3>2, <3>3 DEF Maybe, Given, IsGiven, Unset
      <3>5. Kept(s) = [s EXCEPT !.mic_cal_path = mic]
        BY <2>3, <3>3 DEF Kept
      <3> HIDE DEF mic, p, q
      <3>6. Kept(s) \in Exactly(s, mic) /\ Kept(s).mic_cal_path = mic
        BY <3>5 DEF Exactly, Settings
      <3> QED BY <3>4, <3>6 DEF Named, EmptyPath
    <2> QED BY <2>2, <2>3
  <1> HIDE DEF mic
  <1>19. Read(lines) \in Exactly(s, mic)
    BY <1>4, <1>5, <1>6, <1>7, <1>9, <1>10, <1>11, <1>12, <1>13, <1>16, <1>17, KeysAre
       DEF Read, Exactly, Keys
  <1>20. Read(lines) = Kept(s)
    BY <1>18, <1>19, ExactlyOne
  <1>21. Kept(s) \in Settings /\ Usable(Kept(s))
    BY <1>18 DEF Exactly, Settings, Usable, UsableHz, UsableDb
  <1>22. Validated(Kept(s)) = Kept(s)
    BY <1>18, <1>21, ValidatedStays
  <1> QED BY <1>20, <1>22, FromTextReads DEF lines

(* An empty path is no path.                                                *)
LEMMA FromCNamed ==
  ASSUME NEW c \in CSettings
  PROVE  Named(FromC(c))
  <1>1. ~IsGiven(Unset)
    BY DEF IsGiven, Unset
  <1>2. \A s : LET mic == IF IsGiven(s.mic_cal_path) /\ EmptyPath(s.mic_cal_path.value)
                         THEN Unset ELSE s.mic_cal_path
              IN  IsGiven(mic) => ~EmptyPath(mic.value)
    BY <1>1
  <1>3. \A s \in Unvalidated : Named(Validated(s))
    <2> TAKE s \in Unvalidated
    <2>1. Validated(s).mic_cal_path =
            IF IsGiven(s.mic_cal_path) /\ EmptyPath(s.mic_cal_path.value)
            THEN Unset ELSE s.mic_cal_path
      BY DEF Validated, Unvalidated
    <2> QED BY <1>2, <2>1 DEF Named
  <1> DEFINE window == IF c.window = "tukey" THEN "hann" ELSE c.window
             mic == IF IsGiven(c.mic_cal_path) /\ EmptyPath(c.mic_cal_path.value)
                    THEN Unset ELSE c.mic_cal_path
             u == [c EXCEPT !.window = window, !.mic_cal_path = mic]
  <1>4. window \in Windows
    BY DEF CSettings, Windows
  <1>5. mic \in Maybe(PathNames)
    BY DEF CSettings, Maybe
  <1> HIDE DEF window, mic
  <1>6. u \in Unvalidated
    BY <1>4, <1>5 DEF CSettings, Unvalidated
  <1> HIDE DEF u
  <1>7. FromC(c) = Validated(u)
    BY DEF FromC, u, window, mic
  <1> QED BY <1>3, <1>6, <1>7

--------------------------------------------------------------------------------
(* Exported filters.                                                        *)

(* What a piece and others after it hold.                                   *)
LEMMA OneAndMore ==
  ASSUME NEW h, NEW n \in Nat, NEW S, NEW s \in [1..n -> S]
  PROVE  /\ Len(<<h>> \o s) = n + 1 /\ (<<h>> \o s)[1] = h
         /\ \A i \in 1..n : (<<h>> \o s)[i + 1] = s[i]
         /\ DOMAIN (<<h>> \o s) = 1..(n + 1)
  <1> DEFINE U == {h} \cup S
             one == <<h>>
             c == one \o s
  <1>1. one \in Seq(U) /\ Len(one) = 1 /\ one[1] = h
    OBVIOUS
  <1>2. s \in Seq(U) /\ Len(s) = n
    <2>1. s \in [1..n -> U]
      OBVIOUS
    <2> HIDE DEF U
    <2> QED BY <2>1, Listed
  <1> HIDE DEF one, U
  <1>3. c \in Seq(U) /\ Len(c) = Len(one) + Len(s)
    BY <1>1, <1>2, ConcatProperties
  <1>4. \A i \in 1..Len(one) + Len(s) : c[i] = IF i <= Len(one) THEN one[i] ELSE s[i - Len(one)]
    BY <1>1, <1>2, ConcatProperties
  <1> HIDE DEF c
  <1>5. c[1] = h
    BY <1>1, <1>2, <1>4
  <1>6. ASSUME NEW i \in 1..n
        PROVE  c[i + 1] = s[i]
    <2>1. i + 1 \in 1..(1 + n) /\ ~(i + 1 <= 1) /\ (i + 1) - 1 = i
      OBVIOUS
    <2> QED BY <1>1, <1>2, <1>4, <2>1
  <1>7. Len(c) = n + 1 /\ DOMAIN c = 1..(n + 1)
    BY <1>1, <1>2, <1>3
  <1> QED BY <1>5, <1>6, <1>7 DEF c, one

(* A token names one shape.                                                 *)
LEMMA KindOfIs ==
  ASSUME NEW kind \in FilterKinds
  PROVE  KindOf(Token(kind)) = kind
  <1>1. /\ Token("Peaking") = "PK" /\ Token("LowShelf") = "LSC" /\ Token("HighShelf") = "HSC"
        /\ Token("LowPass") = "LPQ" /\ Token("HighPass") = "HPQ" /\ Token("BandPass") = "BP"
        /\ Token("Notch") = "NO" /\ Token("AllPass") = "AP"
    BY DEF Token
  <1>2. \A other \in FilterKinds : Token(other) = Token(kind) => other = kind
    BY <1>1 DEF FilterKinds
  <1> QED BY <1>2 DEF KindOf

(* A line says what its band is designed to.                                *)
LEMMA LineDesigns ==
  ASSUME NEW i, NEW b \in FilterBands
  PROVE  DesignOfLine(FilterLine(i, b)) = Design(b)
  <1>1. b.kind \in FilterKinds /\ KindOf(Token(b.kind)) = b.kind /\ b.enabled \in BOOLEAN
    BY KindOfIs DEF FilterBands
  <1>2. CASE ~b.enabled
    <2>1. FilterLine(i, b).on = FALSE
      BY <1>2 DEF FilterLine
    <2>2. DesignOfLine(FilterLine(i, b)) = Identity
      BY <2>1 DEF DesignOfLine
    <2> QED BY <1>2, <2>2 DEF Design, Transparent
  <1>3. CASE b.enabled /\ UsesGain(b.kind)
    <2> DEFINE line == [filter |-> i, on |-> TRUE, token |-> Token(b.kind), hz |-> b.hz,
                        gain |-> b.gain]
               told == [kind |-> b.kind, hz |-> b.hz, enabled |-> TRUE, gain |-> b.gain]
    <2>1. FilterLine(i, b) = line
      BY <1>3 DEF FilterLine
    <2>2. line.on = TRUE /\ line.token = Token(b.kind) /\ line.hz = b.hz /\ line.gain = b.gain
          /\ "gain" \in DOMAIN line
      OBVIOUS
    <2> HIDE DEF line
    <2>3. DesignOfLine(line) = Design(told)
      BY <1>1, <2>2 DEF DesignOfLine
    <2>4. told.kind = b.kind /\ told.hz = b.hz /\ told.gain = b.gain /\ told.enabled = TRUE
      OBVIOUS
    <2> HIDE DEF told
    <2>5. Design(told) = Design(b)
      BY <1>1, <1>3, <2>4 DEF Design, Transparent
    <2> QED BY <2>1, <2>3, <2>5
  <1>4. CASE b.enabled /\ ~UsesGain(b.kind)
    <2> DEFINE line == [filter |-> i, on |-> TRUE, token |-> Token(b.kind), hz |-> b.hz]
               told == [kind |-> b.kind, hz |-> b.hz, enabled |-> TRUE, gain |-> 0]
    <2>1. FilterLine(i, b) = line
      BY <1>4 DEF FilterLine
    <2>2. line.on = TRUE /\ line.token = Token(b.kind) /\ line.hz = b.hz
          /\ ~("gain" \in DOMAIN line)
      OBVIOUS
    <2> HIDE DEF line
    <2>3. DesignOfLine(line) = Design(told)
      BY <1>1, <2>2 DEF DesignOfLine
    <2>4. told.kind = b.kind /\ told.hz = b.hz /\ told.gain = 0 /\ told.enabled = TRUE
      OBVIOUS
    <2> HIDE DEF told
    <2>5. Design(told) = Design(b)
      BY <1>1, <1>4, <2>4 DEF Design, Transparent
    <2> QED BY <2>1, <2>3, <2>5
  <1> QED BY <1>1, <1>2, <1>3, <1>4

(* What a device designs of a parametric text.                              *)
DesignsOf(text) == [i \in 1..Len(text) - 1 |-> DesignOfLine(text[i + 1])]

(* The lines of a parametric text are designed as the bands are.            *)
LEMMA LinesDesign ==
  ASSUME NEW h, NEW bands \in Seq(FilterBands), NEW text,
         text = <<h>> \o FilterLines(bands)
  PROVE  /\ text[1] = h
         /\ DesignsOf(text) = DesignAll(bands)
  <1> DEFINE n == Len(bands)
             Kinds2 == {FilterLine(i, bands[i]) : i \in 1..n}
             lines == FilterLines(bands)
  <1>1. n \in Nat /\ DOMAIN bands = 1..n /\ \A i \in 1..n : bands[i] \in FilterBands
    OBVIOUS
  <1>2. lines \in [1..n -> Kinds2] /\ \A i \in 1..n : lines[i] = FilterLine(i, bands[i])
    <2> HIDE DEF n
    <2> QED BY <1>1 DEF FilterLines
  <1> HIDE DEF lines, Kinds2, n
  <1>3. /\ Len(text) = n + 1 /\ text[1] = h
        /\ \A i \in 1..n : text[i + 1] = lines[i]
    BY <1>1, <1>2, OneAndMore DEF lines
  <1>4. Len(text) - 1 = n
    BY <1>1, <1>3
  <1>5. \A i \in 1..n : DesignOfLine(text[i + 1]) = Design(bands[i])
    BY <1>1, <1>2, <1>3, LineDesigns
  <1> QED BY <1>1, <1>3, <1>4, <1>5 DEF DesignAll, DesignsOf

(* The scales of a miniDSP text add up to the preamplification, which is in *)
(* the first section alone.                                                 *)
LEMMA OneScale ==
  ASSUME NEW n \in Nat \ {0}, NEW p \in Int, NEW scales \in Seq(Int), Len(scales) = n,
         \A i \in 1..n : scales[i] = IF i = 1 THEN p ELSE 0
  PROVE  SumOf(scales) = p
  <1>1. PICK f : Sums(scales, f) /\ SumOf(scales) = f[n]
    BY SumIs
  <1>2. \A k \in 0..n : f[k] = IF k = 0 THEN 0 ELSE f[k - 1] + scales[k]
    BY <1>1 DEF Sums
  <1> DEFINE T == {k \in 0..n : f[k] = IF k = 0 THEN 0 ELSE p}
  <1>3. 0 \in T
    BY <1>2
  <1>4. ASSUME NEW k \in 1..n, k - 1 \in T
        PROVE  k \in T
    <2>1. k \in 0..n /\ k # 0 /\ f[k] = f[k - 1] + scales[k]
      BY <1>2
    <2>2. f[k - 1] = IF k - 1 = 0 THEN 0 ELSE p
      BY <1>4
    <2>3. k = 1 <=> k - 1 = 0
      OBVIOUS
    <2>4. f[k] = p
      BY <2>1, <2>2, <2>3
    <2> QED BY <2>1, <2>4
  <1>5. n \in T
    <2>1. n \in 0..n
      OBVIOUS
    <2> HIDE DEF T
    <2> QED BY <1>3, <1>4, <2>1, Climbs
  <1> QED BY <1>1, <1>5

(* Two sections of nothing are nothing to hear.                             *)
LEMMA NothingAudible == Audible(<<Identity>>) = Audible(<<>>)
  <1>1. DOMAIN <<Identity>> = {1} /\ <<Identity>>[1] = Identity /\ DOMAIN <<>> = {}
    OBVIOUS
  <1>2. {i \in DOMAIN <<Identity>> : <<Identity>>[i] # Identity} = {}
    BY <1>1
  <1>3. {i \in DOMAIN <<>> : <<>>[i] # Identity} = {}
    BY <1>1
  <1> QED BY <1>2, <1>3 DEF Audible

(* A text that is imported runs as the equaliser that was exported.         *)
LEMMA ExportRuns ==
  ASSUME NEW format \in Formats, NEW eq, Designed(eq)
  PROVE  DeviceRuns(FilterText(format, eq.bands, eq.preamp)) = Shown(eq)
  <1> DEFINE bands == eq.bands
             p == eq.preamp
             n == Len(bands)
  <1>1. bands \in Seq(FilterBands) /\ p \in Int /\ eq.sections = DesignAll(bands)
    BY DEF Designed
  <1>2. n \in Nat /\ DOMAIN bands = 1..n
    BY <1>1
  <1>3. Shown(eq) = [sections |-> Audible(DesignAll(bands)), trim |-> p]
    BY <1>1 DEF Shown
  <1>4. CASE format = "Rew"
    <2> DEFINE h == [recommended |-> p]
               text == <<h>> \o FilterLines(bands)
    <2>1. FilterText(format, bands, p) = text
      BY <1>4 DEF FilterText, ToRew
    <2>2. ~("biquad" \in DOMAIN h) /\ ~("preamp" \in DOMAIN h) /\ h.recommended = p
      OBVIOUS
    <2>3. text = <<h>> \o FilterLines(bands)
      OBVIOUS
    <2> HIDE DEF h, text, bands, p, n
    <2>4. /\ text[1] = h
          /\ DesignsOf(text) = DesignAll(bands)
      BY <1>1, <2>3, LinesDesign
    <2>5. DeviceRuns(text) = [sections |-> Audible(DesignAll(bands)), trim |-> p]
      BY <2>2, <2>4 DEF DeviceRuns, DesignsOf
    <2> QED BY <1>3, <2>1, <2>5 DEF bands, p
  <1>5. CASE format = "EqualizerApo"
    <2> DEFINE h == [preamp |-> p]
               text == <<h>> \o FilterLines(bands)
    <2>1. FilterText(format, bands, p) = text
      BY <1>5 DEF FilterText, ToEqualizerApo
    <2>2. ~("biquad" \in DOMAIN h) /\ ("preamp" \in DOMAIN h) /\ h.preamp = p
      OBVIOUS
    <2>3. text = <<h>> \o FilterLines(bands)
      OBVIOUS
    <2> HIDE DEF h, text, bands, p, n
    <2>4. /\ text[1] = h
          /\ DesignsOf(text) = DesignAll(bands)
      BY <1>1, <2>3, LinesDesign
    <2>5. DeviceRuns(text) = [sections |-> Audible(DesignAll(bands)), trim |-> p]
      BY <2>2, <2>4 DEF DeviceRuns, DesignsOf
    <2> QED BY <1>3, <2>1, <2>5 DEF bands, p
  <1>6. CASE format = "MiniDsp"
    <2> DEFINE text == ToMiniDsp(bands, p)
    <2>1. FilterText(format, bands, p) = text
      BY <1>6 DEF FilterText
    <2>2. \A k, section, gain :
            /\ "biquad" \in DOMAIN Biquad(k, section, gain)
            /\ SectionOf(Biquad(k, section, gain)) = section
            /\ Biquad(k, section, gain).scale = gain
      BY DEF SectionOf, Biquad
    <2> DEFINE m == IF bands = <<>> THEN 1 ELSE n
               section(i) == IF bands = <<>> THEN Identity ELSE Design(bands[i])
               scale(i) == IF i = 1 THEN p ELSE 0
    <2>3. /\ m \in Nat \ {0} /\ DOMAIN text = 1..m
          /\ \A i \in 1..m : text[i] = Biquad(i, section(i), scale(i))
      <3>1. CASE bands = <<>>
        <4>1. text = <<Biquad(1, Identity, p)>> /\ m = 1
          BY <3>1 DEF ToMiniDsp
        <4>2. DOMAIN text = 1..1 /\ text[1] = Biquad(1, Identity, p)
          BY <4>1
        <4> QED BY <3>1, <4>1, <4>2
      <3>2. CASE bands # <<>>
        <4>1. n # 0 /\ m = n
          BY <1>1, <3>2
        <4>2. text = [i \in DOMAIN bands |-> Biquad(i, Design(bands[i]), scale(i))]
          BY <3>2 DEF ToMiniDsp
        <4> HIDE DEF text, n
        <4> QED BY <1>2, <3>2, <4>1, <4>2
      <3> QED BY <3>1, <3>2
    <2> DEFINE scales == [i \in DOMAIN text |-> text[i].scale]
               ran == [i \in DOMAIN text |-> SectionOf(text[i])]
    <2> HIDE DEF text, m
    <2>4. SumOf(scales) = p
      <3>1. \A i \in 1..m : scale(i) \in Int
        BY <1>1
      <3>2. scales \in [1..m -> Int] /\ \A i \in 1..m : scales[i] = scale(i)
        <4> HIDE DEF scale, section
        <4> QED BY <2>2, <2>3, <3>1
      <3> HIDE DEF scales
      <3>3. scales \in Seq(Int) /\ Len(scales) = m
        BY <2>3, <3>2, Listed
      <3> QED BY <1>1, <2>3, <3>2, <3>3, OneScale
    <2>5. ran = [i \in 1..m |-> section(i)]
      <3> HIDE DEF scale, section
      <3> QED BY <2>2, <2>3
    <2>6. Audible(ran) = Audible(DesignAll(bands))
      <3>1. CASE bands = <<>>
        <4>1. ran = <<Identity>>
          BY <2>5, <3>1 DEF m
        <4>2. DesignAll(bands) = <<>>
          BY <3>1 DEF DesignAll
        <4> QED BY <4>1, <4>2, NothingAudible
      <3>2. CASE bands # <<>>
        <4>1. ran = DesignAll(bands)
          BY <1>2, <2>5, <3>2 DEF DesignAll, m
        <4> QED BY <4>1
      <3> QED BY <3>1, <3>2
    <2>7. "biquad" \in DOMAIN text[1]
      <3>1. 1 \in 1..m
        BY <2>3
      <3> QED BY <2>2, <2>3, <3>1
    <2> HIDE DEF ran, scales
    <2>8. DeviceRuns(text) = [sections |-> Audible(ran), trim |-> SumOf(scales)]
      BY <2>7 DEF DeviceRuns, ran, scales
    <2> QED BY <1>1, <2>1, <2>4, <2>6, <2>8 DEF Shown
  <1> QED BY <1>4, <1>5, <1>6 DEF Formats

--------------------------------------------------------------------------------
(* Free text.                                                               *)

(* Sequences of one element and of two.                                     *)
LEMMA OneOrTwo ==
  ASSUME NEW S, NEW x \in S, NEW y \in S
  PROVE  /\ <<x>> \in Seq(S) /\ Len(<<x>>) = 1 /\ <<x>>[1] = x
         /\ <<x, y>> \in Seq(S) /\ Len(<<x, y>>) = 2 /\ <<x, y>>[1] = x /\ <<x, y>>[2] = y
  OBVIOUS

(* Characters, texts, and a text that is unescaped up to a place.           *)
Characters == STRING \cup {"backslash", "n", "newline", "blank"}
Texts == Seq(Characters)
Unescapings == [out : Texts, waiting : BOOLEAN]

(* How a character is spelled in a header.                                  *)
LEMMA SpelledIs ==
  ASSUME NEW c \in Characters
  PROVE  /\ Spelled(c) \in Texts
         /\ \/ /\ c # "backslash" /\ Len(Spelled(c)) = 1 /\ Spelled(c)[1] = c
            \/ /\ c # "blank" /\ Len(Spelled(c)) = 2 /\ Spelled(c)[1] = "backslash"
               /\ Spelled(c)[2] # "blank" /\ Unescaped(Spelled(c)[2]) = <<c>>
  <1>0. "backslash" \in Characters /\ "n" \in Characters
    BY DEF Characters
  <1>1. CASE c = "backslash"
    <2>1. Spelled(c) = <<"backslash", "backslash">>
      BY <1>1 DEF Spelled
    <2>2. Unescaped("backslash") = <<"backslash">>
      BY DEF Unescaped
    <2>3. <<"backslash", "backslash">> \in Texts
      BY <1>0, OneOrTwo DEF Texts
    <2>4. /\ Len(<<"backslash", "backslash">>) = 2 /\ <<"backslash", "backslash">>[1] = "backslash"
          /\ <<"backslash", "backslash">>[2] = "backslash"
      OBVIOUS
    <2> QED BY <1>1, <2>1, <2>2, <2>3, <2>4
  <1>2. CASE c = "newline"
    <2>1. Spelled(c) = <<"backslash", "n">>
      BY <1>2 DEF Spelled
    <2>2. Unescaped("n") = <<"newline">>
      BY DEF Unescaped
    <2>3. <<"backslash", "n">> \in Texts
      BY <1>0, OneOrTwo DEF Texts
    <2>4. /\ Len(<<"backslash", "n">>) = 2 /\ <<"backslash", "n">>[1] = "backslash"
          /\ <<"backslash", "n">>[2] = "n"
      OBVIOUS
    <2> QED BY <1>2, <2>1, <2>2, <2>3, <2>4
  <1>3. CASE c # "backslash" /\ c # "newline"
    <2>1. Spelled(c) = <<c>>
      BY <1>3 DEF Spelled
    <2> QED BY <1>3, <2>1, OneOrTwo DEF Texts
  <1> QED BY <1>1, <1>2, <1>3

(* The escaped text, one character after another.                           *)
Escapes(text, e) ==
  /\ e \in [0..Len(text) -> Texts]
  /\ \A k \in 0..Len(text) : e[k] = IF k = 0 THEN <<>> ELSE e[k - 1] \o Spelled(text[k])

(* The last of them is what is written.                                     *)
LEMMA EscapeIs ==
  ASSUME NEW text \in Texts
  PROVE  \E e : Escapes(text, e) /\ Escape(text) = e[Len(text)]
  <1> DEFINE n == Len(text)
             next == [k \in 1..n |-> [t \in Texts |-> t \o Spelled(text[k])]]
             Chosen(f) == f = [k \in 0..n |-> IF k = 0 THEN <<>>
                                             ELSE f[k - 1] \o Spelled(text[k])]
  <1>1. n \in Nat /\ \A k \in 1..n : Spelled(text[k]) \in Texts
    <2>1. n \in Nat /\ \A k \in 1..n : text[k] \in Characters
      BY DEF Texts
    <2> HIDE DEF n
    <2> QED BY <2>1, SpelledIs
  <1>2. \A a, b \in Texts : a \o b \in Texts
    BY ConcatProperties DEF Texts
  <1>3. <<>> \in Texts
    BY DEF Texts
  <1>4. next \in [1..n -> [Texts -> Texts]]
    <2> HIDE DEF n, Texts
    <2> QED BY <1>1, <1>2
  <1>5. PICK f : Steps(f, Texts, <<>>, n, next)
    <2> HIDE DEF n, next, Texts
    <2> QED BY <1>1, <1>3, <1>4, StepsExist
  <1>6. /\ f \in [0..n -> Texts]
        /\ \A k \in 0..n : f[k] = IF k = 0 THEN <<>> ELSE next[k][f[k - 1]]
    <2> HIDE DEF n, next
    <2> QED BY <1>5 DEF Steps
  <1>7. Chosen(f)
    <2>1. ASSUME NEW k \in 0..n
          PROVE  f[k] = IF k = 0 THEN <<>> ELSE f[k - 1] \o Spelled(text[k])
      <3>1. CASE k = 0
        <4> HIDE DEF n, next
        <4> QED BY <1>6, <3>1
      <3>2. CASE k # 0
        <4>1. k \in 1..n /\ k - 1 \in 0..n /\ f[k - 1] \in Texts
          <5>1. k \in 1..n /\ k - 1 \in 0..n
            BY <1>1, <3>2
          <5> HIDE DEF n
          <5> QED BY <1>6, <5>1
        <4>2. f[k] = next[k][f[k - 1]]
          <5> HIDE DEF next, n
          <5> QED BY <1>6, <3>2
        <4>3. next[k][f[k - 1]] = f[k - 1] \o Spelled(text[k])
          <5> HIDE DEF n
          <5> QED BY <4>1
        <4> HIDE DEF next, n
        <4> QED BY <3>2, <4>2, <4>3
      <3> QED BY <3>1, <3>2
    <2>2. f = [k \in 0..n |-> f[k]]
      BY <1>6
    <2> HIDE DEF n, next
    <2> QED BY <2>1, <2>2, Zenon
  <1>8. PICK e : Chosen(e) /\ Escape(text) = e[n]
    BY <1>7, Zenon DEF Escape
  <1>9. \A k \in 0..n : e[k] = IF k = 0 THEN <<>> ELSE e[k - 1] \o Spelled(text[k])
    <2> HIDE DEF n
    <2> QED BY <1>8, Zenon
  <1> DEFINE T == {k \in 0..n : e[k] \in Texts}
  <1>10. 0 \in T
    <2>1. 0 \in 0..n
      BY <1>1
    <2> HIDE DEF n, Chosen
    <2> QED BY <1>3, <1>9, <2>1
  <1>11. ASSUME NEW k \in 1..n, k - 1 \in T
        PROVE  k \in T
    <2>1. k \in 0..n /\ k # 0 /\ e[k - 1] \in Texts
      BY <1>1, <1>11
    <2>2. e[k] = e[k - 1] \o Spelled(text[k])
      <3> HIDE DEF n, Chosen, T
      <3> QED BY <1>9, <2>1
    <2> HIDE DEF n, Chosen
    <2> QED BY <1>1, <1>2, <2>1, <2>2
  <1>12. \A k \in 0..n : k \in T
    <2> HIDE DEF T, n, Chosen
    <2> QED BY <1>1, <1>10, <1>11, Climbs
  <1>13. e \in [0..n -> Texts]
    <2>1. e = [k \in 0..n |-> e[k]]
      <3> HIDE DEF n
      <3> QED BY <1>8, Zenon
    <2>2. \A k \in 0..n : e[k] \in Texts
      BY <1>12
    <2> HIDE DEF n, Chosen, T
    <2> QED BY <2>1, <2>2
  <1> HIDE DEF Chosen
  <1> QED BY <1>8, <1>9, <1>13 DEF Escapes

(* A text unescaped up to one place after another.                          *)
Unescapes(text, u) ==
  /\ u \in [0..Len(text) -> Unescapings]
  /\ \A k \in 0..Len(text) :
       u[k] = IF k = 0 THEN [out |-> <<>>, waiting |-> FALSE] ELSE Unescaping(u[k - 1], text, k)

(* The last of them is what is read.                                        *)
LEMMA UnescapeIs ==
  ASSUME NEW text \in Texts
  PROVE  \E u : Unescapes(text, u) /\ Unescape(text) = u[Len(text)].out
  <1> DEFINE n == Len(text)
             first == [out |-> <<>>, waiting |-> FALSE]
             next == [k \in 1..n |-> [w \in Unescapings |-> Unescaping(w, text, k)]]
             Chosen(f) == f = [k \in 0..n |-> IF k = 0 THEN [out |-> <<>>, waiting |-> FALSE]
                                             ELSE Unescaping(f[k - 1], text, k)]
  <1>1. n \in Nat /\ \A k \in 1..n : text[k] \in Characters
    BY DEF Texts
  <1>2. first \in Unescapings
    BY DEF Texts, Unescapings
  <1>3. ASSUME NEW w \in Unescapings, NEW k \in 1..n
        PROVE  Unescaping(w, text, k) \in Unescapings
    <2>1. /\ w.out \in Texts
          /\ \A a, b \in Texts : a \o b \in Texts
      BY ConcatProperties DEF Unescapings, Texts
    <2>2. <<text[k]>> \in Texts
      <3> HIDE DEF n
      <3> QED BY <1>1, OneOrTwo DEF Texts
    <2>3. Unescaped(text[k]) \in Texts
      <3>0. "backslash" \in Characters /\ "newline" \in Characters
        BY DEF Characters
      <3>1. <<"newline">> \in Texts /\ <<"backslash">> \in Texts
        BY <3>0, OneOrTwo DEF Texts
      <3>2. <<"backslash", text[k]>> \in Texts
        <4> HIDE DEF n
        <4> QED BY <1>1, <3>0, OneOrTwo DEF Texts
      <3> QED BY <3>1, <3>2 DEF Unescaped
    <2>4. \A t \in Texts : [out |-> t, waiting |-> TRUE] \in Unescapings
                          /\ [out |-> t, waiting |-> FALSE] \in Unescapings
      BY DEF Unescapings
    <2> HIDE DEF n, Texts, Unescapings
    <2> QED BY <2>1, <2>2, <2>3, <2>4 DEF Unescaping
  <1>4. next \in [1..n -> [Unescapings -> Unescapings]]
    <2> HIDE DEF n, Unescapings
    <2> QED BY <1>3
  <1>5. PICK f : Steps(f, Unescapings, first, n, next)
    <2> HIDE DEF n, next, first, Unescapings
    <2> QED BY <1>1, <1>2, <1>4, StepsExist
  <1>6. /\ f \in [0..n -> Unescapings]
        /\ \A k \in 0..n : f[k] = IF k = 0 THEN first ELSE next[k][f[k - 1]]
    <2> HIDE DEF n, next, first
    <2> QED BY <1>5 DEF Steps
  <1>7. Chosen(f)
    <2>1. ASSUME NEW k \in 0..n
          PROVE  f[k] = IF k = 0 THEN first ELSE Unescaping(f[k - 1], text, k)
      <3>1. CASE k = 0
        <4> HIDE DEF n, next, first
        <4> QED BY <1>6, <3>1
      <3>2. CASE k # 0
        <4>1. k \in 1..n /\ k - 1 \in 0..n /\ f[k - 1] \in Unescapings
          <5>1. k \in 1..n /\ k - 1 \in 0..n
            BY <1>1, <3>2
          <5> HIDE DEF n, first
          <5> QED BY <1>6, <5>1
        <4>2. f[k] = next[k][f[k - 1]]
          <5> HIDE DEF next, n, first
          <5> QED BY <1>6, <3>2
        <4>3. next[k][f[k - 1]] = Unescaping(f[k - 1], text, k)
          <5> HIDE DEF n, first
          <5> QED BY <4>1
        <4> HIDE DEF next, n, first
        <4> QED BY <3>2, <4>2, <4>3
      <3> QED BY <3>1, <3>2
    <2>2. f = [k \in 0..n |-> f[k]]
      BY <1>6
    <2> HIDE DEF n, next
    <2> QED BY <2>1, <2>2, Zenon
  <1>8. PICK u : Chosen(u) /\ Unescape(text) = u[n].out
    BY <1>7, Zenon DEF Unescape
  <1>9. \A k \in 0..n : u[k] = IF k = 0 THEN first ELSE Unescaping(u[k - 1], text, k)
    <2> HIDE DEF n
    <2> QED BY <1>8, Zenon
  <1> DEFINE T == {k \in 0..n : u[k] \in Unescapings}
  <1>10. 0 \in T
    <2>1. 0 \in 0..n
      BY <1>1
    <2> HIDE DEF n, Chosen, first
    <2> QED BY <1>2, <1>9, <2>1
  <1>11. ASSUME NEW k \in 1..n, k - 1 \in T
        PROVE  k \in T
    <2>1. k \in 0..n /\ k # 0 /\ u[k - 1] \in Unescapings
      BY <1>1, <1>11
    <2>2. u[k] = Unescaping(u[k - 1], text, k)
      <3> HIDE DEF n, Chosen, T, first
      <3> QED BY <1>9, <2>1
    <2> HIDE DEF n, Chosen, first
    <2> QED BY <1>3, <2>1, <2>2
  <1>12. \A k \in 0..n : k \in T
    <2> HIDE DEF T, n, Chosen, first
    <2> QED BY <1>1, <1>10, <1>11, Climbs
  <1>13. u \in [0..n -> Unescapings]
    <2>1. u = [k \in 0..n |-> u[k]]
      <3> HIDE DEF n
      <3> QED BY <1>8, Zenon
    <2>2. \A k \in 0..n : u[k] \in Unescapings
      BY <1>12
    <2> HIDE DEF n, Chosen, T, first
    <2> QED BY <2>1, <2>2
  <1>14. \A k \in 0..n : u[k] = IF k = 0 THEN [out |-> <<>>, waiting |-> FALSE]
                                ELSE Unescaping(u[k - 1], text, k)
    BY <1>9
  <1> HIDE DEF Chosen, first
  <1> QED BY <1>8, <1>13, <1>14, Zenon DEF Unescapes

(* Where the characters of a text are in its escaped form: after p[k] of it *)
(* the first k of them are spelled.                                         *)
Spells(text, e, p) ==
  /\ p \in [0..Len(text) -> Nat] /\ p[0] = 0 /\ p[Len(text)] = Len(e)
  /\ \A k \in 1..Len(text) :
       /\ p[k] = p[k - 1] + Len(Spelled(text[k]))
       /\ \A j \in 1..Len(Spelled(text[k])) : e[p[k - 1] + j] = Spelled(text[k])[j]
  /\ \A k, m \in 0..Len(text) : k <= m => p[k] <= p[m]

(* They have such places.                                                   *)
LEMMA SpelledOut ==
  ASSUME NEW text \in Texts
  PROVE  Escape(text) \in Texts /\ \E p : Spells(text, Escape(text), p)
  <1> DEFINE n == Len(text)
  <1>1. PICK e : Escapes(text, e) /\ Escape(text) = e[n]
    BY EscapeIs
  <1>2. n \in Nat /\ \A k \in 1..n : text[k] \in Characters
    BY DEF Texts
  <1> HIDE DEF n
  <1>3. /\ e \in [0..n -> Texts]
        /\ \A k \in 0..n : e[k] = IF k = 0 THEN <<>> ELSE e[k - 1] \o Spelled(text[k])
    BY <1>1 DEF Escapes, n
  <1> DEFINE p == [k \in 0..n |-> Len(e[k])]
  <1>4. p \in [0..n -> Nat] /\ \A k \in 0..n : p[k] = Len(e[k]) /\ e[k] \in Texts
    <2>1. \A t \in Texts : Len(t) \in Nat
      BY DEF Texts
    <2> HIDE DEF Texts
    <2> QED BY <1>3, <2>1
  <1>5. p[0] = 0
    <2>1. 0 \in 0..n
      BY <1>2
    <2>2. e[0] = <<>> /\ Len(<<>>) = 0
      BY <1>3, <2>1
    <2> HIDE DEF p
    <2> QED BY <1>4, <2>1, <2>2
  <1> HIDE DEF p
  <1>6. ASSUME NEW k \in 1..n
        PROVE  /\ k - 1 \in 0..n /\ k \in 0..n
               /\ p[k] = p[k - 1] + Len(Spelled(text[k])) /\ p[k - 1] <= p[k]
               /\ \A j \in 1..p[k - 1] : e[k][j] = e[k - 1][j]
               /\ \A j \in 1..Len(Spelled(text[k])) : e[k][p[k - 1] + j] = Spelled(text[k])[j]
    <2> DEFINE a == e[k - 1]
               b == Spelled(text[k])
               c == a \o b
    <2>1. k - 1 \in 0..n /\ k \in 0..n /\ k # 0
      BY <1>2
    <2>2. e[k] = c
      BY <1>3, <2>1
    <2>3. a \in Seq(Characters) /\ b \in Seq(Characters)
      BY <1>2, <1>4, <2>1, SpelledIs DEF Texts
    <2>4. p[k] = Len(e[k]) /\ p[k - 1] = Len(a)
      BY <1>4, <2>1
    <2> HIDE DEF a, b
    <2>5. /\ Len(c) = Len(a) + Len(b)
          /\ \A i \in 1..Len(a) + Len(b) : c[i] = IF i <= Len(a) THEN a[i] ELSE b[i - Len(a)]
      BY <2>3, ConcatProperties
    <2>6. Len(a) \in Nat /\ Len(b) \in Nat
      BY <2>3
    <2> HIDE DEF c
    <2>7. \A j \in 1..Len(a) : c[j] = a[j]
      BY <2>5, <2>6
    <2>8. ASSUME NEW j \in 1..Len(b)
          PROVE  c[Len(a) + j] = b[j]
      <3>1. /\ Len(a) + j \in 1..Len(a) + Len(b) /\ ~(Len(a) + j <= Len(a))
            /\ (Len(a) + j) - Len(a) = j
        BY <2>6
      <3> QED BY <2>5, <3>1
    <2>9. p[k] = p[k - 1] + Len(b) /\ p[k - 1] <= p[k]
      BY <2>2, <2>4, <2>5, <2>6
    <2> QED BY <2>1, <2>2, <2>4, <2>7, <2>8, <2>9 DEF a, b
  <1> DEFINE Agree(m) == \A k \in 0..m : p[k] <= p[m] /\ \A j \in 1..p[k] : e[m][j] = e[k][j]
             T == {m \in 0..n : Agree(m)}
  <1>7. 0 \in T
    <2>1. 0 \in 0..n /\ \A k \in 0..0 : k = 0
      BY <1>2
    <2>2. p[0] <= p[0]
      BY <1>5
    <2> QED BY <2>1, <2>2
  <1>8. ASSUME NEW m \in 1..n, m - 1 \in T
        PROVE  m \in T
    <2>1. ASSUME NEW k \in 0..m
          PROVE  p[k] <= p[m] /\ \A j \in 1..p[k] : e[m][j] = e[k][j]
      <3>1. CASE k = m
        <4>1. p[m] \in Nat
          BY <1>4, <1>6
        <4> QED BY <3>1, <4>1
      <3>2. CASE k # m
        <4>1. k \in 0..(m - 1) /\ k \in 0..n
          BY <1>2, <3>2
        <4>2. p[k] <= p[m - 1] /\ \A j \in 1..p[k] : e[m - 1][j] = e[k][j]
          BY <1>8, <4>1
        <4>3. p[m - 1] <= p[m] /\ \A j \in 1..p[m - 1] : e[m][j] = e[m - 1][j]
          BY <1>6
        <4>4. p[k] \in Nat /\ p[m] \in Nat /\ p[m - 1] \in Nat
          BY <1>4, <1>6, <4>1
        <4> QED BY <4>2, <4>3, <4>4
      <3> QED BY <3>1, <3>2
    <2>2. m \in 0..n
      BY <1>2
    <2> QED BY <2>1, <2>2
  <1>9. \A m \in 0..n : m \in T
    <2> HIDE DEF T
    <2> QED BY <1>2, <1>7, <1>8, Climbs
  <1>10. n \in 0..n
    BY <1>2
  <1>11. \A k, m \in 0..n : k <= m => p[k] <= p[m]
    <2> TAKE k, m \in 0..n
    <2> HAVE k <= m
    <2>1. k \in 0..m
      BY <1>2
    <2>2. Agree(m)
      BY <1>9
    <2> QED BY <2>1, <2>2
  <1>12. ASSUME NEW k \in 1..n, NEW j \in 1..Len(Spelled(text[k]))
         PROVE  e[n][p[k - 1] + j] = Spelled(text[k])[j]
    <2>1. Agree(n) /\ k \in 0..n
      BY <1>6, <1>9, <1>10
    <2>2. Len(Spelled(text[k])) \in Nat /\ p[k - 1] \in Nat /\ p[k] \in Nat
      BY <1>2, <1>4, <1>6, SpelledIs DEF Texts
    <2>3. p[k - 1] + j \in 1..p[k]
      BY <1>6, <2>2
    <2>4. e[n][p[k - 1] + j] = e[k][p[k - 1] + j]
      BY <2>1, <2>3
    <2> QED BY <1>6, <2>4
  <1>13. Spells(text, e[n], p)
    <2>1. p[n] = Len(e[n])
      BY <1>4, <1>10
    <2> QED BY <1>4, <1>5, <1>6, <1>11, <1>12, <2>1 DEF Spells, n
  <1>14. e[n] \in Texts
    BY <1>3, <1>10
  <1> QED BY <1>1, <1>13, <1>14

(* Each character of the escaped form spells one of the text.               *)
LEMMA SpellsSome ==
  ASSUME NEW text \in Texts, NEW e \in Texts, NEW p, Spells(text, e, p), NEW q \in 1..Len(e)
  PROVE  \E k \in 1..Len(text) : p[k - 1] < q /\ q <= p[k]
  <1> DEFINE n == Len(text)
             Past == {k \in 0..n : q <= p[k]}
  <1>1. /\ n \in Nat /\ p \in [0..n -> Nat] /\ p[0] = 0 /\ p[n] = Len(e)
        /\ q \in Nat /\ q >= 1 /\ q <= Len(e)
    BY DEF Spells, Texts
  <1> HIDE DEF n
  <1>2. n \in Past /\ Past \in SUBSET Nat
    BY <1>1
  <1>3. PICK k \in Past : \A j \in Past : k <= j
    <2> HIDE DEF Past
    <2> QED BY <1>2, LeastIs
  <1>4. k \in 0..n /\ q <= p[k]
    BY <1>3
  <1>5. k # 0
    BY <1>1, <1>4
  <1>6. k \in 1..n /\ k - 1 \in 0..n /\ ~(k <= k - 1)
    BY <1>1, <1>4, <1>5
  <1>7. ~(k - 1 \in Past)
    <2> HIDE DEF Past
    <2> QED BY <1>3, <1>6
  <1>8. p[k - 1] \in Nat /\ ~(q <= p[k - 1])
    BY <1>1, <1>6, <1>7
  <1>9. p[k - 1] < q
    BY <1>1, <1>8
  <1> QED BY <1>4, <1>6, <1>9 DEF n

(* The first and the last of some places.                                   *)
LEMMA LeastPlace ==
  ASSUME NEW T \in SUBSET Int, NEW x \in T, \A y \in T : x <= y
  PROVE  Least(T) = x
  <1>1. \A z \in T : (\A y \in T : z <= y) => z = x
    BY Z3
  <1> QED BY <1>1 DEF Least

(* The last of them.                                                        *)
LEMMA GreatestPlace ==
  ASSUME NEW T \in SUBSET Int, NEW x \in T, \A y \in T : y <= x
  PROVE  Greatest(T) = x
  <1>1. \A z \in T : (\A y \in T : y <= z) => z = x
    BY Z3
  <1> QED BY <1>1 DEF Greatest

(* The places of a text that are not blank.                                 *)
Inked(text) == {i \in DOMAIN text : text[i] # "blank"}

(* What is left of a text without the blanks at its ends.                   *)
LEMMA TrimIs ==
  ASSUME NEW text \in Texts
  PROVE  \/ Inked(text) = {} /\ Trim(text) = <<>>
         \/ \E f, l \in Inked(text) :
              /\ \A i \in Inked(text) : f <= i /\ i <= l
              /\ Trim(text) = SubSeq(text, f, l)
  <1> DEFINE n == Len(text)
  <1>1. n \in Nat /\ DOMAIN text = 1..n
    BY DEF Texts
  <1> HIDE DEF n
  <1>2. CASE Inked(text) = {}
    BY <1>2 DEF Trim, Inked
  <1>3. CASE Inked(text) # {}
    <2>1. Inked(text) \in SUBSET (1..n) /\ Inked(text) \in SUBSET Nat /\ Inked(text) \in SUBSET Int
      BY <1>1 DEF Inked
    <2>2. PICK f \in Inked(text) : \A i \in Inked(text) : f <= i
      BY <1>3, <2>1, LeastIs
    <2>3. PICK l \in Inked(text) : \A i \in Inked(text) : i <= l
      BY <1>1, <1>3, <2>1, GreatestIs
    <2>4. Least(Inked(text)) = f /\ Greatest(Inked(text)) = l
      BY <2>1, <2>2, <2>3, LeastPlace, GreatestPlace
    <2>5. Trim(text) = SubSeq(text, f, l)
      BY <1>3, <2>4 DEF Trim, Inked
    <2> QED BY <2>2, <2>3, <2>5
  <1> QED BY <1>2, <1>3

(* The places are numbers that grow, up to the length of the escaped form.  *)
LEMMA PlacesAre ==
  ASSUME NEW text \in Texts, NEW e, NEW p, Spells(text, e, p)
  PROVE  /\ \A k \in 0..Len(text) : p[k] \in Nat
         /\ \A k \in 0..Len(text) : p[k] <= Len(e)
  <1>1. Len(text) \in Nat
    BY DEF Texts
  <1>2. p \in [0..Len(text) -> Nat] /\ p[Len(text)] = Len(e)
    BY DEF Spells
  <1>3. \A k, m \in 0..Len(text) : k <= m => p[k] <= p[m]
    BY DEF Spells
  <1>4. \A k \in 0..Len(text) : k <= Len(text) /\ Len(text) \in 0..Len(text)
    BY <1>1
  <1> QED BY <1>2, <1>3, <1>4

(* A piece of the escaped form that spells some characters of the text is   *)
(* unescaped to them.                                                       *)
LEMMA PieceComesBack ==
  ASSUME NEW text \in Texts, NEW e \in Texts, NEW p, Spells(text, e, p),
         NEW f \in 1..Len(text), NEW l \in f..Len(text)
  PROVE  Unescape(SubSeq(e, p[f - 1] + 1, p[l])) = SubSeq(text, f, l)
  <1> DEFINE n == Len(text)
             a == p[f - 1]
             b == p[l]
             s == SubSeq(e, a + 1, b)
             m == l - (f - 1)
  <1>1. n \in Nat /\ f \in 1..n /\ l \in f..n /\ text \in Seq(Characters)
    BY DEF Texts
  <1>2. \A k \in 1..n : /\ p[k] = p[k - 1] + Len(Spelled(text[k]))
                        /\ \A j \in 1..Len(Spelled(text[k])) :
                             e[p[k - 1] + j] = Spelled(text[k])[j]
    BY DEF Spells
  <1>2a. \A k, j \in 0..n : k <= j => p[k] <= p[j]
    BY DEF Spells
  <1>2b. \A k \in 0..n : p[k] \in Nat
    BY PlacesAre
  <1>2c. \A k \in 0..n : p[k] <= Len(e)
    BY PlacesAre
  <1> HIDE DEF n
  <1>3. f - 1 \in 0..n /\ l \in 0..n /\ n \in 0..n /\ f - 1 <= l /\ m \in Nat
    BY <1>1
  <1>4. a \in Nat /\ b \in Nat /\ a <= b /\ b <= Len(e) /\ e \in Seq(Characters) /\ Len(e) \in Nat
    <2>1. e \in Seq(Characters) /\ Len(e) \in Nat
      BY DEF Texts
    <2> QED BY <1>2a, <1>2b, <1>2c, <1>3, <2>1
  <1>5. /\ s \in Texts /\ Len(s) = b - a
        /\ \A i \in 1..(b - a) : s[i] = e[a + i]
    <2>1. \A i \in (a + 1)..b : e[i] \in Characters
      <3> HIDE DEF a, b
      <3> QED BY <1>4
    <2>2. /\ s \in Seq(Characters)
          /\ Len(s) = IF a + 1 <= b THEN b - (a + 1) + 1 ELSE 0
          /\ \A i \in 1..b - (a + 1) + 1 : s[i] = e[(a + 1) + i - 1]
      <3>1. a + 1 \in Int /\ b \in Int
        BY <1>4
      <3> HIDE DEF a, b
      <3> QED BY <2>1, <3>1, SubSeqProperties
    <2> HIDE DEF a, b, s
    <2>3. Len(s) = b - a
      BY <1>4, <2>2
    <2>4. \A i \in 1..(b - a) : i \in 1..b - (a + 1) + 1 /\ (a + 1) + i - 1 = a + i
      BY <1>4
    <2> QED BY <2>2, <2>3, <2>4 DEF Texts
  <1> HIDE DEF s
  <1>6. PICK u : Unescapes(s, u) /\ Unescape(s) = u[Len(s)].out
    BY <1>5, UnescapeIs
  <1>7. /\ u \in [0..(b - a) -> Unescapings]
        /\ u[0] = [out |-> <<>>, waiting |-> FALSE]
        /\ \A k \in 1..(b - a) : u[k] = Unescaping(u[k - 1], s, k)
    <2>1. /\ u \in [0..(b - a) -> Unescapings]
          /\ \A k \in 0..(b - a) : u[k] = IF k = 0 THEN [out |-> <<>>, waiting |-> FALSE]
                                          ELSE Unescaping(u[k - 1], s, k)
      BY <1>5, <1>6 DEF Unescapes
    <2>2. 0 \in 0..(b - a) /\ \A k \in 1..(b - a) : k \in 0..(b - a) /\ k # 0
      BY <1>4
    <2> HIDE DEF a, b
    <2> QED BY <2>1, <2>2
  <1> DEFINE There(k) == /\ u[p[k] - a].out = SubSeq(text, f, k)
                        /\ u[p[k] - a].waiting = FALSE
             T == {r \in 0..m : There(f - 1 + r)}
  <1>8. 0 \in T
    <2>1. f - 1 + 0 = f - 1 /\ p[f - 1] - a = 0
      BY <1>1, <1>4
    <2>2. SubSeq(text, f, f - 1) = <<>>
      <3>1. f - 1 < f /\ f \in Int /\ f - 1 \in Int
        BY <1>1
      <3> QED BY <3>1, SubSeqEmpty
    <2>3. u[0].out = <<>> /\ u[0].waiting = FALSE
      BY <1>7
    <2>4. 0 \in 0..m
      BY <1>3
    <2> QED BY <2>1, <2>2, <2>3, <2>4
  <1>9. ASSUME NEW r \in 1..m, r - 1 \in T
        PROVE  r \in T
    <2> DEFINE k == f - 1 + r
               c == text[k]
               q == p[k - 1] - a
    <2>1. k \in f..l /\ k \in 1..n /\ k - 1 \in 0..n /\ f - 1 + (r - 1) = k - 1 /\ f - 1 <= k - 1
          /\ k \in 0..n
      BY <1>1, <1>3
    <2>2. u[q].out = SubSeq(text, f, k - 1) /\ u[q].waiting = FALSE
      BY <1>9, <2>1
    <2>3. /\ p[k] = p[k - 1] + Len(Spelled(c))
          /\ \A j \in 1..Len(Spelled(c)) : e[p[k - 1] + j] = Spelled(c)[j]
      BY <1>2, <2>1
    <2>4. p[k - 1] \in Nat /\ a <= p[k - 1] /\ p[k] \in Nat /\ p[k] <= b
      BY <1>2a, <1>2b, <1>3, <2>1
    <2>5. c \in Characters
      BY <1>1, <2>1
    <2>6. SubSeq(text, f, k) = SubSeq(text, f, k - 1) \o <<c>>
      <3>1. f \in 1..Len(text) /\ k \in f..Len(text)
        BY <1>1, <2>1 DEF n
      <3> HIDE DEF k
      <3> QED BY <1>1, <3>1, SubSeqRecursiveSecond
    <2> HIDE DEF k, c, a, b, m
    <2>7. q \in Nat /\ p[k - 1] = a + q
      BY <1>4, <2>4
    <2> HIDE DEF q
    <2>8. CASE /\ c # "backslash" /\ Len(Spelled(c)) = 1 /\ Spelled(c)[1] = c
      <3>1. q + 1 \in 1..(b - a) /\ p[k] - a = q + 1 /\ (q + 1) - 1 = q /\ a + (q + 1) = p[k - 1] + 1
        BY <1>4, <2>3, <2>4, <2>7, <2>8
      <3>2. s[q + 1] = c
        BY <1>5, <2>3, <2>8, <3>1
      <3>3. u[q + 1] = Unescaping(u[q], s, q + 1)
        BY <1>7, <3>1
      <3>4. u[q + 1] = [out |-> u[q].out \o <<c>>, waiting |-> FALSE]
        BY <2>2, <2>8, <3>2, <3>3 DEF Unescaping
      <3>5. u[q + 1].out = u[q].out \o <<c>> /\ u[q + 1].waiting = FALSE
        BY <3>4
      <3>6. There(k)
        BY <2>2, <2>6, <3>1, <3>5
      <3> QED BY <3>6 DEF k
    <2>9. CASE /\ Len(Spelled(c)) = 2 /\ Spelled(c)[1] = "backslash"
               /\ Unescaped(Spelled(c)[2]) = <<c>>
      <3>1. /\ q + 1 \in 1..(b - a) /\ q + 2 \in 1..(b - a) /\ p[k] - a = q + 2
            /\ (q + 1) - 1 = q /\ (q + 2) - 1 = q + 1 /\ q + 1 < b - a
            /\ a + (q + 1) = p[k - 1] + 1 /\ a + (q + 2) = p[k - 1] + 2
        BY <1>4, <2>3, <2>4, <2>7, <2>9
      <3>2. s[q + 1] = "backslash" /\ s[q + 2] = Spelled(c)[2]
        BY <1>5, <2>3, <2>9, <3>1
      <3>3. u[q + 1] = Unescaping(u[q], s, q + 1) /\ u[q + 2] = Unescaping(u[q + 1], s, q + 2)
        BY <1>7, <3>1
      <3>4. u[q + 1] = [out |-> u[q].out, waiting |-> TRUE]
        BY <1>5, <2>2, <3>1, <3>2, <3>3 DEF Unescaping
      <3>5. u[q + 1].out = u[q].out /\ u[q + 1].waiting = TRUE
        BY <3>4
      <3>6. u[q + 2] = [out |-> u[q + 1].out \o Unescaped(s[q + 2]), waiting |-> FALSE]
        BY <3>3, <3>5 DEF Unescaping
      <3>7. u[q + 2].out = u[q].out \o <<c>> /\ u[q + 2].waiting = FALSE
        <4>1. Unescaped(s[q + 2]) = <<c>>
          BY <2>9, <3>2
        <4>2. u[q + 2] = [out |-> u[q].out \o <<c>>, waiting |-> FALSE]
          BY <3>5, <3>6, <4>1, Zenon
        <4> QED BY <4>2
      <3>8. There(k)
        BY <2>2, <2>6, <3>1, <3>7
      <3> QED BY <3>8 DEF k
    <2> QED BY <2>5, <2>8, <2>9, SpelledIs
  <1>10. m \in T
    <2>1. m \in 0..m
      BY <1>3
    <2> HIDE DEF T, m
    <2> QED BY <1>3, <1>8, <1>9, <2>1, Climbs
  <1>11. f - 1 + m = l
    BY <1>1
  <1>12. There(l)
    BY <1>10, <1>11
  <1> QED BY <1>5, <1>6, <1>12 DEF s

(* A text that was written comes back without the blanks at its ends.       *)
LEMMA TextComesBack ==
  ASSUME NEW text \in Texts
  PROVE  Unescape(Trim(Escape(text))) = Trim(text)
  <1> DEFINE n == Len(text)
             e == Escape(text)
  <1>1. n \in Nat /\ DOMAIN text = 1..n /\ \A k \in 1..n : text[k] \in Characters
    BY DEF Texts
  <1>2. e \in Texts
    BY SpelledOut
  <1>3. PICK p : Spells(text, e, p)
    BY SpelledOut
  <1> HIDE DEF n, e
  <1>4. \A k \in 1..n : /\ p[k] = p[k - 1] + Len(Spelled(text[k]))
                        /\ \A j \in 1..Len(Spelled(text[k])) :
                             e[p[k - 1] + j] = Spelled(text[k])[j]
    BY <1>3 DEF Spells, n
  <1>4a. \A k, j \in 0..n : k <= j => p[k] <= p[j]
    BY <1>3 DEF Spells, n
  <1>4b. \A k \in 0..n : p[k] \in Nat
    BY <1>3, PlacesAre DEF n
  <1>4c. \A k \in 0..n : p[k] <= Len(e)
    BY <1>3, PlacesAre DEF n
  <1>5. DOMAIN e = 1..Len(e) /\ Len(e) \in Nat
    BY <1>2 DEF Texts
  <1>6. ASSUME NEW q \in Inked(e)
        PROVE  \E k \in 1..n : k \in Inked(text) /\ p[k - 1] < q /\ q <= p[k]
    <2>1. q \in 1..Len(e) /\ e[q] # "blank"
      BY <1>5 DEF Inked
    <2>2. PICK k \in 1..n : p[k - 1] < q /\ q <= p[k]
      BY <1>2, <1>3, <2>1, SpellsSome DEF n
    <2>3. text[k] # "blank"
      <3>1. SUFFICES ASSUME text[k] = "blank"
                     PROVE  FALSE
        OBVIOUS
      <3>2. Spelled(text[k]) = <<"blank">>
        BY <3>1 DEF Spelled
      <3>3. Len(Spelled(text[k])) = 1 /\ Spelled(text[k])[1] = "blank"
        BY <3>2
      <3>4. p[k - 1] \in Nat /\ k - 1 \in 0..n
        BY <1>1, <1>4b
      <3>5. q = p[k - 1] + 1
        <4>1. p[k] = p[k - 1] + 1 /\ q \in Int
          BY <1>4, <2>1, <3>3
        <4> QED BY <2>2, <3>4, <4>1
      <3>6. e[p[k - 1] + 1] = "blank"
        BY <1>4, <3>3
      <3> QED BY <2>1, <3>5, <3>6
    <2> QED BY <1>1, <2>2, <2>3 DEF Inked
  <1>7. ASSUME NEW k \in Inked(text)
        PROVE  /\ k \in 1..n /\ p[k - 1] + 1 \in Inked(e) /\ p[k] \in Inked(e)
    <2>1. k \in 1..n /\ text[k] # "blank" /\ text[k] \in Characters /\ k - 1 \in 0..n /\ k \in 0..n
          /\ n \in 0..n
      BY <1>1 DEF Inked
    <2> DEFINE w == Spelled(text[k])
    <2>2. Len(w) \in {1, 2} /\ w[1] # "blank" /\ w[Len(w)] # "blank"
      BY <2>1, SpelledIs
    <2>3. p[k] = p[k - 1] + Len(w) /\ \A j \in 1..Len(w) : e[p[k - 1] + j] = w[j]
      BY <1>4, <2>1
    <2>4. p[k - 1] \in Nat /\ p[k] \in Nat /\ p[k] <= Len(e)
      BY <1>4b, <1>4c, <2>1
    <2> HIDE DEF w
    <2>5. e[p[k - 1] + 1] # "blank" /\ e[p[k]] # "blank"
      BY <2>2, <2>3
    <2>6. p[k - 1] + 1 \in 1..Len(e) /\ p[k] \in 1..Len(e)
      <3>1. p[k] = p[k - 1] + Len(w) /\ Len(w) \in Nat /\ Len(w) >= 1
        BY <2>2, <2>3
      <3> QED BY <1>5, <2>4, <3>1
    <2> QED BY <1>5, <2>1, <2>5, <2>6 DEF Inked
  <1>8. CASE Inked(text) = {} /\ Trim(text) = <<>>
    <2>1. Inked(e) = {}
      BY <1>6, <1>8
    <2>2. Trim(e) = <<>>
      BY <1>2, <2>1, TrimIs
    <2>3. <<>> \in Texts /\ Len(<<>>) = 0
      BY DEF Texts
    <2>4. PICK u : Unescapes(<<>>, u) /\ Unescape(<<>>) = u[0].out
      BY <2>3, UnescapeIs
    <2>5. u[0] = [out |-> <<>>, waiting |-> FALSE]
      <3>1. 0 \in 0..Len(<<>>)
        BY <2>3
      <3> QED BY <2>4, <3>1 DEF Unescapes
    <2>6. Unescape(<<>>) = <<>>
      BY <2>4, <2>5
    <2> QED BY <1>8, <2>2, <2>6 DEF e
  <1>9. ASSUME NEW f \in Inked(text), NEW l \in Inked(text),
               \A i \in Inked(text) : f <= i /\ i <= l,
               Trim(text) = SubSeq(text, f, l)
        PROVE  Unescape(Trim(e)) = Trim(text)
    <2>1. /\ f \in 1..n /\ l \in 1..n /\ f <= l /\ l \in f..n
          /\ f - 1 \in 0..n /\ l \in 0..n
      <3>1. f \in 1..n /\ l \in 1..n /\ f <= l
        BY <1>7, <1>9
      <3> QED BY <1>1, <3>1
    <2>2. p[f - 1] + 1 \in Inked(e) /\ p[l] \in Inked(e)
      BY <1>7
    <2>3. ASSUME NEW q \in Inked(e)
          PROVE  p[f - 1] + 1 <= q /\ q <= p[l]
      <3>1. PICK k \in 1..n : k \in Inked(text) /\ p[k - 1] < q /\ q <= p[k]
        BY <1>6
      <3>2. f <= k /\ k <= l
        BY <1>9, <3>1
      <3>3. k - 1 \in 0..n /\ k \in 0..n /\ f - 1 <= k - 1
        BY <1>1, <2>1, <3>2
      <3>4. p[f - 1] <= p[k - 1] /\ p[k] <= p[l]
        BY <1>4a, <2>1, <3>2, <3>3
      <3>5. p[f - 1] \in Nat /\ p[k - 1] \in Nat /\ p[k] \in Nat /\ p[l] \in Nat /\ q \in Nat
        BY <1>4b, <1>5, <2>1, <3>3 DEF Inked
      <3> QED BY <3>1, <3>4, <3>5
    <2>4. Trim(e) = SubSeq(e, p[f - 1] + 1, p[l])
      <3>1. PICK g, h \in Inked(e) : /\ \A i \in Inked(e) : g <= i /\ i <= h
                                     /\ Trim(e) = SubSeq(e, g, h)
        BY <1>2, <2>2, TrimIs
      <3>2. Inked(e) \subseteq Int
        BY <1>5 DEF Inked
      <3>3. g = p[f - 1] + 1 /\ h = p[l]
        <4>1. g \in Int /\ h \in Int /\ p[f - 1] + 1 \in Int /\ p[l] \in Int
          BY <2>2, <3>1, <3>2
        <4>2. g <= p[f - 1] + 1 /\ p[f - 1] + 1 <= g /\ h <= p[l] /\ p[l] <= h
          BY <2>2, <2>3, <3>1
        <4> QED BY <4>1, <4>2
      <3> QED BY <3>1, <3>3
    <2>5. Unescape(SubSeq(e, p[f - 1] + 1, p[l])) = SubSeq(text, f, l)
      BY <1>2, <1>3, <2>1, PieceComesBack DEF n
    <2> QED BY <1>9, <2>4, <2>5
  <1> QED BY <1>8, <1>9, TrimIs DEF e

--------------------------------------------------------------------------------
(* A measurement in its container.                                          *)

(* A header and data as they are written, with the separator between.       *)
Parts(header, data) == (header \o <<Separator>>) \o data

(* Where the parts of a file are.                                           *)
IsParted(S, f, header, data) ==
  /\ Len(header) \in Nat /\ Len(data) \in Nat
  /\ f \in Seq(S) /\ Len(f) = Len(header) + 1 + Len(data)
  /\ \A i \in 1..Len(header) : f[i] = header[i]
  /\ f[Len(header) + 1] = Separator
  /\ \A i \in 1..Len(data) : f[Len(header) + 1 + i] = data[i]

(* They are there.                                                          *)
LEMMA PartsAre ==
  ASSUME NEW S, NEW header \in Seq(S), NEW data \in Seq(S), Separator \in S
  PROVE  IsParted(S, Parts(header, data), header, data)
  <1> DEFINE f == Parts(header, data)
             g == header \o <<Separator>>
             h == Len(header)
             d == Len(data)
  <1>1. h \in Nat /\ d \in Nat
    OBVIOUS
  <1>2. <<Separator>> \in Seq(S) /\ Len(<<Separator>>) = 1 /\ <<Separator>>[1] = Separator
    BY OneOrTwo
  <1>3. /\ g \in Seq(S) /\ Len(g) = h + 1
        /\ \A i \in 1..h + 1 : g[i] = IF i <= h THEN header[i] ELSE <<Separator>>[i - h]
    BY <1>2, ConcatProperties
  <1> HIDE DEF g
  <1> DEFINE c == g \o data
  <1>4. g \in Seq(S)
    BY <1>3
  <1>4a. c \in Seq(S)
    BY <1>4, ConcatProperties
  <1>4b. Len(c) = Len(g) + d
    BY <1>4, ConcatProperties
  <1>4c. \A i \in 1..Len(g) + d : c[i] = IF i <= Len(g) THEN g[i] ELSE data[i - Len(g)]
    BY <1>4, ConcatProperties
  <1>5. f = c
    BY DEF Parts, g
  <1> HIDE DEF f, h, d, c
  <1>4d. /\ c \in Seq(S) /\ Len(c) = Len(g) + d
        /\ \A i \in 1..Len(g) + d : c[i] = IF i <= Len(g) THEN g[i] ELSE data[i - Len(g)]
    BY <1>4a, <1>4b, <1>4c
  <1>6. f \in Seq(S) /\ Len(f) = h + 1 + d
    BY <1>1, <1>3, <1>4d, <1>5
  <1>7. ASSUME NEW i \in 1..h
        PROVE  f[i] = header[i]
    <2>1. i \in 1..Len(g) + d /\ i <= Len(g) /\ i \in 1..h + 1 /\ i <= h
      BY <1>1, <1>3
    <2> QED BY <1>3, <1>4d, <1>5, <2>1
  <1>8. f[h + 1] = Separator
    <2>1. /\ h + 1 \in 1..Len(g) + d /\ h + 1 <= Len(g) /\ h + 1 \in 1..h + 1 /\ ~(h + 1 <= h)
          /\ (h + 1) - h = 1
      BY <1>1, <1>3
    <2> QED BY <1>2, <1>3, <1>4d, <1>5, <2>1
  <1>9. ASSUME NEW i \in 1..d
        PROVE  f[h + 1 + i] = data[i]
    <2>1. /\ h + 1 + i \in 1..Len(g) + d /\ ~(h + 1 + i <= Len(g)) /\ (h + 1 + i) - Len(g) = i
      BY <1>1, <1>3
    <2> QED BY <1>4d, <1>5, <2>1
  <1> QED BY <1>1, <1>6, <1>7, <1>8, <1>9 DEF f, h, d, IsParted

(* They are found again.                                                    *)
LEMMA PartsFound ==
  ASSUME NEW S, NEW header \in Seq(S), NEW data \in Seq(S), Separator \in S,
         \A i \in 1..Len(header) : header[i] # Separator
  PROVE  LET f == Parts(header, data)
         IN  /\ SeparatorAt(f) # 0
             /\ SubSeq(f, 1, SeparatorAt(f) - 1) = header
             /\ SubSeq(f, SeparatorAt(f) + 1, Len(f)) = data
  <1> DEFINE f == Parts(header, data)
             h == Len(header)
             d == Len(data)
             T == {i \in DOMAIN f : f[i] = Separator}
  <1>1. /\ h \in Nat /\ d \in Nat
        /\ f \in Seq(S) /\ Len(f) = h + 1 + d
        /\ \A i \in 1..h : f[i] = header[i]
        /\ f[h + 1] = Separator
        /\ \A i \in 1..d : f[h + 1 + i] = data[i]
    <2>1. IsParted(S, f, header, data)
      BY PartsAre
    <2> HIDE DEF f
    <2> QED BY <2>1 DEF IsParted
  <1> HIDE DEF f, h, d
  <1>2. DOMAIN f = 1..(h + 1 + d)
    BY <1>1
  <1>3. h + 1 \in T /\ T \in SUBSET Int
    BY <1>1, <1>2
  <1>4. \A i \in T : h + 1 <= i
    <2>1. \A i \in 1..h : f[i] # Separator
      BY <1>1 DEF h
    <2> QED BY <1>1, <1>2, <2>1
  <1>5. SeparatorAt(f) = h + 1
    <2>1. Least(T) = h + 1
      <3> HIDE DEF T
      <3> QED BY <1>3, <1>4, LeastPlace
    <2> QED BY <1>3, <2>1 DEF SeparatorAt
  <1>6. SubSeq(f, 1, h) = header
    <2>1. \A i \in 1..h : f[i] \in S
      BY <1>1 DEF h
    <2>2. /\ SubSeq(f, 1, h) \in Seq(S)
          /\ Len(SubSeq(f, 1, h)) = IF 1 <= h THEN h - 1 + 1 ELSE 0
          /\ \A i \in 1..h - 1 + 1 : SubSeq(f, 1, h)[i] = f[1 + i - 1]
      BY <1>1, <2>1, SubSeqProperties
    <2> DEFINE s == SubSeq(f, 1, h)
    <2> HIDE DEF s
    <2>3. s \in Seq(S) /\ Len(s) = h /\ \A i \in 1..h : s[i] = header[i]
      <3>1. \A i \in 1..h : 1 + i - 1 = i /\ i \in 1..h - 1 + 1
        BY <1>1
      <3>2. Len(s) = h
        BY <1>1, <2>2 DEF s
      <3> QED BY <1>1, <2>2, <3>1, <3>2 DEF s
    <2>4. s = header
      BY <2>3, SeqEqual DEF h
    <2> QED BY <2>4 DEF s
  <1>7. SubSeq(f, h + 2, h + 1 + d) = data
    <2> DEFINE s == SubSeq(f, h + 2, h + 1 + d)
    <2>1. \A i \in h + 2..h + 1 + d : f[i] \in S
      BY <1>1
    <2>2. /\ s \in Seq(S)
          /\ Len(s) = IF h + 2 <= h + 1 + d THEN (h + 1 + d) - (h + 2) + 1 ELSE 0
          /\ \A i \in 1..(h + 1 + d) - (h + 2) + 1 : s[i] = f[(h + 2) + i - 1]
      <3>1. h + 2 \in Int /\ h + 1 + d \in Int
        BY <1>1
      <3> QED BY <2>1, <3>1, SubSeqProperties
    <2> HIDE DEF s
    <2>3. Len(s) = d
      BY <1>1, <2>2
    <2>4. \A i \in 1..d : s[i] = data[i]
      <3>1. \A i \in 1..d : i \in 1..(h + 1 + d) - (h + 2) + 1 /\ (h + 2) + i - 1 = h + 1 + i
        BY <1>1
      <3> QED BY <1>1, <2>2, <3>1
    <2>5. s = data
      BY <2>2, <2>3, <2>4, SeqEqual DEF d
    <2> QED BY <2>5 DEF s
  <1>8. h + 1 # 0 /\ h + 1 - 1 = h /\ h + 1 + 1 = h + 2
    BY <1>1
  <1> QED BY <1>1, <1>5, <1>6, <1>7, <1>8 DEF f

(* So it is read by its parts.                                              *)
LEMMA PartsRead ==
  ASSUME NEW S, NEW header \in Seq(S), NEW data \in Seq(S), Separator \in S,
         \A i \in 1..Len(header) : header[i] # Separator
  PROVE  ReadMeasurement(Parts(header, data)) =
           IF Refusal(header, data) # "none" THEN [refused |-> Refusal(header, data)]
           ELSE ReadLines(header, [i \in DOMAIN data |-> data[i].datum])
  <1> DEFINE f == Parts(header, data)
  <1>1. /\ SeparatorAt(f) # 0
        /\ SubSeq(f, 1, SeparatorAt(f) - 1) = header
        /\ SubSeq(f, SeparatorAt(f) + 1, Len(f)) = data
    BY PartsFound
  <1> HIDE DEF f
  <1> QED BY <1>1, Zenon DEF ReadMeasurement, f

(* A file without a separator is refused.                                   *)
LEMMA WholeHeaderOnly ==
  ASSUME NEW f, \A i \in DOMAIN f : f[i] # Separator
  PROVE  IsRefused(ReadMeasurement(f))
  <1>1. SeparatorAt(f) = 0
    BY DEF SeparatorAt
  <1>2. ReadMeasurement(f) = [refused |-> "MissingSeparator"]
    BY <1>1 DEF ReadMeasurement
  <1> QED BY <1>2 DEF IsRefused

(* What is left of a file that was cut short: no separator, or fewer data.  *)
LEMMA PartsCut ==
  ASSUME NEW S, NEW header \in Seq(S), NEW data \in Seq(S), Separator \in S,
         \A i \in 1..Len(header) : header[i] # Separator,
         \A i \in 1..Len(data) : "value" \notin DOMAIN data[i],
         NEW rest \in Interrupted(Parts(header, data))
  PROVE  \/ \A i \in DOMAIN rest : rest[i] # Separator
         \/ \E k \in 0..Len(data) - 1 : rest = Parts(header, SubSeq(data, 1, k))
  <1> DEFINE f == Parts(header, data)
             h == Len(header)
             d == Len(data)
             Torn(n) == {Append(SubSeq(f, 1, n), [f[n + 1] EXCEPT !.value = torn]) :
                           torn \in IF "value" \in DOMAIN f[n + 1] THEN TornValues ELSE {}}
  <1>1. /\ h \in Nat /\ d \in Nat
        /\ f \in Seq(S) /\ Len(f) = h + 1 + d
        /\ \A i \in 1..h : f[i] = header[i]
        /\ f[h + 1] = Separator
        /\ \A i \in 1..d : f[h + 1 + i] = data[i]
    <2>1. IsParted(S, f, header, data)
      BY PartsAre
    <2> HIDE DEF f
    <2> QED BY <2>1 DEF IsParted
  <1>2. PICK n \in CutLines \cap 0..Len(f) - 1 : rest \in {SubSeq(f, 1, n)} \cup Torn(n)
    BY DEF Interrupted
  <1>3. "value" \notin DOMAIN Separator
    BY DEF Separator
  <1>4. \A i \in 1..d : "value" \notin DOMAIN data[i]
    OBVIOUS
  <1>5. \A i \in 1..h : header[i] # Separator
    OBVIOUS
  <1> DEFINE s == SubSeq(f, 1, n)
  <1> HIDE DEF f, h, d
  <1>6. n \in Nat /\ n <= h + d
    BY <1>1, <1>2
  <1>7. s \in Seq(S) /\ Len(s) = n /\ \A i \in 1..n : s[i] = f[i]
    <2>1. \A i \in 1..n : f[i] \in S
      BY <1>1, <1>6
    <2>2. /\ s \in Seq(S)
          /\ Len(s) = IF 1 <= n THEN n - 1 + 1 ELSE 0
          /\ \A i \in 1..n - 1 + 1 : s[i] = f[1 + i - 1]
      BY <1>6, <2>1, SubSeqProperties
    <2> HIDE DEF s
    <2>3. \A i \in 1..n : i \in 1..n - 1 + 1 /\ 1 + i - 1 = i
      BY <1>6
    <2> QED BY <1>6, <2>2, <2>3
  <1>8. CASE rest = s
    <2>1. CASE n <= h
      <3>1. \A i \in 1..n : f[i] # Separator
        BY <1>1, <1>5, <1>6, <2>1
      <3> HIDE DEF s
      <3> QED BY <1>7, <1>8, <3>1
    <2>2. CASE n > h
      <3> DEFINE k == n - (h + 1)
                 t == SubSeq(data, 1, k)
      <3>1. k \in Nat /\ k <= d /\ k \in 0..d - 1 /\ n = h + 1 + k
        BY <1>1, <1>6, <2>2
      <3> HIDE DEF s, k
      <3>2. t \in Seq(S) /\ Len(t) = k /\ \A i \in 1..k : t[i] = data[i]
        <4>1. \A i \in 1..k : data[i] \in S
          BY <3>1 DEF d
        <4>2. /\ t \in Seq(S)
              /\ Len(t) = IF 1 <= k THEN k - 1 + 1 ELSE 0
              /\ \A i \in 1..k - 1 + 1 : t[i] = data[1 + i - 1]
          BY <3>1, <4>1, SubSeqProperties
        <4> HIDE DEF t
        <4>3. \A i \in 1..k : i \in 1..k - 1 + 1 /\ 1 + i - 1 = i
          BY <3>1
        <4> QED BY <3>1, <4>2, <4>3
      <3> HIDE DEF t
      <3> DEFINE g == Parts(header, t)
      <3>3. /\ g \in Seq(S) /\ Len(g) = h + 1 + k
            /\ \A i \in 1..h : g[i] = header[i]
            /\ g[h + 1] = Separator
            /\ \A i \in 1..k : g[h + 1 + i] = t[i]
        <4>1. IsParted(S, g, header, t)
          BY <3>2, PartsAre
        <4> HIDE DEF g
        <4> QED BY <3>2, <4>1 DEF IsParted, h
      <3> HIDE DEF g
      <3>4. \A i \in 1..n : s[i] = g[i]
        <4> TAKE i \in 1..n
        <4>1. CASE i <= h
          BY <1>1, <1>6, <1>7, <3>3, <4>1
        <4>2. CASE i = h + 1
          BY <1>1, <1>7, <3>3, <4>2
        <4>3. CASE i > h + 1
          <5>1. i - (h + 1) \in 1..k /\ i - (h + 1) \in 1..d /\ h + 1 + (i - (h + 1)) = i
            BY <1>1, <1>6, <3>1, <4>3
          <5>2. f[i] = data[i - (h + 1)] /\ g[i] = t[i - (h + 1)]
            BY <1>1, <3>3, <5>1
          <5> QED BY <1>7, <3>2, <5>1, <5>2
        <4> QED BY <1>1, <1>6, <4>1, <4>2, <4>3
      <3>5. s = g
        <4>1. Len(s) = Len(g)
          BY <1>7, <3>1, <3>3
        <4> QED BY <1>7, <3>3, <3>4, <4>1, SeqEqual
      <3> QED BY <1>8, <3>1, <3>5 DEF g, t, d
    <2> QED BY <1>1, <1>6, <2>1, <2>2
  <1>9. CASE rest \in Torn(n)
    <2>1. "value" \in DOMAIN f[n + 1]
      BY <1>9
    <2>2. PICK torn : rest = Append(s, [f[n + 1] EXCEPT !.value = torn])
      BY <1>9
    <2> DEFINE x == [f[n + 1] EXCEPT !.value = torn]
    <2>3. DOMAIN x = DOMAIN f[n + 1]
      OBVIOUS
    <2>4. x # Separator
      BY <1>3, <2>1, <2>3
    <2>5. n < h
      <3>1. n + 1 # h + 1
        BY <1>1, <1>3, <2>1
      <3>2. ASSUME n > h
            PROVE  FALSE
        <4>1. n - h \in 1..d /\ h + 1 + (n - h) = n + 1
          BY <1>1, <1>6, <3>2
        <4>2. f[n + 1] = data[n - h]
          BY <1>1, <4>1
        <4> QED BY <1>4, <2>1, <4>1, <4>2
      <3> QED BY <1>1, <1>6, <3>1, <3>2
    <2>6. \A i \in 1..n : s[i] # Separator
      BY <1>1, <1>5, <1>6, <1>7, <2>5
    <2> HIDE DEF x, s
    <2> DEFINE R == S \cup {x}
    <2>7. s \in Seq(R) /\ x \in R
      BY <1>7, SeqMonotonic
    <2> HIDE DEF R
    <2>8. /\ Append(s, x) \in Seq(R) /\ Len(Append(s, x)) = n + 1
          /\ \A i \in 1..n : Append(s, x)[i] = s[i]
          /\ Append(s, x)[n + 1] = x
      BY <1>7, <2>7, AppendProperties
    <2> DEFINE r == Append(s, x)
    <2> HIDE DEF r
    <2>9. r \in Seq(R) /\ Len(r) = n + 1 /\ (\A i \in 1..n : r[i] # Separator) /\ r[n + 1] # Separator
      BY <2>4, <2>6, <2>8 DEF r
    <2>10. DOMAIN r = 1..n + 1
      BY <2>9
    <2>11. \A i \in DOMAIN r : r[i] # Separator
      BY <1>6, <2>9, <2>10
    <2> QED BY <2>2, <2>11 DEF r, x
  <1> QED BY <1>2, <1>8, <1>9

--------------------------------------------------------------------------------
(* The measurement a session saves, as it is written.                       *)

(* One sequence after another.                                              *)
IsJoin(S, c, a, b) ==
  /\ c \in Seq(S) /\ Len(c) = Len(a) + Len(b)
  /\ \A i \in 1..Len(a) + Len(b) : c[i] = IF i <= Len(a) THEN a[i] ELSE b[i - Len(a)]

(* is their concatenation.                                                  *)
LEMMA JoinIs ==
  ASSUME NEW S, NEW a \in Seq(S), NEW b \in Seq(S)
  PROVE  IsJoin(S, a \o b, a, b)
  BY ConcatProperties DEF IsJoin

(* The lines of a live measurement's header, one of them only if there is   *)
(* an offset.                                                               *)
LiveHeader(header, name, offset) ==
  /\ DOMAIN header = 1..(IF offset = 0 THEN 10 ELSE 11)
  /\ header[1] = Magic
  /\ header[2] = TextField("name", name)
  /\ header[3] = TextField("notes", <<>>)
  /\ header[4] = Field("id", 0)
  /\ header[5] = Field("captured_at", 0)
  /\ header[6] = Field("sample_rate", 48000)
  /\ header[7] = Field("channels", 1)
  /\ header[8] = Line("kind", Word("power_spectrum"))
  /\ header[9] = Field("points", FrameBins)
  /\ header[10] = Field("bin_spacing_hz", 20)
  /\ offset # 0 => header[11] = Field("spl_offset_db", offset)

(* and its data.                                                            *)
LiveData(data, frame) ==
  /\ DOMAIN data = 1..FrameBins
  /\ \A i \in 1..FrameBins : data[i] = Datum(10 * frame + i)

(* The references of a live measurement.                                    *)
LiveReferences(offset) ==
  [NoReferences EXCEPT !["spl_offset_db"] = IF offset = 0 THEN Unset ELSE Given(offset)]

(* What is known of them.                                                   *)
LEMMA LiveReferencesAre ==
  ASSUME NEW offset
  PROVE  /\ DOMAIN LiveReferences(offset) = RefKeys
         /\ LiveReferences(offset)["spl_offset_db"] = IF offset = 0 THEN Unset ELSE Given(offset)
         /\ \A key \in RefKeys \ {"spl_offset_db"} : LiveReferences(offset)[key] = Unset
  BY DEF LiveReferences, NoReferences, RefKeys

(* The fields of a live measurement.                                        *)
LEMMA LiveIs ==
  ASSUME NEW frame \in Nat \ {0}, NEW name, NEW offset
  PROVE  LET m == LiveMeasurement(frame, name, offset)
         IN  m = [id |-> 0, name |-> name, notes |-> <<>>, captured_at |-> 0,
                  sample_rate |-> 48000, channels |-> 1,
                  references |-> LiveReferences(offset),
                  data |-> [kind |-> "power_spectrum", points |-> FrameLevels(frame),
                            coherence |-> <<>>, axis |-> 20]]
  BY DEF LiveMeasurement, Measurement, LiveReferences

(* The only reference there may be is the offset.                           *)
LEMMA ReferencesWritten ==
  ASSUME NEW S, NEW offset, Field("spl_offset_db", offset) \in S
  PROVE  References(LiveReferences(offset)) =
           IF offset = 0 THEN <<>> ELSE <<Field("spl_offset_db", offset)>>
  <1> DEFINE refs == LiveReferences(offset)
             Optional(key) == IF IsGiven(refs[key]) THEN <<Field(key, refs[key].value)>> ELSE <<>>
             one == IF offset = 0 THEN <<>> ELSE <<Field("spl_offset_db", offset)>>
  <1>1. ~IsGiven(Unset) /\ IsGiven(Given(offset)) /\ Given(offset).value = offset
    BY DEF IsGiven, Unset, Given
  <1>2. Optional("spl_offset_db") = one
    BY <1>1, LiveReferencesAre
  <1>3. \A key \in RefKeys \ {"spl_offset_db"} : Optional(key) = <<>>
    BY <1>1, LiveReferencesAre
  <1>4. one \in Seq(S)
    BY OneOrTwo
  <1>5. /\ Optional("full_scale_input_volts") = <<>> /\ Optional("full_scale_output_volts") = <<>>
        /\ Optional("reference_resistance_ohms") = <<>>
        /\ Optional("propagation_delay_seconds") = <<>>
    BY <1>3 DEF RefKeys
  <1>6. References(refs) = (((Optional("spl_offset_db") \o Optional("full_scale_input_volts"))
          \o Optional("full_scale_output_volts")) \o Optional("reference_resistance_ohms"))
          \o Optional("propagation_delay_seconds")
    BY DEF References
  <1> HIDE DEF one, Optional
  <1>7. one \o <<>> = one
    BY <1>4, ConcatEmptySeq
  <1>8. References(refs) = one
    BY <1>2, <1>5, <1>6, <1>7
  <1> QED BY <1>8 DEF one

(* The whole header.                                                        *)
LEMMA HeaderWritten ==
  ASSUME NEW frame \in Nat \ {0}, NEW name, NEW offset,
         NEW S, Magic \in S, Field("spl_offset_db", offset) \in S,
         TextField("name", name) \in S, TextField("notes", <<>>) \in S, Field("id", 0) \in S,
         Field("captured_at", 0) \in S, Field("sample_rate", 48000) \in S,
         Field("channels", 1) \in S, Line("kind", Word("power_spectrum")) \in S,
         Field("points", FrameBins) \in S, Field("bin_spacing_hz", 20) \in S
  PROVE  LET header == <<Magic>> \o Header(LiveMeasurement(frame, name, offset))
         IN  header \in Seq(S) /\ LiveHeader(header, name, offset)
  <1> DEFINE m == LiveMeasurement(frame, name, offset)
             l == << TextField("name", name), TextField("notes", <<>>), Field("id", 0),
                     Field("captured_at", 0), Field("sample_rate", 48000),
                     Field("channels", 1), Line("kind", Word("power_spectrum")),
                     Field("points", FrameBins), Field("bin_spacing_hz", 20) >>
             o == IF offset = 0 THEN <<>> ELSE <<Field("spl_offset_db", offset)>>
             k == IF offset = 0 THEN 0 ELSE 1
  <1>1. Len(FrameLevels(frame)) = FrameBins /\ AxisKey("power_spectrum") = "bin_spacing_hz"
    <2>1. FrameBins \in Nat
      BY SavedAssumption
    <2> QED BY <2>1 DEF FrameLevels, AxisKey
  <1>2. Header(m) = l \o o
    <2>1. /\ m.name = name /\ m.notes = <<>> /\ m.id = 0 /\ m.captured_at = 0
          /\ m.sample_rate = 48000 /\ m.channels = 1
      BY LiveIs
    <2>2. /\ m.data.kind = "power_spectrum" /\ m.data.points = FrameLevels(frame)
          /\ m.data.axis = 20
      BY LiveIs
    <2>3. m.references = LiveReferences(offset)
      BY LiveIs
    <2>4. References(m.references) = o
      BY <2>3, ReferencesWritten
    <2>5. Header(m) =
            << TextField("name", m.name), TextField("notes", m.notes), Field("id", m.id),
               Field("captured_at", m.captured_at), Field("sample_rate", m.sample_rate),
               Field("channels", m.channels), Line("kind", Word(m.data.kind)),
               Field("points", Len(m.data.points)), Field(AxisKey(m.data.kind), m.data.axis) >>
            \o References(m.references)
      BY DEF Header
    <2> HIDE DEF m, o
    <2>6. l = << TextField("name", m.name), TextField("notes", m.notes), Field("id", m.id),
               Field("captured_at", m.captured_at), Field("sample_rate", m.sample_rate),
               Field("channels", m.channels), Line("kind", Word(m.data.kind)),
               Field("points", Len(m.data.points)), Field(AxisKey(m.data.kind), m.data.axis) >>
      BY <1>1, <2>1, <2>2
    <2> HIDE DEF l
    <2> QED BY <2>4, <2>5, <2>6
  <1>3. /\ l \in Seq(S) /\ Len(l) = 9
        /\ l[1] = TextField("name", name) /\ l[2] = TextField("notes", <<>>)
        /\ l[3] = Field("id", 0) /\ l[4] = Field("captured_at", 0)
        /\ l[5] = Field("sample_rate", 48000) /\ l[6] = Field("channels", 1)
        /\ l[7] = Line("kind", Word("power_spectrum")) /\ l[8] = Field("points", FrameBins)
        /\ l[9] = Field("bin_spacing_hz", 20)
    OBVIOUS
  <1>4. /\ o \in Seq(S) /\ Len(o) = k
        /\ offset # 0 => o[1] = Field("spl_offset_db", offset)
    <2>1. <<Field("spl_offset_db", offset)>> \in Seq(S)
          /\ Len(<<Field("spl_offset_db", offset)>>) = 1
      BY OneOrTwo
    <2> QED BY <2>1
  <1>5. <<Magic>> \in Seq(S) /\ Len(<<Magic>>) = 1 /\ <<Magic>>[1] = Magic
    BY OneOrTwo
  <1>6. k \in {0, 1} /\ (offset # 0 => k = 1) /\ (offset = 0 => k = 0)
    OBVIOUS
  <1> HIDE DEF l, o, k, m
  <1> DEFINE c == l \o o
  <1>7. /\ c \in Seq(S) /\ Len(c) = 9 + k
        /\ \A i \in 1..9 + k : c[i] = IF i <= 9 THEN l[i] ELSE o[i - 9]
    <2>1. l \in Seq(S) /\ o \in Seq(S) /\ Len(l) = 9 /\ Len(o) = k
      BY <1>3, <1>4
    <2>2. IsJoin(S, c, l, o)
      BY <2>1, JoinIs
    <2> HIDE DEF c
    <2> QED BY <2>1, <2>2 DEF IsJoin
  <1> HIDE DEF c
  <1> DEFINE header == <<Magic>> \o c
  <1>8. IsJoin(S, header, <<Magic>>, c)
    <2> DEFINE one == <<Magic>>
    <2>1. one \in Seq(S) /\ c \in Seq(S)
      BY <1>5, <1>7
    <2> HIDE DEF one
    <2>2. IsJoin(S, one \o c, one, c)
      BY <2>1, JoinIs
    <2> QED BY <2>2 DEF one
  <1> HIDE DEF header
  <1>9. /\ header \in Seq(S) /\ Len(header) = 1 + (9 + k)
        /\ \A i \in 1..1 + (9 + k) : header[i] = IF i <= 1 THEN <<Magic>>[i] ELSE c[i - 1]
    BY <1>5, <1>7, <1>8 DEF IsJoin
  <1>10. DOMAIN header = 1..10 + k
    BY <1>6, <1>9
  <1>11. header[1] = Magic
    BY <1>5, <1>6, <1>9
  <1>12. \A i \in 1..9 : header[i + 1] = l[i]
    <2> TAKE i \in 1..9
    <2>1. /\ i + 1 \in 1..1 + (9 + k) /\ ~(i + 1 <= 1) /\ (i + 1) - 1 = i /\ i \in 1..9 + k /\ i <= 9
      BY <1>6
    <2> QED BY <1>7, <1>9, <2>1
  <1>13. offset # 0 => header[11] = o[1]
    <2> HAVE offset # 0
    <2>1. /\ 11 \in 1..1 + (9 + k) /\ ~(11 <= 1) /\ 11 - 1 = 10 /\ 10 \in 1..9 + k /\ ~(10 <= 9)
          /\ 10 - 9 = 1
      BY <1>6
    <2> QED BY <1>7, <1>9, <2>1
  <1>14. /\ header[2] = l[1] /\ header[3] = l[2] /\ header[4] = l[3] /\ header[5] = l[4]
         /\ header[6] = l[5] /\ header[7] = l[6] /\ header[8] = l[7] /\ header[9] = l[8]
         /\ header[10] = l[9]
    <2>1. \A j \in 2..10 : header[j] = l[j - 1]
      <3> TAKE j \in 2..10
      <3>1. j - 1 \in 1..9 /\ (j - 1) + 1 = j
        OBVIOUS
      <3> QED BY <1>12, <3>1
    <2> QED BY <2>1
  <1>15. 10 + k = IF offset = 0 THEN 10 ELSE 11
    BY <1>6
  <1>16. LiveHeader(header, name, offset)
    BY <1>3, <1>4, <1>10, <1>11, <1>13, <1>14, <1>15 DEF LiveHeader
  <1>17. header = <<Magic>> \o Header(m)
    BY <1>2 DEF header, c
  <1> QED BY <1>9, <1>16, <1>17 DEF m

(* and the data.                                                            *)
LEMMA DataWritten ==
  ASSUME NEW frame \in Nat \ {0}, NEW name, NEW offset
  PROVE  LET data == DataOf(LiveMeasurement(frame, name, offset).data)
         IN  LiveData(data, frame) /\ data \in Seq({Datum(x) : x \in Int}) /\ Len(data) = FrameBins
  <1> DEFINE d == LiveMeasurement(frame, name, offset).data
             n == FrameBins
  <1>1. n \in Nat
    BY SavedAssumption
  <1>2. /\ d.kind = "power_spectrum" /\ d.points = FrameLevels(frame) /\ d.coherence = <<>>
    BY LiveIs
  <1>3. RealsPerPoint(d.kind) = 1
    BY <1>2 DEF RealsPerPoint, ComplexKinds
  <1>4. d.points = [i \in 1..n |-> <<10 * frame + i>>] /\ Len(d.points) = n
    BY <1>1, <1>2 DEF FrameLevels
  <1>5. Len(d.coherence) = 0
    BY <1>2
  <1> HIDE DEF d, n
  <1> DEFINE F(i) == Datum(IF i <= n THEN d.points[(i - 1) \div 1 + 1][((i - 1) % 1) + 1]
                           ELSE d.coherence[i - n])
  <1> DEFINE paired == RealsPerPoint(d.kind) * Len(d.points)
  <1>5a. paired = n /\ paired + Len(d.coherence) = n
    BY <1>1, <1>3, <1>4, <1>5
  <1> HIDE DEF paired
  <1>6. /\ DOMAIN DataOf(d) = 1..n
        /\ \A i \in 1..n : DataOf(d)[i] = F(i)
        /\ DataOf(d) = [i \in 1..n |-> DataOf(d)[i]]
    <2> DEFINE G(i) == Datum(IF i <= paired
                             THEN d.points[(i - 1) \div RealsPerPoint(d.kind) + 1]
                                          [((i - 1) % RealsPerPoint(d.kind)) + 1]
                             ELSE d.coherence[i - paired])
    <2>1. DataOf(d) = [i \in 1..paired + Len(d.coherence) |-> G(i)]
      BY Zenon DEF DataOf, paired
    <2>2. \A i : G(i) = F(i)
      BY <1>3, <1>5a
    <2> HIDE DEF F, G
    <2> QED BY <1>5a, <2>1, <2>2
  <1>7. ASSUME NEW i \in 1..n
        PROVE  F(i) = Datum(10 * frame + i)
    <2>1. i <= n /\ i \in Int
      BY <1>1
    <2>2. (i - 1) \div 1 + 1 = i
      BY <2>1
    <2>3. ((i - 1) % 1) + 1 = 1
      BY <2>1
    <2>4. d.points[i] = <<10 * frame + i>>
      BY <1>4
    <2>5. d.points[(i - 1) \div 1 + 1][((i - 1) % 1) + 1] = 10 * frame + i
      BY <2>2, <2>3, <2>4
    <2> QED BY <2>1, <2>5
  <1> HIDE DEF F
  <1> DEFINE data == DataOf(d)
  <1>8. /\ DOMAIN data = 1..n
        /\ \A i \in 1..n : data[i] = Datum(10 * frame + i)
        /\ data = [i \in 1..n |-> data[i]]
    <2> HIDE DEF data
    <2> QED BY <1>6, <1>7 DEF data
  <1> HIDE DEF data
  <1>9. data \in [1..n -> {Datum(x) : x \in Int}]
    <2>1. \A i \in 1..n : 10 * frame + i \in Int
      BY <1>1
    <2> QED BY <1>8, <2>1
  <1>10. data \in Seq({Datum(x) : x \in Int}) /\ Len(data) = n
    BY <1>1, <1>9, Listed
  <1> QED BY <1>8, <1>10 DEF LiveData, data, d, n

(* What the only line of a key says.                                        *)
LEMMA OneLine ==
  ASSUME NEW n \in Nat, NEW lines, DOMAIN lines = 1..n,
         NEW i \in 1..n, NEW key, NEW value, lines[i] = Line(key, value),
         \A j \in 1..n : j # i => lines[j] = Magic \/ lines[j].key # key
  PROVE  Has(lines, key) /\ Get(lines, key) = value
  <1>1. "key" \notin DOMAIN Magic
    BY DEF Magic
  <1>2. "key" \in DOMAIN Line(key, value) /\ Line(key, value).key = key
        /\ Line(key, value).value = value
    BY DEF Line
  <1>3. LinesOf(lines, key) = {i}
    BY <1>1, <1>2 DEF LinesOf
  <1>4. {i} \in SUBSET Int /\ i \in {i} /\ \A y \in {i} : i <= y
    OBVIOUS
  <1>5. Least({i}) = i
    BY <1>4, LeastPlace
  <1> QED BY <1>2, <1>3, <1>5 DEF Has, Get

(* A key without a line.                                                    *)
LEMMA NoLine ==
  ASSUME NEW n \in Nat, NEW lines, DOMAIN lines = 1..n, NEW key,
         \A j \in 1..n : lines[j] = Magic \/ lines[j].key # key
  PROVE  ~Has(lines, key)
  <1>1. "key" \notin DOMAIN Magic
    BY DEF Magic
  <1> QED BY <1>1 DEF Has, LinesOf

(* What the header of a live measurement says.                              *)
HeaderSays(header, name, offset) ==
  /\ Has(header, "name") /\ Get(header, "name") = [text |-> Escape(name)]
  /\ Has(header, "notes") /\ Get(header, "notes") = [text |-> Escape(<<>>)]
  /\ Has(header, "id") /\ Get(header, "id") = Number(0)
  /\ Has(header, "captured_at") /\ Get(header, "captured_at") = Number(0)
  /\ Has(header, "sample_rate") /\ Get(header, "sample_rate") = Number(48000)
  /\ Has(header, "channels") /\ Get(header, "channels") = Number(1)
  /\ Has(header, "kind") /\ Get(header, "kind") = Word("power_spectrum")
  /\ Has(header, "points") /\ Get(header, "points") = Number(FrameBins)
  /\ Has(header, "bin_spacing_hz") /\ Get(header, "bin_spacing_hz") = Number(20)
  /\ offset = 0 => ~Has(header, "spl_offset_db")
  /\ offset # 0 => /\ Has(header, "spl_offset_db")
                   /\ Get(header, "spl_offset_db") = Number(offset)
  /\ \A key \in RefKeys \ {"spl_offset_db"} : ~Has(header, key)

(* It says so.                                                              *)
LEMMA HeaderIs ==
  ASSUME NEW header, NEW name, NEW offset, LiveHeader(header, name, offset)
  PROVE  HeaderSays(header, name, offset)
  <1> DEFINE n == IF offset = 0 THEN 10 ELSE 11
  <1>1. n \in Nat /\ DOMAIN header = 1..n /\ n \in {10, 11} /\ (n = 11 <=> offset # 0)
    BY DEF LiveHeader
  <1>2. /\ header[1] = Magic
        /\ header[2] = Line("name", [text |-> Escape(name)])
        /\ header[3] = Line("notes", [text |-> Escape(<<>>)])
        /\ header[4] = Line("id", Number(0))
        /\ header[5] = Line("captured_at", Number(0))
        /\ header[6] = Line("sample_rate", Number(48000))
        /\ header[7] = Line("channels", Number(1))
        /\ header[8] = Line("kind", Word("power_spectrum"))
        /\ header[9] = Line("points", Number(FrameBins))
        /\ header[10] = Line("bin_spacing_hz", Number(20))
        /\ n = 11 => header[11] = Line("spl_offset_db", Number(offset))
    BY <1>1 DEF LiveHeader, TextField, Field
  <1> HIDE DEF n
  <1>3. \A key, value : Line(key, value).key = key
    BY DEF Line
  <1>4. /\ header[2].key = "name" /\ header[3].key = "notes" /\ header[4].key = "id"
        /\ header[5].key = "captured_at" /\ header[6].key = "sample_rate"
        /\ header[7].key = "channels" /\ header[8].key = "kind" /\ header[9].key = "points"
        /\ header[10].key = "bin_spacing_hz"
        /\ n = 11 => header[11].key = "spl_offset_db"
    BY <1>2, <1>3
  <1>5. \A j \in 1..n : j = 1 \/ j \in 2..10 \/ (j = 11 /\ n = 11)
    BY <1>1
  <1>6. ASSUME NEW i \in 2..n, NEW key, NEW value, header[i] = Line(key, value),
               \A j \in 2..n : j # i => header[j].key # key
        PROVE  Has(header, key) /\ Get(header, key) = value
    <2>1. i \in 1..n
      BY <1>1
    <2>2. \A j \in 1..n : j # i => header[j] = Magic \/ header[j].key # key
      BY <1>1, <1>2, <1>6
    <2> QED BY <1>1, <1>6, <2>1, <2>2, OneLine
  <1>7. ASSUME NEW key, \A j \in 2..n : header[j].key # key
        PROVE  ~Has(header, key)
    <2>1. \A j \in 1..n : header[j] = Magic \/ header[j].key # key
      BY <1>1, <1>2, <1>7
    <2> QED BY <1>1, <2>1, NoLine
  <1>8. Has(header, "name") /\ Get(header, "name") = [text |-> Escape(name)]
    <2>1. 2 \in 2..n /\ \A j \in 2..n : j # 2 => header[j].key # "name"
      BY <1>1, <1>4
    <2> QED BY <1>2, <1>6, <2>1
  <1>9. Has(header, "notes") /\ Get(header, "notes") = [text |-> Escape(<<>>)]
    <2>1. 3 \in 2..n /\ \A j \in 2..n : j # 3 => header[j].key # "notes"
      BY <1>1, <1>4
    <2> QED BY <1>2, <1>6, <2>1
  <1>10. Has(header, "id") /\ Get(header, "id") = Number(0)
    <2>1. 4 \in 2..n /\ \A j \in 2..n : j # 4 => header[j].key # "id"
      BY <1>1, <1>4
    <2> QED BY <1>2, <1>6, <2>1
  <1>11. Has(header, "captured_at") /\ Get(header, "captured_at") = Number(0)
    <2>1. 5 \in 2..n /\ \A j \in 2..n : j # 5 => header[j].key # "captured_at"
      BY <1>1, <1>4
    <2> QED BY <1>2, <1>6, <2>1
  <1>12. Has(header, "sample_rate") /\ Get(header, "sample_rate") = Number(48000)
    <2>1. 6 \in 2..n /\ \A j \in 2..n : j # 6 => header[j].key # "sample_rate"
      BY <1>1, <1>4
    <2> QED BY <1>2, <1>6, <2>1
  <1>13. Has(header, "channels") /\ Get(header, "channels") = Number(1)
    <2>1. 7 \in 2..n /\ \A j \in 2..n : j # 7 => header[j].key # "channels"
      BY <1>1, <1>4
    <2> QED BY <1>2, <1>6, <2>1
  <1>14. Has(header, "kind") /\ Get(header, "kind") = Word("power_spectrum")
    <2>1. 8 \in 2..n /\ \A j \in 2..n : j # 8 => header[j].key # "kind"
      BY <1>1, <1>4
    <2> QED BY <1>2, <1>6, <2>1
  <1>15. Has(header, "points") /\ Get(header, "points") = Number(FrameBins)
    <2>1. 9 \in 2..n /\ \A j \in 2..n : j # 9 => header[j].key # "points"
      BY <1>1, <1>4
    <2> QED BY <1>2, <1>6, <2>1
  <1>16. Has(header, "bin_spacing_hz") /\ Get(header, "bin_spacing_hz") = Number(20)
    <2>1. 10 \in 2..n /\ \A j \in 2..n : j # 10 => header[j].key # "bin_spacing_hz"
      BY <1>1, <1>4
    <2> QED BY <1>2, <1>6, <2>1
  <1>17. offset = 0 => ~Has(header, "spl_offset_db")
    <2> HAVE offset = 0
    <2>1. \A j \in 2..n : header[j].key # "spl_offset_db"
      BY <1>1, <1>4
    <2> QED BY <1>7, <2>1
  <1>18. offset # 0 => /\ Has(header, "spl_offset_db")
                       /\ Get(header, "spl_offset_db") = Number(offset)
    <2> HAVE offset # 0
    <2>1. n = 11 /\ 11 \in 2..n /\ \A j \in 2..n : j # 11 => header[j].key # "spl_offset_db"
      BY <1>1, <1>4
    <2> QED BY <1>2, <1>6, <2>1
  <1>19. ASSUME NEW key \in RefKeys \ {"spl_offset_db"}
         PROVE  ~Has(header, key)
    <2>1. \A j \in 2..n : header[j].key # key
      BY <1>1, <1>4 DEF RefKeys
    <2> QED BY <1>7, <2>1
  <1> QED BY <1>8, <1>9, <1>10, <1>11, <1>12, <1>13, <1>14, <1>15, <1>16, <1>17, <1>18, <1>19
          DEF HeaderSays

(* Counts that fit.                                                         *)
LEMMA CountIs ==
  ASSUME NEW x \in 0..LargestSize
  PROVE  Count(x) = x
  <1>1. x \in Int /\ x # NaN /\ x # Inf
    BY FloatAssumption
  <1>2. LargestSize \in Nat /\ ~(x < 0) /\ ~(x > LargestSize)
    BY SavedAssumption
  <1> QED BY <1>1, <1>2, ZenonT(30) DEF Count

(* The reals a power spectrum needs.                                        *)
LEMMA RealsNeeded ==
  RealsFor("power_spectrum", Count(FrameBins)) = FrameBins
  <1>1. FrameBins \in Nat /\ FrameBins \in 0..LargestSize /\ LargestSize \in Nat
        /\ FrameBins <= LargestSize
    BY SavedAssumption
  <1>2. Count(FrameBins) = FrameBins
    BY <1>1, CountIs
  <1>3. (LargestSize - 0) \div 1 = LargestSize
    BY <1>1
  <1>4. Needed(FrameBins, 1, 0) = FrameBins
    BY <1>1, <1>3 DEF Needed
  <1>5. RealsFor("power_spectrum", FrameBins) = Needed(FrameBins, 1, 0)
    <2>1. "power_spectrum" # "spectrum" /\ "power_spectrum" # "transfer_function"
      OBVIOUS
    <2> QED BY <2>1, ZenonT(30) DEF RealsFor
  <1> QED BY <1>2, <1>4, <1>5

(* A live measurement is refused only where data are missing.               *)
LEMMA RefusedWhenCut ==
  ASSUME NEW header, NEW name, NEW offset, LiveHeader(header, name, offset), NEW data
  PROVE  Refusal(header, data) = IF Len(data) < FrameBins THEN "Truncated" ELSE "none"
  <1>1. HeaderSays(header, name, offset)
    BY HeaderIs
  <1>2. header[1] = Magic /\ header # <<>>
    <2>1. 1 \in DOMAIN header /\ header[1] = Magic
      BY DEF LiveHeader
    <2>2. 1 \notin DOMAIN <<>>
      OBVIOUS
    <2> QED BY <2>1, <2>2
  <1>3. /\ Has(header, "kind") /\ Get(header, "kind") = Word("power_spectrum")
        /\ Has(header, "points") /\ Get(header, "points") = Number(FrameBins)
        /\ Has(header, "bin_spacing_hz") /\ Get(header, "bin_spacing_hz") = Number(20)
        /\ Has(header, "sample_rate") /\ Get(header, "sample_rate") = Number(48000)
    BY <1>1 DEF HeaderSays
  <1>4. \A x : IsNumber(Number(x)) /\ Number(x).number = x
    BY DEF IsNumber, Number
  <1>5. /\ HasNumber(header, "points") /\ HasNumber(header, "bin_spacing_hz")
        /\ HasNumber(header, "sample_rate")
    BY <1>3, <1>4 DEF HasNumber
  <1>6. /\ Get(header, "kind") \in {Word(kind) : kind \in Kinds}
        /\ Get(header, "kind").word = "power_spectrum"
        /\ AxisKey(Get(header, "kind").word) = "bin_spacing_hz"
    <2>1. Word("power_spectrum").word = "power_spectrum"
      BY DEF Word
    <2>2. "power_spectrum" \in Kinds
      BY DEF Kinds, RealKinds
    <2>3. AxisKey("power_spectrum") = "bin_spacing_hz"
      BY DEF AxisKey
    <2> QED BY <1>3, <2>1, <2>2, <2>3
  <1>7. RealsFor(Get(header, "kind").word, Count(Get(header, "points").number)) = FrameBins
    BY <1>3, <1>4, <1>6, RealsNeeded
  <1> QED BY <1>2, <1>3, <1>5, <1>6, <1>7 DEF Refusal

(* The measurements with these fields.                                      *)
Measured(name, notes, references, data) ==
  [id : {0}, name : {name}, notes : {notes}, captured_at : {0}, sample_rate : {48000},
   channels : {1}, references : {references}, data : {data}]

(* There is one.                                                            *)
LEMMA MeasuredOnce ==
  ASSUME NEW name, NEW notes, NEW references, NEW data,
         NEW a \in Measured(name, notes, references, data), NEW b \in Measured(name, notes, references, data)
  PROVE  a = b
  BY DEF Measured

(* Its texts may be others.                                                 *)
LEMMA OtherTexts ==
  ASSUME NEW name, NEW notes, NEW references, NEW data,
         NEW m \in Measured(name, notes, references, data), NEW a, NEW b
  PROVE  [m EXCEPT !.name = a, !.notes = b] \in Measured(a, b, references, data)
  <1> DEFINE k == [m EXCEPT !.name = a]
  <1>1. k \in Measured(a, notes, references, data)
    BY DEF Measured
  <1>2. [m EXCEPT !.name = a, !.notes = b] = [k EXCEPT !.notes = b]
    OBVIOUS
  <1> HIDE DEF k
  <1>3. [k EXCEPT !.notes = b] \in Measured(a, b, references, data)
    BY <1>1 DEF Measured
  <1> QED BY <1>2, <1>3

(* as those are that a file keeps.                                          *)
LEMMA KeptIs ==
  ASSUME NEW name, NEW notes, NEW references, NEW data,
         NEW m \in Measured(name, notes, references, data)
  PROVE  KeptMeasurement(m) \in Measured(Trim(name), Trim(notes), references, data)
  <1>1. m.name = name /\ m.notes = notes
    BY DEF Measured
  <1>2. \A a, b : [m EXCEPT !.name = a, !.notes = b] \in Measured(a, b, references, data)
    BY OtherTexts
  <1>3. [m EXCEPT !.name = Trim(m.name), !.notes = Trim(m.notes)]
          \in Measured(Trim(m.name), Trim(m.notes), references, data)
    BY <1>2, Zenon
  <1>4. KeptMeasurement(m) \in Measured(Trim(m.name), Trim(m.notes), references, data)
    BY <1>3, Zenon DEF KeptMeasurement
  <1> QED BY <1>1, <1>4

(* What a reader makes of the references of a live measurement.             *)
LEMMA ReferencesRead ==
  ASSUME NEW header, NEW name, NEW offset, HeaderSays(header, name, offset)
  PROVE  [key \in RefKeys |-> OptionalNumber(header, key)] = LiveReferences(offset)
  <1>1. IsNumber(Number(offset)) /\ Number(offset).number = offset
    BY DEF IsNumber, Number
  <1>2. OptionalNumber(header, "spl_offset_db") = IF offset = 0 THEN Unset ELSE Given(offset)
    <2>1. CASE offset = 0
      BY <2>1 DEF HeaderSays, OptionalNumber, HasNumber
    <2>2. CASE offset # 0
      BY <1>1, <2>2 DEF HeaderSays, OptionalNumber, HasNumber
    <2> QED BY <2>1, <2>2
  <1>3. \A key \in RefKeys \ {"spl_offset_db"} : OptionalNumber(header, key) = Unset
    BY DEF HeaderSays, OptionalNumber, HasNumber
  <1>4. \A key \in RefKeys : OptionalNumber(header, key) = LiveReferences(offset)[key]
    BY <1>2, <1>3, LiveReferencesAre
  <1>5. LiveReferences(offset) = [key \in RefKeys |-> LiveReferences(offset)[key]]
    BY DEF LiveReferences, NoReferences, RefKeys
  <1> QED BY <1>4, <1>5

(* and of the data.                                                         *)
LEMMA DataRead ==
  ASSUME NEW frame \in Nat \ {0}, NEW data, LiveData(data, frame)
  PROVE  Unpacked("power_spectrum", FrameBins, [i \in DOMAIN data |-> data[i].datum], 20) =
           [kind |-> "power_spectrum", points |-> FrameLevels(frame), coherence |-> <<>>,
            axis |-> 20]
  <1> DEFINE reals == [i \in DOMAIN data |-> data[i].datum]
             n == FrameBins
             Point(i) == SubSeq(reals, 1 * (i - 1) + 1, 1 * i)
  <1>1. n \in Nat
    BY SavedAssumption
  <1>2. DOMAIN reals = 1..n /\ \A i \in 1..n : reals[i] = 10 * frame + i
    <2>1. \A x : Datum(x).datum = x
      BY DEF Datum
    <2> QED BY <2>1 DEF LiveData
  <1> HIDE DEF reals, n
  <1>3. ASSUME NEW i \in 1..n
        PROVE  Point(i) = <<10 * frame + i>>
    <2>1. i \in Int /\ 1 * (i - 1) + 1 = i /\ 1 * i = i
      OBVIOUS
    <2>2. \A k \in i..i : reals[k] \in Int
      BY <1>1, <1>2
    <2> DEFINE s == SubSeq(reals, i, i)
    <2>3. /\ s \in Seq(Int) /\ Len(s) = IF i <= i THEN i - i + 1 ELSE 0
          /\ \A k \in 1..i - i + 1 : s[k] = reals[i + k - 1]
      BY <2>1, <2>2, SubSeqProperties
    <2> HIDE DEF s
    <2>4. Len(s) = 1 /\ s[1] = 10 * frame + i
      <3>1. 1 \in 1..i - i + 1 /\ i + 1 - 1 = i /\ i - i + 1 = 1 /\ i <= i
        BY <2>1
      <3> QED BY <1>2, <2>3, <3>1
    <2>5. s = <<10 * frame + i>>
      BY <2>3, <2>4
    <2> QED BY <2>1, <2>5 DEF s
  <1> HIDE DEF Point
  <1>4. [i \in 1..n |-> Point(i)] = FrameLevels(frame)
    <2>1. frame # 0
      OBVIOUS
    <2> QED BY <1>3, <2>1 DEF FrameLevels, n
  <1>5. RealsPerPoint("power_spectrum") = 1 /\ "power_spectrum" # "transfer_function"
    BY DEF RealsPerPoint, ComplexKinds
  <1>6. Unpacked("power_spectrum", n, reals, 20) =
          [kind |-> "power_spectrum", axis |-> 20, points |-> [i \in 1..n |-> Point(i)],
           coherence |-> <<>>]
    BY <1>5 DEF Unpacked, Point
  <1> QED BY <1>4, <1>6 DEF reals, n

(* A text in a header reads as it was written.                              *)
LEMMA TextRead ==
  ASSUME NEW lines, NEW key, NEW text \in Texts, Has(lines, key),
         Get(lines, key) = [text |-> Escape(text)]
  PROVE  TextOf(lines, key) = Trim(text)
  <1>1. "text" \in DOMAIN Get(lines, key) /\ Get(lines, key).text = Escape(text)
    OBVIOUS
  <1>2. TextOf(lines, key) = Unescape(Trim(Escape(text)))
    BY <1>1 DEF TextOf
  <1> QED BY <1>2, TextComesBack

(* The whole header, with whole data, reads as the measurement it is of.    *)
LEMMA LinesRead ==
  ASSUME NEW frame \in Nat \ {0}, NEW name \in Texts, NEW offset,
         NEW header, LiveHeader(header, name, offset), NEW data, LiveData(data, frame)
  PROVE  ReadLines(header, [i \in DOMAIN data |-> data[i].datum]) =
           KeptMeasurement(LiveMeasurement(frame, name, offset))
  <1> DEFINE m == LiveMeasurement(frame, name, offset)
             reals == [i \in DOMAIN data |-> data[i].datum]
             references == LiveReferences(offset)
             packed == [kind |-> "power_spectrum", points |-> FrameLevels(frame),
                        coherence |-> <<>>, axis |-> 20]
             read == ReadLines(header, reals)
  <1>1. HeaderSays(header, name, offset)
    BY HeaderIs
  <1>2. \A x : IsNumber(Number(x)) /\ Number(x).number = x /\ IsGiven(Given(x)) /\ Given(x).value = x
    BY DEF IsNumber, Number, IsGiven, Given
  <1>3. <<>> \in Texts /\ Trim(<<>>) = <<>>
    BY DEF Texts, Trim
  <1>4. TextOf(header, "name") = Trim(name) /\ TextOf(header, "notes") = <<>>
    BY <1>1, <1>3, TextRead DEF HeaderSays
  <1>5. /\ Get(header, "kind").word = "power_spectrum"
        /\ Get(header, "sample_rate").number = 48000
        /\ Get(header, "points").number = FrameBins
        /\ Get(header, AxisKey("power_spectrum")).number = 20
    <2>1. Word("power_spectrum").word = "power_spectrum"
      BY DEF Word
    <2>2. AxisKey("power_spectrum") = "bin_spacing_hz"
      BY DEF AxisKey
    <2> QED BY <1>1, <1>2, <2>1, <2>2 DEF HeaderSays
  <1>6. /\ ValueOr(OptionalNumber(header, "id"), 0) = 0
        /\ ValueOr(OptionalNumber(header, "captured_at"), 0) = 0
        /\ ValueOr(OptionalNumber(header, "channels"), 1) = 1
    <2>1. \A key, x, other : Has(header, key) /\ Get(header, key) = Number(x) =>
            ValueOr(OptionalNumber(header, key), other) = x
      BY <1>2 DEF ValueOr, OptionalNumber, HasNumber
    <2> QED BY <1>1, <2>1 DEF HeaderSays
  <1>7. Count(0) = 0 /\ Count(1) = 1 /\ Count(FrameBins) = FrameBins
    <2>1. 0 \in 0..LargestSize /\ 1 \in 0..LargestSize /\ FrameBins \in 0..LargestSize
      BY SavedAssumption
    <2> QED BY <2>1, CountIs
  <1>8. [key \in RefKeys |-> OptionalNumber(header, key)] = references
    BY <1>1, ReferencesRead
  <1>9. Unpacked("power_spectrum", FrameBins, reals, 20) = packed
    BY DataRead
  <1> HIDE DEF reals, references, packed
  <1>10. read \in Measured(Trim(name), <<>>, references, packed)
    <2> DEFINE id == Count(ValueOr(OptionalNumber(header, "id"), 0))
               taken == ValueOr(OptionalNumber(header, "captured_at"), 0)
               channels == Count(ValueOr(OptionalNumber(header, "channels"), 1))
               known == [key \in RefKeys |-> OptionalNumber(header, key)]
               kind == Get(header, "kind").word
               unpacked == Unpacked(kind, Count(Get(header, "points").number), reals,
                                    Get(header, AxisKey(kind)).number)
    <2>1. read = [id |-> id, name |-> TextOf(header, "name"), notes |-> TextOf(header, "notes"),
                  captured_at |-> taken, sample_rate |-> Get(header, "sample_rate").number,
                  channels |-> channels, references |-> known, data |-> unpacked]
      BY DEF ReadLines
    <2>2. id = 0 /\ taken = 0 /\ channels = 1
      BY <1>6, <1>7
    <2>3. known = references
      BY <1>8
    <2>4. unpacked = packed
      BY <1>5, <1>7, <1>9
    <2> HIDE DEF read, id, taken, channels, known, unpacked
    <2> QED BY <1>4, <1>5, <2>1, <2>2, <2>3, <2>4 DEF Measured
  <1>11. KeptMeasurement(m) \in Measured(Trim(name), <<>>, references, packed)
    <2>1. m = [id |-> 0, name |-> name, notes |-> <<>>, captured_at |-> 0,
               sample_rate |-> 48000, channels |-> 1, references |-> references,
               data |-> packed]
      BY LiveIs DEF references, packed
    <2>2. m \in Measured(name, <<>>, references, packed)
      <3> HIDE DEF m
      <3> QED BY <2>1 DEF Measured
    <2> HIDE DEF m
    <2> QED BY <1>3, <2>2, KeptIs
  <1>12. read = KeptMeasurement(m)
    <2> HIDE DEF read, m
    <2> QED BY <1>10, <1>11, MeasuredOnce
  <1> QED BY <1>12 DEF reals

(* A live measurement that was written reads as what a file keeps of it,    *)
(* and cut short it does not read.                                          *)
LEMMA MeasurementComesBack ==
  ASSUME NEW frame \in Nat \ {0}, NEW name \in Texts, NEW offset \in Int
  PROVE  LET m == LiveMeasurement(frame, name, offset)
         IN  /\ ReadMeasurement(WriteMeasurement(m)) = KeptMeasurement(m)
             /\ \A rest \in Interrupted(WriteMeasurement(m)) : IsRefused(ReadMeasurement(rest))
             /\ KeptMeasurement(m) # NothingSaved
  <1> DEFINE m == LiveMeasurement(frame, name, offset)
             header == <<Magic>> \o Header(m)
             data == DataOf(m.data)
             D == {Datum(x) : x \in Int}
             H == {Magic, Field("spl_offset_db", offset), TextField("name", name),
                   TextField("notes", <<>>), Field("id", 0), Field("captured_at", 0),
                   Field("sample_rate", 48000), Field("channels", 1),
                   Line("kind", Word("power_spectrum")), Field("points", FrameBins),
                   Field("bin_spacing_hz", 20)}
             S == H \cup D \cup {Separator}
  <1>1. header \in Seq(H) /\ LiveHeader(header, name, offset)
    <2>1. /\ Magic \in H /\ Field("spl_offset_db", offset) \in H
          /\ TextField("name", name) \in H /\ TextField("notes", <<>>) \in H
          /\ Field("id", 0) \in H /\ Field("captured_at", 0) \in H
          /\ Field("sample_rate", 48000) \in H /\ Field("channels", 1) \in H
          /\ Line("kind", Word("power_spectrum")) \in H /\ Field("points", FrameBins) \in H
          /\ Field("bin_spacing_hz", 20) \in H
      OBVIOUS
    <2> HIDE DEF H
    <2> QED BY <2>1, HeaderWritten
  <1>2. LiveData(data, frame) /\ data \in Seq(D) /\ Len(data) = FrameBins
    BY DataWritten
  <1>3. \A line \in H : line # Separator
    BY DEF Magic, Separator, Field, TextField, Line
  <1>4. \A x \in D : "value" \notin DOMAIN x
    BY DEF Datum
  <1> HIDE DEF H, D
  <1>5. header \in Seq(S) /\ data \in Seq(S) /\ Separator \in S
    BY <1>1, <1>2, SeqMonotonic
  <1>6. \A i \in 1..Len(header) : header[i] # Separator
    BY <1>1, <1>3, ElementOfSeq
  <1>7. \A i \in 1..Len(data) : "value" \notin DOMAIN data[i]
    BY <1>2, <1>4, ElementOfSeq
  <1>8. WriteMeasurement(m) = Parts(header, data)
    BY Zenon DEF WriteMeasurement, Parts
  <1>9. FrameBins \in Nat
    BY SavedAssumption
  <1> HIDE DEF header, data, S, m
  <1>10. ReadMeasurement(Parts(header, data)) = KeptMeasurement(m)
    <2>1. Refusal(header, data) = "none"
      BY <1>1, <1>2, <1>9, RefusedWhenCut
    <2>2. ReadMeasurement(Parts(header, data)) = ReadLines(header, [i \in DOMAIN data |-> data[i].datum])
      <3>1. ReadMeasurement(Parts(header, data)) =
              IF Refusal(header, data) # "none" THEN [refused |-> Refusal(header, data)]
              ELSE ReadLines(header, [i \in DOMAIN data |-> data[i].datum])
        BY <1>5, <1>6, PartsRead
      <3> QED BY <2>1, <3>1
    <2>3. ReadLines(header, [i \in DOMAIN data |-> data[i].datum]) = KeptMeasurement(m)
      BY <1>1, <1>2, LinesRead DEF m
    <2> QED BY <2>2, <2>3
  <1>11. ASSUME NEW rest \in Interrupted(Parts(header, data))
         PROVE  IsRefused(ReadMeasurement(rest))
    <2>1. CASE \A i \in DOMAIN rest : rest[i] # Separator
      BY <2>1, WholeHeaderOnly
    <2>2. ASSUME NEW k \in 0..Len(data) - 1, rest = Parts(header, SubSeq(data, 1, k))
          PROVE  IsRefused(ReadMeasurement(rest))
      <3> DEFINE part == SubSeq(data, 1, k)
      <3>1. part \in Seq(S) /\ Len(part) = k /\ k < FrameBins
        <4>1. k \in Nat /\ k < FrameBins
          BY <1>2, <1>9
        <4>2. \A i \in 1..k : data[i] \in S
          BY <1>2, <1>5, <1>9, <4>1, ElementOfSeq
        <4>3. part \in Seq(S) /\ Len(part) = IF 1 <= k THEN k - 1 + 1 ELSE 0
          BY <4>1, <4>2, SubSeqProperties
        <4> HIDE DEF part
        <4> QED BY <4>1, <4>3
      <3> HIDE DEF part
      <3>2. Refusal(header, part) = "Truncated"
        BY <1>1, <3>1, RefusedWhenCut
      <3>3. ReadMeasurement(Parts(header, part)) =
              IF Refusal(header, part) # "none" THEN [refused |-> Refusal(header, part)]
              ELSE ReadLines(header, [i \in DOMAIN part |-> part[i].datum])
        BY <1>5, <1>6, <3>1, PartsRead
      <3>4. ReadMeasurement(rest) = [refused |-> "Truncated"]
        BY <2>2, <3>2, <3>3 DEF part
      <3> QED BY <3>4 DEF IsRefused
    <2> QED BY <1>5, <1>6, <1>7, <2>1, <2>2, PartsCut
  <1>12. KeptMeasurement(m) # NothingSaved
    <2> DEFINE references == LiveReferences(offset)
               packed == [kind |-> "power_spectrum", points |-> FrameLevels(frame),
                          coherence |-> <<>>, axis |-> 20]
    <2>1. m = [id |-> 0, name |-> name, notes |-> <<>>, captured_at |-> 0,
               sample_rate |-> 48000, channels |-> 1, references |-> references,
               data |-> packed]
      BY LiveIs DEF m
    <2> HIDE DEF references, packed
    <2>2. m \in Measured(name, <<>>, references, packed)
      BY <2>1 DEF Measured
    <2>3. KeptMeasurement(m) \in Measured(Trim(name), Trim(<<>>), references, packed)
      BY <2>2, KeptIs
    <2>4. "id" \in DOMAIN KeptMeasurement(m)
      BY <2>3 DEF Measured
    <2>5. "id" \notin DOMAIN NothingSaved
      BY DEF NothingSaved
    <2> QED BY <2>4, <2>5
  <1> QED BY <1>8, <1>10, <1>11, <1>12 DEF m

(* What a save of the levels as text reports.                               *)
SavedLevels(frame, offset) ==
  [calibrated |-> offset # 0,
   rows |-> [i \in DOMAIN FrameLevels(frame) |-> <<(i - 1) * 20, 10 * frame + i + offset>>]]

(* A reader of such a text is told that.                                    *)
LEMMA LevelsComeBack ==
  ASSUME NEW frame \in Nat, NEW name, NEW offset \in Int
  PROVE  RewLevels(ToRewText(LiveMeasurement(frame, name, offset))) = SavedLevels(frame, offset)
  <1> DEFINE m == LiveMeasurement(frame, name, offset)
             n == IF frame = 0 THEN 0 ELSE FrameBins
             row(i) == <<(i - 1) * 20, 10 * frame + i + offset>>
             Row(i) == <<(i - 1) * m.data.axis, m.data.points[i][1] + Offset(m)>>
             rows == Rows(m)
             top == [comment |-> Comments(m)]
             text == ToRewText(m)
  <1>1. n \in Nat
    BY SavedAssumption
  <1>2. /\ DOMAIN FrameLevels(frame) = 1..n
        /\ \A i \in 1..n : FrameLevels(frame)[i] = <<10 * frame + i>> /\ frame # 0
    <2>1. DOMAIN <<>> = 1..0 /\ \A i \in 1..0 : FALSE
      OBVIOUS
    <2> QED BY <2>1 DEF FrameLevels
  <1>3. /\ m.data.kind = "power_spectrum" /\ m.data.points = FrameLevels(frame)
        /\ m.data.axis = IF frame = 0 THEN 0 ELSE 20
        /\ m.references.spl_offset_db = IF offset = 0 THEN Unset ELSE Given(offset)
    BY DEF LiveMeasurement, Measurement, NoReferences, RefKeys
  <1>4. ~IsGiven(Unset) /\ IsGiven(Given(offset)) /\ Given(offset).value = offset
    BY DEF IsGiven, Unset, Given
  <1>5. Offset(m) = offset
    BY <1>3, <1>4 DEF Offset, ValueOr
  <1>6. Comments(m).calibrated = (offset # 0)
    <2> DEFINE o == m.references.spl_offset_db
    <2>1. IsGiven(o) <=> (offset # 0)
      BY <1>3, <1>4
    <2>2. IsGiven(o) = (offset # 0)
      <3> HIDE DEF o
      <3> QED BY <2>1 DEF IsGiven
    <2>3. Comments(m).calibrated = IsGiven(o)
      BY DEF Comments
    <2> HIDE DEF o
    <2> QED BY <2>2, <2>3, Zenon
  <1> HIDE DEF m, n
  <1>7. rows = [i \in 1..n |-> [row |-> Row(i)]]
    <2> DEFINE Others(i) ==
          CASE m.data.kind = "impulse_response" -> <<(i - 1) - m.data.axis, m.data.points[i][1]>>
            [] m.data.kind = "power_spectrum" -> Row(i)
            [] m.data.kind = "spectrum" ->
                 <<(i - 1) * m.data.axis, LevelOf(m.data.points[i], Offset(m)), m.data.points[i][2]>>
            [] OTHER -> <<(i - 1) * m.data.axis, LevelOf(m.data.points[i], Offset(m)),
                          m.data.points[i][2],
                          IF i \in DOMAIN m.data.coherence THEN m.data.coherence[i] ELSE 0>>
    <2>1. DOMAIN m.data.points = 1..n
      BY <1>2, <1>3
    <2>2. m.data.kind = "power_spectrum"
      BY <1>3
    <2>3. rows = [i \in DOMAIN m.data.points |-> [row |-> Others(i)]]
      BY DEF Rows
    <2>4. \A i : Others(i) = Row(i)
      <3> HIDE DEF Row
      <3> QED BY <2>2
    <2> HIDE DEF Others, Row, rows
    <2> QED BY <2>1, <2>3, <2>4
  <1>8. \A i \in 1..n : Row(i) = row(i)
    BY <1>2, <1>3, <1>5
  <1> HIDE DEF Row, rows
  <1>9. DOMAIN rows = 1..n /\ \A i \in 1..n : rows[i] = [row |-> row(i)]
    BY <1>7, <1>8
  <1>10. rows \in [1..n -> {[row |-> row(i)] : i \in 1..n}]
    BY <1>7, <1>8
  <1>11. text = <<top>> \o rows
    BY Zenon DEF ToRewText, rows
  <1>12. /\ Len(text) = n + 1 /\ text[1] = top
         /\ \A i \in 1..n : text[i + 1] = rows[i]
    <2> HIDE DEF row, top, text
    <2> QED BY <1>1, <1>10, <1>11, OneAndMore
  <1>13. text[1].comment.calibrated = (offset # 0)
    <2>1. top.comment.calibrated = Comments(m).calibrated
      OBVIOUS
    <2> HIDE DEF text, top
    <2> QED BY <1>6, <1>12, <2>1
  <1>14. ASSUME NEW i \in 1..n
         PROVE  SubSeq(text[i + 1].row, 1, 2) = row(i)
    <2> DEFINE x == (i - 1) * 20
               y == 10 * frame + i + offset
    <2>1. x \in Int /\ y \in Int
      BY <1>1
    <2>2. row(i) = <<x, y>>
      OBVIOUS
    <2> HIDE DEF x, y
    <2>3. row(i) \in Seq(Int) /\ Len(row(i)) = 2
      BY <2>1, <2>2, OneOrTwo
    <2> HIDE DEF row, text
    <2>4. SubSeq(row(i), 1, 2) = row(i)
      BY <2>3, SubSeqFull
    <2>5. text[i + 1].row = row(i)
      BY <1>9, <1>12
    <2> QED BY <2>4, <2>5
  <1>15. DOMAIN FrameLevels(frame) = 1..n
    BY <1>2
  <1>16. RewLevels(text) =
           [calibrated |-> offset # 0, rows |-> [i \in 1..n |-> row(i)]]
    <2>1. Len(text) - 1 = n
      BY <1>1, <1>12
    <2> DEFINE part(i) == SubSeq(text[i + 1].row, 1, 2)
    <2>2. RewLevels(text) = [calibrated |-> text[1].comment.calibrated,
                             rows |-> [i \in 1..Len(text) - 1 |-> part(i)]]
      BY Zenon DEF RewLevels
    <2>3. \A i \in 1..n : part(i) = row(i)
      BY <1>14
    <2> HIDE DEF part, row, text
    <2>4. [i \in 1..n |-> part(i)] = [i \in 1..n |-> row(i)]
      BY <2>3
    <2> QED BY <1>13, <2>1, <2>2, <2>4
  <1> QED BY <1>15, <1>16, Zenon DEF SavedLevels, m

(* The inductive invariant of the files.                                    *)
FilesInv ==
  /\ EqInv /\ Room(equalisers) /\ TraceInv /\ SettingsInv
  /\ DOMAIN reported = Paths
  /\ SavedReadsBack

(* A file that reads back as what is reported of it, whole, and is refused  *)
(* when it is a measurement cut short, may be written.                      *)
LEMMA WriteReadsBack ==
  ASSUME FilesInv, NEW path \in Paths, NEW pieces, NEW saved, WriteFile(path, pieces, saved),
         ReadBack(path, pieces) = saved,
         path = "measurement" =>
           /\ saved # NothingSaved
           /\ \A rest \in Interrupted(pieces) : IsRefused(ReadMeasurement(rest))
  PROVE  DOMAIN reported' = Paths /\ SavedReadsBack'
  <1> DEFINE Back(p, d, r) == r # NothingSaved => ReadBack(p, d) = r
             Refused(d, r) == r = NothingSaved => IsRefused(ReadMeasurement(d))
  <1>1. /\ DOMAIN disk = Paths /\ DOMAIN reported = Paths
        /\ \A p \in Paths : Back(p, disk[p], reported[p])
        /\ Refused(disk["measurement"], reported["measurement"])
    BY DEF FilesInv, SettingsInv, SavedReadsBack
  <1>2. SUFFICES /\ DOMAIN reported' = Paths
                 /\ \A p \in Paths : Back(p, disk'[p], reported'[p])
                 /\ Refused(disk'["measurement"], reported'["measurement"])
    BY DEF SavedReadsBack
  <1>3. "measurement" \in Paths
    BY DEF Paths
  <1>4. CASE UNCHANGED <<disk, reported>>
    BY <1>1, <1>4
  <1>5. CASE disk' = [disk EXCEPT ![path] = pieces] /\ reported' = [reported EXCEPT ![path] = saved]
    <2>1. Back(path, pieces, saved) /\ (path = "measurement" => Refused(pieces, saved))
      OBVIOUS
    <2> HIDE DEF Back, Refused
    <2> QED BY <1>1, <1>3, <1>5, <2>1
  <1>6. ASSUME NEW rest \in Interrupted(pieces),
               disk' = [disk EXCEPT ![path] = rest],
               reported' = [reported EXCEPT ![path] = NothingSaved]
        PROVE  /\ DOMAIN reported' = Paths
               /\ \A p \in Paths : Back(p, disk'[p], reported'[p])
               /\ Refused(disk'["measurement"], reported'["measurement"])
    <2>1. Back(path, rest, NothingSaved) /\ (path = "measurement" => Refused(rest, NothingSaved))
      BY <1>6
    <2> HIDE DEF Back, Refused
    <2> QED BY <1>1, <1>3, <1>6, <2>1
  <1> QED BY <1>4, <1>5, <1>6 DEF WriteFile

(* Names are text.                                                          *)
LEMMA NamesAreTexts ==
  ASSUME NEW name \in SavedNames
  PROVE  name \in Texts
  BY SavedAssumption, SeqMonotonic DEF Texts, Characters

(* Every step keeps the files readable.                                     *)
LEMMA FilesSteps ==
  ASSUME FilesInv, [Next]_vars
  PROVE  FilesInv'
  <1>1. EqInv' /\ Room(equalisers)' /\ TraceInv' /\ SettingsInv'
    BY EqSteps, TraceSteps, SettingsSteps DEF FilesInv
  <1>2. SUFFICES DOMAIN reported' = Paths /\ SavedReadsBack'
    BY <1>1 DEF FilesInv
  <1>3. CASE UNCHANGED <<disk, reported>>
    BY <1>3 DEF FilesInv, SavedReadsBack
  <1>4. CASE UNCHANGED vars
    BY <1>3, <1>4 DEF vars, fileVars
  <1>5. CASE EqCall \/ TargetCall \/ DrawCall \/ TraceCall \/ Capture \/ Align \/ Optimise
    BY <1>3, <1>5 DEF EqCall, TargetCall, DrawCall, TraceCall, Capture, Align, Optimise, fileVars
  <1>6. CASE RestartSession \/ Callback \/ Worker \/ LoadSettings
    BY <1>3, <1>6 DEF RestartSession, Callback, Worker, LoadSettings, fileVars
  <1>7. CASE SaveSettings
    <2>1. PICK s \in SettingsOffered : WriteFile("settings", ToText(FromC(s)), Kept(FromC(s)))
      BY <1>7 DEF SaveSettings
    <2>2. FromC(s) \in Settings /\ Usable(FromC(s)) /\ Named(FromC(s))
      BY SettingsAssumption, FromCIs, FromCNamed
    <2>3. FromText(ToText(FromC(s))) = Kept(FromC(s))
      BY <2>2, SettingsReadBack
    <2>4. ReadBack("settings", ToText(FromC(s))) = Kept(FromC(s))
      BY <2>3 DEF ReadBack
    <2> QED BY <2>1, <2>4, WriteReadsBack DEF Paths
  <1>8. CASE SaveMeasurement
    <2>1. PICK name \in SavedNames, offset \in SplOffsets :
            LET m == LiveMeasurement(published, name, offset)
            IN  \/ /\ ~IsEmptyData(m.data)
                   /\ WriteFile("measurement", WriteMeasurement(m), KeptMeasurement(m))
                \/ WriteFile("text", ToRewText(m), SavedLevels(published, offset))
      BY <1>8 DEF SaveMeasurement, SavedLevels
    <2> DEFINE m == LiveMeasurement(published, name, offset)
    <2>2. name \in Texts /\ offset \in Int /\ published \in Nat
      BY SavedAssumption, NamesAreTexts DEF FilesInv, TraceInv, TraceTypes
    <2>3. CASE /\ ~IsEmptyData(m.data)
               /\ WriteFile("measurement", WriteMeasurement(m), KeptMeasurement(m))
      <3>1. published # 0
        <4>1. ASSUME published = 0
              PROVE  m.data.points = <<>>
          BY <4>1 DEF LiveMeasurement, Measurement, FrameLevels
        <4> QED BY <2>3, <4>1 DEF IsEmptyData
      <3>2. /\ ReadMeasurement(WriteMeasurement(m)) = KeptMeasurement(m)
            /\ \A rest \in Interrupted(WriteMeasurement(m)) : IsRefused(ReadMeasurement(rest))
            /\ KeptMeasurement(m) # NothingSaved
        BY <2>2, <3>1, MeasurementComesBack
      <3> HIDE DEF m
      <3>3. ReadBack("measurement", WriteMeasurement(m)) = KeptMeasurement(m)
        BY <3>2 DEF ReadBack
      <3> QED BY <2>3, <3>2, <3>3, WriteReadsBack DEF Paths
    <2>4. CASE WriteFile("text", ToRewText(m), SavedLevels(published, offset))
      <3>1. RewLevels(ToRewText(m)) = SavedLevels(published, offset)
        BY <2>2, LevelsComeBack
      <3> HIDE DEF m
      <3>2. ReadBack("text", ToRewText(m)) = SavedLevels(published, offset)
        BY <3>1 DEF ReadBack
      <3> QED BY <2>4, <3>2, WriteReadsBack DEF Paths
    <2> QED BY <2>1, <2>3, <2>4
  <1>9. CASE ExportFilters
    <2>1. PICK format \in Formats :
            WriteFile("filters", FilterText(format, ActiveEq.bands, ActiveEq.preamp), Shown(ActiveEq))
      BY <1>9 DEF ExportFilters
    <2>2. Designed(ActiveEq)
      BY <1>9, ActiveDesigned DEF ExportFilters, FilesInv
    <2> DEFINE text == FilterText(format, ActiveEq.bands, ActiveEq.preamp)
    <2>3. DeviceRuns(text) = Shown(ActiveEq)
      BY <2>2, ExportRuns
    <2> HIDE DEF text
    <2>4. ReadBack("filters", text) = Shown(ActiveEq)
      BY <2>3, ZenonT(30) DEF ReadBack
    <2> QED BY <2>1, <2>4, WriteReadsBack DEF Paths, text
  <1>10. CASE KilledWhileSaving
    <2>1. /\ reported' = [reported EXCEPT !.settings = NothingSaved]
          /\ \E rest : disk' = [disk EXCEPT !.settings = rest]
      BY <1>10 DEF KilledWhileSaving
    <2>2. /\ DOMAIN reported' = Paths /\ reported'["settings"] = NothingSaved
          /\ \A path \in Paths \ {"settings"} :
               disk'[path] = disk[path] /\ reported'[path] = reported[path]
      BY <2>1 DEF FilesInv, SettingsInv, Paths
    <2>3. "measurement" \in Paths \ {"settings"}
      BY DEF Paths
    <2>4. \A path \in Paths : reported'[path] # NothingSaved =>
            ReadBack(path, disk'[path]) = reported'[path]
      BY <2>2 DEF FilesInv, SavedReadsBack
    <2>5. reported'["measurement"] = NothingSaved => IsRefused(ReadMeasurement(disk'["measurement"]))
      BY <2>2, <2>3 DEF FilesInv, SavedReadsBack
    <2> QED BY <2>2, <2>4, <2>5 DEF SavedReadsBack
  <1> QED BY <1>4, <1>5, <1>6, <1>7, <1>8, <1>9, <1>10 DEF Next

(* What a save reported to have saved reads back as it was saved, whatever  *)
(* other saves were refused or cut short since: the settings, the           *)
(* measurement with its name and its offset, the levels as text, and the    *)
(* filters as the curve that was shown; and a measurement whose writing was *)
(* cut short is refused (status.cpp, settings.cpp, format.cpp, export.cpp,  *)
(* filter_export.cpp).                                                      *)
THEOREM SavedAlwaysReadsBack == Spec => []SavedReadsBack
  <1>1. Init => FilesInv
    <2> SUFFICES ASSUME Init
                 PROVE  FilesInv
      OBVIOUS
    <2>1. EqInv /\ Room(equalisers)
      BY EqInitHolds DEF Init, SessionInit
    <2>2. TraceInv
      BY EmptyIsRight DEF NoTraces, Init, SessionInit, PlotInit, Channel!Init, TracesInit
    <2>3. SettingsInv
      <3>1. <<>> \in Seq(Lines)
        OBVIOUS
      <3> QED BY <3>1, DefaultsUsable DEF Init, SettingsInv, Absent, Paths
    <2>4. DOMAIN reported = Paths /\ \A path \in Paths : reported[path] = NothingSaved
      BY DEF Init
    <2>5. IsRefused(ReadMeasurement(disk["measurement"]))
      <3>1. disk["measurement"] = <<>>
        BY DEF Init, Paths, Absent
      <3>2. \A i \in DOMAIN <<>> : <<>>[i] # Separator
        OBVIOUS
      <3> QED BY <3>1, <3>2, WholeHeaderOnly
    <2>6. SavedReadsBack
      BY <2>4, <2>5 DEF SavedReadsBack
    <2> QED BY <2>1, <2>2, <2>3, <2>4, <2>6 DEF FilesInv
  <1>2. FilesInv /\ [Next]_vars => FilesInv'
    BY FilesSteps
  <1>3. FilesInv => SavedReadsBack
    BY DEF FilesInv
  <1> QED BY <1>1, <1>2, <1>3, PTL DEF Spec
================================================================================
