------------------------------- MODULE FilterExport -------------------------------
(***************************************************************************)
(* The active equaliser in the formats other equalisers import             *)
(* (model/filter_export.cpp), and what such an equaliser then runs.  A     *)
(* parametric format describes each band and leaves the design to the      *)
(* reader; miniDSP takes the designed sections themselves, the feedback    *)
(* coefficients with the opposite sign.                                    *)
(***************************************************************************)
EXTENDS EqualiserControl

Formats == {"Rew", "EqualizerApo", "MiniDsp"}

(* parametric_token: the forms specified by Q.                             *)
Token(kind) ==
  CASE kind = "Peaking" -> "PK"   [] kind = "LowShelf" -> "LSC" [] kind = "HighShelf" -> "HSC"
    [] kind = "LowPass" -> "LPQ"  [] kind = "HighPass" -> "HPQ" [] kind = "BandPass" -> "BP"
    [] kind = "Notch" -> "NO"     [] OTHER -> "AP"

(* A band that is off is a slot without its settings; a gain is written    *)
(* for the shapes that use one.                                            *)
FilterLine(number, b) ==
  IF ~b.enabled THEN [filter |-> number, on |-> FALSE]
  ELSE IF UsesGain(b.kind)
  THEN [filter |-> number, on |-> TRUE, token |-> Token(b.kind), hz |-> b.hz, gain |-> b.gain]
  ELSE [filter |-> number, on |-> TRUE, token |-> Token(b.kind), hz |-> b.hz]

FilterLines(bands) == [i \in DOMAIN bands |-> FilterLine(i, bands[i])]

ToRew(bands, preamp) == <<[recommended |-> preamp]>> \o FilterLines(bands)

ToEqualizerApo(bands, preamp) == <<[preamp |-> preamp]>> \o FilterLines(bands)

(* write_biquad: a section scaled by a gain, its feedback negated.         *)
Biquad(number, section, gain) ==
  [biquad |-> number, section |-> section, scale |-> gain, feedback |-> -1]

(* to_minidsp: the gain goes into the first section, or into a section of  *)
(* its own where there is none.                                            *)
ToMiniDsp(bands, preamp) ==
  IF bands = <<>> THEN <<Biquad(1, Identity, preamp)>>
  ELSE [i \in DOMAIN bands |-> Biquad(i, Design(bands[i]), IF i = 1 THEN preamp ELSE 0)]

FilterText(format, bands, preamp) ==
  CASE format = "Rew" -> ToRew(bands, preamp)
    [] format = "EqualizerApo" -> ToEqualizerApo(bands, preamp)
    [] OTHER -> ToMiniDsp(bands, preamp)

-----------------------------------------------------------------------------
(* external: the devices that import them. *)

KindOf(token) == CHOOSE kind \in FilterKinds : Token(kind) = token

(* A parametric device designs the band it was told of.                    *)
DesignOfLine(line) ==
  IF ~line.on THEN Identity
  ELSE Design([kind |-> KindOf(line.token), hz |-> line.hz, enabled |-> TRUE,
               gain |-> IF "gain" \in DOMAIN line THEN line.gain ELSE 0])

(* A section fed back with the wrong sign is no filter of ours.            *)
Unstable == [kind |-> "Unstable"]
SectionOf(line) == IF line.feedback = -1 THEN line.section ELSE Unstable

(* The sections that change anything, each at its place.                   *)
Audible(sections) ==
  [i \in {i \in DOMAIN sections : sections[i] # Identity} |-> sections[i]]

(* What a device runs that changes anything, and the gain it applies, or   *)
(* that its user is told to.                                               *)
DeviceRuns(text) ==
  IF "biquad" \in DOMAIN text[1]
  THEN [sections |-> Audible([i \in DOMAIN text |-> SectionOf(text[i])]),
        trim |-> SumOf([i \in DOMAIN text |-> text[i].scale])]
  ELSE [sections |-> Audible([i \in 1..Len(text) - 1 |-> DesignOfLine(text[i + 1])]),
        trim |-> IF "preamp" \in DOMAIN text[1] THEN text[1].preamp ELSE text[1].recommended]

(* What the session shows of an equaliser.                                 *)
Shown(eq) == [sections |-> Audible(eq.sections), trim |-> eq.preamp]
====================================================================================
