------------------------------ MODULE MeasurementFile ------------------------------
(***************************************************************************)
(* A measurement in its container and as text (model/format.cpp,           *)
(* measurement.cpp, export.cpp).  A file is a sequence of pieces: a magic  *)
(* line, the lines of the header, the separator and the data, one real at  *)
(* a time.  A file cut anywhere is the whole pieces before the cut: part   *)
(* of a line is a line without its separator, part of a real is none.      *)
(*                                                                         *)
(* Data are a kind, the points, the coherence of each (a transfer function *)
(* only) and the axis: the spacing of the bins, or where time is zero.  A  *)
(* point is the sequence of its reals, and the two of a complex value are  *)
(* its level and its phase, the level NaN for a value of zero.  Free text  *)
(* is a sequence of characters.                                            *)
(***************************************************************************)
EXTENDS TextLines

CONSTANT LargestSize    \* largest std::size_t

Magic == [magic |-> "ANLZ1"]
Separator == [separator |-> "---"]
Datum(x) == [datum |-> x]

ComplexKinds == {"spectrum", "transfer_function"}
RealKinds == {"power_spectrum", "impulse_response"}
Kinds == ComplexKinds \cup RealKinds

RefKeys == {"spl_offset_db", "full_scale_input_volts", "full_scale_output_volts",
            "reference_resistance_ohms", "propagation_delay_seconds"}

AxisKey(kind) == IF kind = "impulse_response" THEN "time_zero_samples" ELSE "bin_spacing_hz"

IsEmptyData(data) == data.points = <<>>

(* kind and bin_spacing_hz: what each kind of data can say of itself.      *)
BinFrequency(data, index) ==
  IF data.kind = "impulse_response" THEN Unset ELSE Given(index * data.axis)

RealsPerPoint(kind) == IF kind \in ComplexKinds THEN 2 ELSE 1

HasPhase(data) == data.kind \in ComplexKinds

NoReferences == [key \in RefKeys |-> Unset]

Measurement(name, rate, data) ==
  [id |-> 0, name |-> name, notes |-> <<>>, captured_at |-> 0, sample_rate |-> rate,
   channels |-> 1, references |-> NoReferences, data |-> data]

-----------------------------------------------------------------------------
(* Free text in a header of lines. *)

Spelled(c) ==
  IF c = "backslash" THEN <<"backslash", "backslash">>
  ELSE IF c = "newline" THEN <<"backslash", "n">>
  ELSE <<c>>

Escape(text) ==
  LET Upto[i \in 0..Len(text)] == IF i = 0 THEN <<>> ELSE Upto[i - 1] \o Spelled(text[i])
  IN  Upto[Len(text)]

(* What a backslash and the character after it stand for.                  *)
Unescaped(c) ==
  IF c = "n" THEN <<"newline">>
  ELSE IF c = "backslash" THEN <<"backslash">>
  ELSE <<"backslash", c>>

(* One character more of a text that is unescaped: a backslash waits for   *)
(* the character after it, if there is one.                                *)
Unescaping(before, text, i) ==
  IF before.waiting THEN [out |-> before.out \o Unescaped(text[i]), waiting |-> FALSE]
  ELSE IF text[i] = "backslash" /\ i < Len(text) THEN [out |-> before.out, waiting |-> TRUE]
  ELSE [out |-> before.out \o <<text[i]>>, waiting |-> FALSE]

Unescape(text) ==
  LET Upto[i \in 0..Len(text)] ==
        IF i = 0 THEN [out |-> <<>>, waiting |-> FALSE]
        ELSE Unescaping(Upto[i - 1], text, i)
  IN  Upto[Len(text)].out

Least(places) == CHOOSE i \in places : \A j \in places : i <= j
Greatest(places) == CHOOSE i \in places : \A j \in places : j <= i

Trim(text) ==
  LET Kept == {i \in DOMAIN text : text[i] # "blank"}
  IN  IF Kept = {} THEN <<>> ELSE SubSeq(text, Least(Kept), Greatest(Kept))

-----------------------------------------------------------------------------
(* write_measurement. *)

Field(key, x) == Line(key, Number(x))
TextField(key, text) == Line(key, [text |-> Escape(text)])

(* write_optional: what is not known is no line.                           *)
References(refs) ==
  LET Optional(key) == IF IsGiven(refs[key]) THEN <<Field(key, refs[key].value)>> ELSE <<>>
  IN  Optional("spl_offset_db") \o Optional("full_scale_input_volts")
      \o Optional("full_scale_output_volts") \o Optional("reference_resistance_ohms")
      \o Optional("propagation_delay_seconds")

Header(m) ==
  << TextField("name", m.name), TextField("notes", m.notes), Field("id", m.id),
     Field("captured_at", m.captured_at), Field("sample_rate", m.sample_rate),
     Field("channels", m.channels), Line("kind", Word(m.data.kind)),
     Field("points", Len(m.data.points)), Field(AxisKey(m.data.kind), m.data.axis) >>
  \o References(m.references)

(* The reals of each point in order, and after them all the coherence.     *)
DataOf(data) ==
  LET size == RealsPerPoint(data.kind)
      paired == size * Len(data.points)
  IN  [i \in 1..paired + Len(data.coherence) |->
         Datum(IF i <= paired THEN data.points[(i - 1) \div size + 1][((i - 1) % size) + 1]
               ELSE data.coherence[i - paired])]

WriteMeasurement(m) == <<Magic>> \o Header(m) \o <<Separator>> \o DataOf(m.data)

-----------------------------------------------------------------------------
(* read_measurement. *)

(* find_separator: the first line that is one.                             *)
SeparatorAt(file) ==
  LET separators == {i \in DOMAIN file : file[i] = Separator}
  IN  IF separators = {} THEN 0 ELSE Least(separators)

(* A line that is not a key and a value is passed over, and of a key that  *)
(* is there again the first line counts.                                   *)
LinesOf(lines, key) == {i \in DOMAIN lines : "key" \in DOMAIN lines[i] /\ lines[i].key = key}
Has(lines, key) == LinesOf(lines, key) # {}
Get(lines, key) == lines[Least(LinesOf(lines, key))].value

HasNumber(lines, key) == Has(lines, key) /\ IsNumber(Get(lines, key))

OptionalNumber(lines, key) ==
  IF HasNumber(lines, key) THEN Given(Get(lines, key).number) ELSE Unset

ValueOr(optional, other) == IF IsGiven(optional) THEN optional.value ELSE other

(* saturating_cast to a type that holds no number below zero.              *)
Count(x) == CASE x = NaN -> 0
              [] x = Inf -> LargestSize
              [] OTHER -> IF x < 0 THEN 0 ELSE IF x > LargestSize THEN LargestSize ELSE x

TextOf(lines, key) ==
  IF Has(lines, key) /\ "text" \in DOMAIN Get(lines, key)
  THEN Unescape(Trim(Get(lines, key).text)) ELSE <<>>

(* bytes_needed, in reals: so many of a size after an offset, or more than *)
(* any file holds.                                                         *)
Needed(count, size, offset) ==
  IF count > (LargestSize - offset) \div size THEN LargestSize ELSE offset + count * size

RealsFor(kind, count) ==
  CASE kind = "spectrum" -> Needed(count, 2, 0)
    [] kind = "transfer_function" -> Needed(count, 1, Needed(count, 2, 0))
    [] OTHER -> Needed(count, 1, 0)

(* Why a file is refused, in the order it is looked at: the data before    *)
(* the axis that goes with them.                                           *)
Refusal(lines, data) ==
  LET Lacks(key) == ~HasNumber(lines, key)
  IN  IF lines = <<>> \/ lines[1] # Magic THEN "BadMagic"
      ELSE IF ~Has(lines, "kind") THEN "MissingField"
      ELSE IF Lacks("points") \/ Lacks("sample_rate") THEN "MissingOrBadField"
      ELSE IF Get(lines, "kind") \notin {Word(kind) : kind \in Kinds} THEN "UnknownKind"
      ELSE IF Len(data) < RealsFor(Get(lines, "kind").word, Count(Get(lines, "points").number))
           THEN "Truncated"
      ELSE IF Lacks(AxisKey(Get(lines, "kind").word)) THEN "MissingOrBadField"
      ELSE "none"

Unpacked(kind, count, reals, axis) ==
  LET size == RealsPerPoint(kind)
  IN  [kind |-> kind, axis |-> axis,
       points |-> [i \in 1..count |-> SubSeq(reals, size * (i - 1) + 1, size * i)],
       coherence |-> IF kind = "transfer_function" THEN SubSeq(reals, 2 * count + 1, 3 * count)
                     ELSE <<>>]

ReadLines(lines, reals) ==
  LET kind == Get(lines, "kind").word
  IN  [id |-> Count(ValueOr(OptionalNumber(lines, "id"), 0)),
       name |-> TextOf(lines, "name"), notes |-> TextOf(lines, "notes"),
       captured_at |-> ValueOr(OptionalNumber(lines, "captured_at"), 0),
       sample_rate |-> Get(lines, "sample_rate").number,
       channels |-> Count(ValueOr(OptionalNumber(lines, "channels"), 1)),
       references |-> [key \in RefKeys |-> OptionalNumber(lines, key)],
       data |-> Unpacked(kind, Count(Get(lines, "points").number), reals,
                         Get(lines, AxisKey(kind)).number)]

ReadMeasurement(file) ==
  IF SeparatorAt(file) = 0 THEN [refused |-> "MissingSeparator"]
  ELSE LET lines == SubSeq(file, 1, SeparatorAt(file) - 1)
           data == SubSeq(file, SeparatorAt(file) + 1, Len(file))
           why == Refusal(lines, data)
       IN  IF why # "none" THEN [refused |-> why]
           ELSE ReadLines(lines, [i \in DOMAIN data |-> data[i].datum])

IsRefused(read) == "refused" \in DOMAIN read

(* What a file keeps of a measurement: text without blanks at its ends.    *)
KeptMeasurement(m) == [m EXCEPT !.name = Trim(@), !.notes = Trim(@)]

-----------------------------------------------------------------------------
(* to_rew_text. *)

Offset(m) == ValueOr(m.references.spl_offset_db, 0)

Comments(m) ==
  [name |-> [i \in DOMAIN m.name |-> IF m.name[i] = "newline" THEN "blank" ELSE m.name[i]],
   delay |-> m.references.propagation_delay_seconds,
   calibrated |-> IsGiven(m.references.spl_offset_db)]

(* A bin of nothing reads the floor, and nothing is added to the floor.    *)
Floor == -200
LevelOf(bin, offset) == IF bin[1] = NaN THEN Floor ELSE bin[1] + offset

(* A row per point: an impulse is at its time from zero, in samples.       *)
Rows(m) ==
  LET data == m.data
      Row(i) ==
        CASE data.kind = "impulse_response" -> <<(i - 1) - data.axis, data.points[i][1]>>
          [] data.kind = "power_spectrum" -> <<(i - 1) * data.axis, data.points[i][1] + Offset(m)>>
          [] data.kind = "spectrum" ->
               <<(i - 1) * data.axis, LevelOf(data.points[i], Offset(m)), data.points[i][2]>>
          [] OTHER -> <<(i - 1) * data.axis, LevelOf(data.points[i], Offset(m)),
                        data.points[i][2],
                        IF i \in DOMAIN data.coherence THEN data.coherence[i] ELSE 0>>
  IN  [i \in DOMAIN data.points |-> [row |-> Row(i)]]

ToRewText(m) == <<[comment |-> Comments(m)]>> \o Rows(m)

(* external: what a reader of such a text is told of the levels.           *)
RewLevels(text) ==
  [calibrated |-> text[1].comment.calibrated,
   rows |-> [i \in 1..Len(text) - 1 |-> SubSeq(text[i + 1].row, 1, 2)]]
====================================================================================
