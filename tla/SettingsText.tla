------------------------------ MODULE SettingsText ------------------------------
(***************************************************************************)
(* The preferences, as text and back (model/settings.cpp, and the          *)
(* conversions at the C boundary in ffi/convert.cpp).  A path is a name    *)
(* that may have white space around it or hold a newline.                  *)
(***************************************************************************)
EXTENDS TextLines

CONSTANTS
  Exact,       \* whole numbers below it are floats: 2^24
  FloatSteps   \* how far apart the whole floats beyond it are: 1, 2, 4, ...

FftSizes == {1024, 2048, 4096, 8192, 16384, 32768, 65536, 131072}
Windows == {"rectangular", "hann", "blackman_harris", "flat_top"}
Averagings == {"none", "fast", "infinite", "peak_hold"}

Defaults == [fft_size |-> 4096, window |-> "hann", averaging |-> "fast",
             start_on_launch |-> TRUE, min_hz |-> 20, max_hz |-> 20000,
             min_db |-> -120, max_db |-> 0, level_grid_step |-> 20,
             spl_offset_db |-> Unset, mic_cal_path |-> Unset]

DefaultRange == Defaults.max_db - Defaults.min_db

ASSUME PrecisionAssumption ==
  /\ Exact \in Nat /\ Exact > Defaults.max_hz
  /\ FloatSteps \subseteq Nat \ {0} /\ 1 \in FloatSteps
  /\ \A u \in FloatSteps : u = 1 \/ \E half \in FloatSteps : u = 2 * half

PathNames == [name : STRING, blank : BOOLEAN, newline : BOOLEAN]

(* What a host may hand over, and what a line may say.                     *)
CSettings ==
  [fft_size : Nat, window : Windows \cup {"tukey"}, averaging : Averagings,
   start_on_launch : BOOLEAN, min_hz : Floats, max_hz : Floats, min_db : Floats,
   max_db : Floats, level_grid_step : Floats, spl_offset_db : Maybe(Floats),
   mic_cal_path : Maybe(PathNames)]

LineValues == [number : Floats] \cup [word : STRING] \cup [path : PathNames]

EmptyPath(p) == p.name = "" /\ ~p.blank /\ ~p.newline

Greater(a, b) == IF a >= b THEN a ELSE b
Magnitude(x) == IF x < 0 THEN -x ELSE x

(* What a whole number becomes as a float: the nearest of those as far     *)
(* apart as they are at its size, or no finite one.                        *)
FloatOf(x) ==
  LET wide == {u \in FloatSteps : Magnitude(x) < Exact * u}
      u == Min(wide)
  IN  IF wide = {} THEN Inf ELSE ((x + u \div 2) \div u) * u

(* Mutant: each bound is checked on its own. *)
ValidatedApart(s) ==
  [s EXCEPT
     !.fft_size = IF @ \in FftSizes THEN @ ELSE Defaults.fft_size,
     !.min_hz = IF ~IsFinite(@) \/ @ <= 0 THEN Defaults.min_hz ELSE @,
     !.max_hz = IF ~IsFinite(@) \/ @ <= 0 THEN Defaults.max_hz ELSE @]

(* std::max with the default, of a float that may be infinite.             *)
AtLeastDefault(hz) == IF IsFinite(hz) THEN Greater(hz, Defaults.max_hz) ELSE hz

(* Settings::validated, in its order: a bound is checked against the one   *)
(* already repaired, and a repair is a float, which may be infinite or not *)
(* above the other bound.                                                  *)
Validated(s) ==
  LET minHz == IF ~IsFinite(s.min_hz) \/ s.min_hz <= 0 THEN Defaults.min_hz ELSE s.min_hz
      maxHz == IF ~IsFinite(s.max_hz) \/ s.max_hz <= minHz
               THEN AtLeastDefault(FloatOf(2 * minHz)) ELSE s.max_hz
      minDb == IF IsFinite(s.min_db) THEN s.min_db ELSE Defaults.min_db
      maxDb == IF ~IsFinite(s.max_db) \/ s.max_db <= minDb
               THEN FloatOf(minDb + DefaultRange) ELSE s.max_db
  IN  [s EXCEPT
         !.fft_size = IF @ \in FftSizes THEN @ ELSE Defaults.fft_size,
         !.min_hz = minHz, !.max_hz = maxHz, !.min_db = minDb, !.max_db = maxDb,
         !.level_grid_step = IF ~IsFinite(@) \/ @ <= 0 THEN Defaults.level_grid_step ELSE @,
         !.spl_offset_db = IF IsGiven(@) /\ ~IsFinite(@.value) THEN Unset ELSE @,
         !.mic_cal_path = IF IsGiven(@) /\ EmptyPath(@.value) THEN Unset ELSE @]

(* to_settings: a Tukey window is a shape preferences have no word for, an *)
(* empty path is no path.                                                  *)
FromC(c) ==
  Validated([c EXCEPT !.window = IF @ = "tukey" THEN "hann" ELSE @,
                      !.mic_cal_path = IF IsGiven(@) /\ EmptyPath(@.value)
                                       THEN Unset ELSE @])

(* Settings::to_text: an absent optional is no line, and neither is a path *)
(* with a newline in it.                                                   *)
ToText(s) ==
  << Line("fft_size", Number(s.fft_size)), Line("window", Word(s.window)),
     Line("averaging", Word(s.averaging)),
     Line("start_on_launch", Truth(s.start_on_launch)),
     Line("min_hz", Number(s.min_hz)), Line("max_hz", Number(s.max_hz)),
     Line("min_db", Number(s.min_db)), Line("max_db", Number(s.max_db)),
     Line("level_grid_step", Number(s.level_grid_step)) >>
  \o (IF IsGiven(s.spl_offset_db)
      THEN <<Line("spl_offset_db", Number(s.spl_offset_db.value))>> ELSE <<>>)
  \o (IF IsGiven(s.mic_cal_path) /\ ~s.mic_cal_path.value.newline
      THEN <<Line("mic_cal_path", [path |-> s.mic_cal_path.value])>> ELSE <<>>)

(* What of the settings a file keeps: a path with a newline is not written, *)
(* and white space around one is not read.                                  *)
Kept(s) ==
  [s EXCEPT !.mic_cal_path =
     IF ~IsGiven(@) THEN @
     ELSE IF @.value.newline \/ @.value.name = "" THEN Unset
     ELSE Given([@.value EXCEPT !.blank = FALSE])]

(* Whether a value parses as what its key holds, and what it then sets it  *)
(* to.                                                                     *)
Parses(key, value) ==
  CASE key = "fft_size" -> IsNumber(value) /\ IsFinite(value.number) /\ value.number >= 0
    [] key = "window" -> IsWord(value) /\ value.word \in Windows
    [] key = "averaging" -> IsWord(value) /\ value.word \in Averagings
    [] key = "start_on_launch" -> IsWord(value) /\ value.word \in {"true", "false"}
    [] key = "mic_cal_path" -> IsPath(value) /\ value.path.name # ""
    [] OTHER -> IsNumber(value)

Meaning(key, value) ==
  CASE key \in {"window", "averaging"} -> value.word
    [] key = "start_on_launch" -> value.word = "true"
    [] key = "spl_offset_db" -> Given(value.number)
    [] key = "mic_cal_path" -> Given([value.path EXCEPT !.blank = FALSE])
    [] OTHER -> value.number

(* Settings::from_text: a key nobody knows is ignored, a value that does   *)
(* not parse leaves its field as it is, a later line wins.                 *)
FromText(lines) ==
  LET Says(key) == {i \in DOMAIN lines : lines[i].key = key /\ Parses(key, lines[i].value)}
      Winner(key) == CHOOSE i \in Says(key) : \A j \in Says(key) : j <= i
  IN  Validated([key \in DOMAIN Defaults |->
                   IF Says(key) = {} THEN Defaults[key]
                   ELSE Meaning(key, lines[Winner(key)].value)])
================================================================================
