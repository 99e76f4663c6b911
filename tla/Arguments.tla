-------------------------------- MODULE Arguments --------------------------------
(***************************************************************************)
(* The command line of analyzer-cli (cli/args.cpp): the walk over its      *)
(* tokens and the checks after it.  A token is a string; Numbers says      *)
(* which tokens the shared parsers read, and as what: in so many Parts of  *)
(* one, so that the counts can refuse what is not whole.                   *)
(***************************************************************************)
EXTENDS WavFile, FiniteSets, TLC

CONSTANT Numbers  \* [token -> Parts]: what text::parse_f64 and its kin accept

ASSUME NumbersAssumption == \A token \in DOMAIN Numbers : Numbers[token] \in Int

\* The flags that take values, with the setting each value becomes.
ValueFlags ==
  "--gate" :> <<"gate_ms">>   @@ "--measure" :> <<"stimulus", "response">> @@
  "--generate" :> <<"generate">> @@ "--compare" :> <<"subject", "reference">> @@
  "--depth" :> <<"depth">>    @@ "--hz" :> <<"hz">>           @@ "--hz-end" :> <<"hz_end">> @@
  "--from-hz" :> <<"from_hz">> @@ "--to-hz" :> <<"to_hz">>    @@
  "--tolerance" :> <<"tolerance">> @@ "--device" :> <<"device">> @@
  "--sine" :> <<"sine">>      @@ "--fft" :> <<"fft">>         @@ "--channel" :> <<"channel">> @@
  "--block" :> <<"block">>    @@ "--rate" :> <<"rate">>       @@ "--seconds" :> <<"seconds">> @@
  "--amplitude" :> <<"amplitude">> @@ "--min-db" :> <<"min_db">> @@ "--out" :> <<"out">> @@
  "--window" :> <<"window">>  @@ "--overlap" :> <<"overlap">> @@ "--average" :> <<"average">>

\* The flags that stand alone, with what each sets.
Switches ==
  [flag \in {"--peak", "--no-meter", "--list-devices", "--measure-demo"} |->
     CASE flag = "--peak" -> <<"peak_only", TRUE>>    [] flag = "--no-meter" -> <<"meter", FALSE>>
       [] flag = "--list-devices" -> <<"list", TRUE>> [] OTHER -> <<"demo", TRUE>>]

\* The flags whose value may be left out, and what it is then.
OptionalSeconds ==
  [flag \in {"--bench", "--live"} |-> 
     IF flag = "--bench" THEN <<"bench", 2 * Parts>> ELSE <<"live", 5 * Parts>>]

\* Settings whose value is one of a few, and the words for each: parse_window,
\* parse_overlap, parse_averaging and depth_from_key.
Keywords ==
  [window |-> [rectangular |-> {"rect", "rectangular"}, hann |-> {"hann"},
               blackman_harris |-> {"bh", "blackman-harris"}, flat_top |-> {"flattop", "flat-top"},
               tukey |-> {"tukey"}],
   overlap |-> [None |-> {"0"}, Half |-> {"50"}, ThreeQuarters |-> {"75"}, SevenEighths |-> {"87", "87.5"}],
   average |-> [none |-> {"none"}, infinite |-> {"infinite", "inf"}, peak_hold |-> {"peak"}],
   depth |-> [Int16 |-> {"i16", "16"}, Int24 |-> {"i24", "24"}, Float32 |-> {"f32", "float", "32"}]]

MeantBy(setting, token) ==
  {choice \in DOMAIN Keywords[setting] : token \in Keywords[setting][choice]}

\* Settings that are numbers; the counts refuse one that is negative or not whole.
Counts == {"fft", "channel", "block"}
Reals == {"gate_ms", "hz", "hz_end", "from_hz", "to_hz", "tolerance", "sine", "rate",
          "seconds", "amplitude", "min_db"}

Reads(setting, token) ==
  /\ setting \in Counts \union Reals => token \in DOMAIN Numbers
  /\ setting \in Counts => Numbers[token] >= 0 /\ Numbers[token] % Parts = 0
  /\ setting \in DOMAIN Keywords => MeantBy(setting, token) # {}

Meaning(setting, token) ==
  IF setting = "amplitude" THEN Numbers[token] * (FullScale \div Parts)
  ELSE IF setting \in Counts THEN Numbers[token] \div Parts
  ELSE IF setting \in Reals THEN Numbers[token]
  ELSE IF setting \in DOMAIN Keywords THEN CHOOSE choice \in MeantBy(setting, token) : TRUE
  ELSE token

-----------------------------------------------------------------------------
(* The walk: Cursor and the loop of parse_args.  `waiting` are             *)
(* the settings whose values come next, `may` the one a number would set.  *)

Fresh == [status |-> "reading", waiting |-> <<>>, may |-> "nothing", given |-> <<>>]

With(f, at, value) == [x \in DOMAIN f \union {at} |-> IF x = at THEN value ELSE f[x]]

Put(reader, setting, value) == [reader EXCEPT !.given = With(@, setting, value)]
Stopped(reader, status) == [reader EXCEPT !.status = status]

Flag(reader, token) ==
  CASE token \in {"-h", "--help"} -> Stopped(reader, "help")
    [] token \in DOMAIN Switches -> Put(reader, Switches[token][1], Switches[token][2])
    [] token \in DOMAIN OptionalSeconds ->
         [Put(reader, OptionalSeconds[token][1], OptionalSeconds[token][2])
            EXCEPT !.may = OptionalSeconds[token][1]]
    [] token \in DOMAIN ValueFlags -> [reader EXCEPT !.waiting = ValueFlags[token]]
    [] OTHER -> IF SubSeq(token, 1, 1) = "-" \/ "path" \in DOMAIN reader.given
                  THEN Stopped(reader, "refused")
                  ELSE Put(reader, "path", token)

Fill(reader, token) ==
  LET setting == Head(reader.waiting)
  IN  IF Reads(setting, token)
        THEN [Put(reader, setting, Meaning(setting, token)) EXCEPT !.waiting = Tail(@)]
        ELSE Stopped(reader, "refused")

Token(reader, token) ==
  CASE reader.status # "reading" -> reader
    [] reader.waiting # <<>> -> Fill(reader, token)
    [] reader.may # "nothing" /\ token \in DOMAIN Numbers ->
         [Put(reader, reader.may, Numbers[token]) EXCEPT !.may = "nothing"]
    [] OTHER -> Flag([reader EXCEPT !.may = "nothing"], token)

Walk(argv) ==
  LET read[n \in 0 .. Len(argv)] == IF n = 0 THEN Fresh ELSE Token(read[n - 1], argv[n])
  IN  read[Len(argv)]

-----------------------------------------------------------------------------
(* The checks after the walk. *)

Defaults ==
  [fft |-> 4096, window |-> "hann", overlap |-> "ThreeQuarters", average |-> "infinite", channel |-> 0,
   block |-> 128, peak_only |-> FALSE, meter |-> TRUE, gate_ms |-> 5 * Parts, from_hz |-> 20 * Parts,
   to_hz |-> 20000 * Parts, rate |-> 48000 * Parts, seconds |-> Parts,
   amplitude |-> FullScale \div 2, depth |-> "Float32"]

\* The setting that tells each mode was asked for.
ModeSettings ==
  [path |-> "wav", sine |-> "sine", live |-> "live", list |-> "list", bench |-> "bench",
   demo |-> "demo", response |-> "measure", generate |-> "generate", reference |-> "compare"]

Chosen(given) == {setting \in DOMAIN ModeSettings : setting \in DOMAIN given}

BandIsEmpty(args) == args.from_hz <= 0 \/ args.to_hz <= args.from_hz

\* The signal of --generate, its level clamped; --hz means the start of a sweep.
SignalKinds == {"sine", "pink", "white", "sweep"}
SignalOf(args) ==
  [kind |-> args.generate,
   level |-> IF args.amplitude < 0 THEN 0
             ELSE IF args.amplitude > FullScale THEN FullScale ELSE args.amplitude]

Refused(mode, args) ==
  \/ args.fft < 2 \/ args.fft % 2 # 0 \/ args.block = 0
  \/ mode = "compare" /\ BandIsEmpty(args)
  \/ mode = "generate" /\ (\/ "out" \notin DOMAIN args
                          \/ args.rate <= 0 \/ args.seconds <= 0
                          \/ args.generate \notin SignalKinds)
  \/ mode = "bench" /\ args.bench <= 0
  \/ mode = "live" /\ args.live <= 0
  \/ mode = "sine" /\ args.rate <= 0

\* parse_args: "help" for the usage, "refused" for a CliError, or what to run.
ParseArgs(argv) ==
  LET read == Walk(argv)
      args == [setting \in DOMAIN read.given \union DOMAIN Defaults |->
                 IF setting \in DOMAIN read.given THEN read.given[setting] ELSE Defaults[setting]]
      mode == ModeSettings[CHOOSE setting \in Chosen(read.given) : TRUE]
  IN  CASE read.status = "help" -> [status |-> "help"]
        [] \/ read.status = "refused" \/ read.waiting # <<>>
           \/ Cardinality(Chosen(read.given)) # 1
           \/ Refused(mode, args) -> [status |-> "refused"]
        [] OTHER -> [status |-> "run", mode |-> mode, args |-> args]

==================================================================================
