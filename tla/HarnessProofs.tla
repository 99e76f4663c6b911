---------------------------- MODULE HarnessProofs ----------------------------
(***************************************************************************)
(* Proofs about analyzer-cli, for any files, any command lines, any number *)
(* of runs over them and any captures.                                     *)
(***************************************************************************)
EXTENDS Harness, Arithmetic, SequenceTheorems, TLAPS

------------------------------------------------------------------------------
(* The command line.                                                        *)

(* Every setting that was given has a value the checks after the walk and  *)
(* the modes can use.                                                       *)
Usable(given) ==
  \A setting \in DOMAIN given :
    /\ setting \in Counts => given[setting] \in Nat
    /\ setting \in Reals => given[setting] \in Int
    /\ setting = "depth" => given[setting] \in DOMAIN BytesPerSample

(* What the walk has at any of the tokens.                                  *)
Reading(reader) ==
  /\ {"status", "waiting", "may", "given"} \subseteq DOMAIN reader
  /\ reader.may \in {"nothing", "bench", "live"}
  /\ Usable(reader.given)

(* A usable value added to usable ones.                                     *)
LEMMA PutIsUsable ==
  ASSUME NEW given, Usable(given), NEW setting, NEW value,
         setting \in Counts => value \in Nat,
         setting \in Reals => value \in Int,
         setting = "depth" => value \in DOMAIN BytesPerSample
  PROVE  Usable(With(given, setting, value))
  <1> DEFINE more == With(given, setting, value)
  <1>1. DOMAIN more = {setting} \union DOMAIN given
    BY DEF With
  <1>2. \A s \in DOMAIN more : more[s] = IF s = setting THEN value ELSE given[s]
    BY DEF With
  <1> HIDE DEF more
  <1>3. Usable(more)
    BY <1>1, <1>2 DEF Usable
  <1> QED BY <1>3 DEF more

(* What was given before a setting is still there after it.                 *)
LEMMA PutKeeps ==
  ASSUME NEW reader, Reading(reader), NEW setting, NEW value,
         setting \in Counts => value \in Nat,
         setting \in Reals => value \in Int,
         setting = "depth" => value \in DOMAIN BytesPerSample
  PROVE  Reading(Put(reader, setting, value))
  <1>1. Usable(With(reader.given, setting, value))
    BY PutIsUsable DEF Reading
  <1> QED BY <1>1 DEF Reading, Put

(* A token that reads means something usable.                               *)
LEMMA MeaningIsUsable ==
  ASSUME NEW setting, NEW token, Reads(setting, token)
  PROVE  /\ setting \in Counts => Meaning(setting, token) \in Nat
         /\ setting \in Reals => Meaning(setting, token) \in Int
         /\ setting = "depth" => Meaning(setting, token) \in DOMAIN BytesPerSample
  <1>1. ASSUME setting \in Counts
        PROVE  Meaning(setting, token) \in Nat
    <2>1. token \in DOMAIN Numbers /\ Numbers[token] \in Nat
      BY <1>1, NumbersAssumption DEF Reads
    <2>2. Numbers[token] \div Parts \in Nat
      BY <2>1, WavAssumption, DivMod
    <2>3. Meaning(setting, token) = Numbers[token] \div Parts
      BY <1>1 DEF Meaning, Counts
    <2> QED BY <2>2, <2>3
  <1>2. ASSUME setting \in Reals
        PROVE  Meaning(setting, token) \in Int
    <2>1. token \in DOMAIN Numbers
      BY <1>2 DEF Reads, Counts, Reals
    <2>2. Numbers[token] \in Int /\ FullScale \div Parts \in Int
      BY <2>1, NumbersAssumption, WavAssumption, DivMod
    <2>3. setting \notin Counts
      BY <1>2 DEF Counts, Reals
    <2>4. Meaning(setting, token) \in {Numbers[token] * (FullScale \div Parts), Numbers[token]}
      BY <1>2, <2>3 DEF Meaning
    <2>5. \A a, b \in Int : a * b \in Int
      BY Z3
    <2> QED BY <2>2, <2>4, <2>5
  <1>3. ASSUME setting = "depth"
        PROVE  Meaning(setting, token) \in DOMAIN BytesPerSample
    <2>1. "depth" \in DOMAIN Keywords /\ "depth" \notin Counts
          /\ "depth" \notin Reals /\ "depth" # "amplitude"
      BY DEF Keywords, Counts, Reals
    <2>2. MeantBy("depth", token) # {}
      BY <1>3, <2>1 DEF Reads
    <2>3. Meaning(setting, token) = CHOOSE choice \in MeantBy("depth", token) : TRUE
      BY <1>3, <2>1 DEF Meaning
    <2>4. Meaning(setting, token) \in MeantBy("depth", token)
      BY <2>2, <2>3
    <2>5. DOMAIN Keywords["depth"] = DOMAIN BytesPerSample
      BY DEF Keywords, BytesPerSample
    <2> QED BY <2>4, <2>5 DEF MeantBy
  <1> QED BY <1>1, <1>2, <1>3

(* The settings of the flags that take no value are none of the numbers.    *)
LEMMA SwitchesAre ==
  /\ \A token \in DOMAIN Switches :
       Switches[token][1] \in {"peak_only", "meter", "list", "demo"}
  /\ \A token \in DOMAIN OptionalSeconds :
       OptionalSeconds[token][1] \in {"bench", "live"}
  BY DEF Switches, OptionalSeconds

(* Every token read leaves the walk with usable values only.                *)
LEMMA TokenKeeps ==
  ASSUME NEW reader, Reading(reader), NEW token
  PROVE  Reading(Token(reader, token))
  <1> DEFINE quiet == [reader EXCEPT !.may = "nothing"]
  <1>0. \A setting \in {"peak_only", "meter", "list", "demo", "bench", "live", "nothing", "path"} :
          setting \notin Counts /\ setting \notin Reals /\ setting # "depth"
    BY DEF Counts, Reals
  <1>1. Reading(quiet)
    BY DEF Reading
  <1>2. Reading(Stopped(reader, "refused")) /\ Reading(Stopped(quiet, "refused"))
        /\ Reading(Stopped(quiet, "help"))
    BY <1>1 DEF Reading, Stopped
  <1>3. ASSUME reader.waiting # <<>>
        PROVE  Reading(Fill(reader, token))
    <2> DEFINE setting == Head(reader.waiting)
    <2>1. CASE Reads(setting, token)
      <3>1. Reading(Put(reader, setting, Meaning(setting, token)))
        BY <2>1, MeaningIsUsable, PutKeeps
      <3> QED BY <2>1, <3>1 DEF Fill, Reading
    <2>2. CASE ~Reads(setting, token)
      BY <2>2, <1>2 DEF Fill
    <2> QED BY <2>1, <2>2
  <1>4. ASSUME reader.may # "nothing", token \in DOMAIN Numbers
        PROVE  Reading([Put(reader, reader.may, Numbers[token]) EXCEPT !.may = "nothing"])
    <2>1. reader.may \in {"bench", "live"}
      BY <1>4 DEF Reading
    <2>2. Reading(Put(reader, reader.may, Numbers[token]))
      BY <2>1, <1>0, PutKeeps
    <2> QED BY <2>2 DEF Reading
  <1>5. Reading(Flag(quiet, token))
    <2> HIDE DEF quiet
    <2>1. ASSUME token \in DOMAIN Switches
          PROVE  Reading(Put(quiet, Switches[token][1], Switches[token][2]))
      BY <2>1, <1>0, <1>1, SwitchesAre, PutKeeps
    <2>2. ASSUME token \in DOMAIN OptionalSeconds
          PROVE  Reading([Put(quiet, OptionalSeconds[token][1], OptionalSeconds[token][2])
                            EXCEPT !.may = OptionalSeconds[token][1]])
      <3>1. Reading(Put(quiet, OptionalSeconds[token][1], OptionalSeconds[token][2]))
        BY <2>2, <1>0, <1>1, SwitchesAre, PutKeeps
      <3>2. OptionalSeconds[token][1] \in {"bench", "live"}
        BY <2>2, SwitchesAre
      <3> QED BY <3>1, <3>2 DEF Reading
    <2>3. Reading([quiet EXCEPT !.waiting = ValueFlags[token]])
      BY <1>1 DEF Reading
    <2>4. Reading(Put(quiet, "path", token))
      BY <1>0, <1>1, PutKeeps
    <2> QED BY <2>1, <2>2, <2>3, <2>4, <1>2, ZenonT(30) DEF Flag
  <1> QED BY <1>3, <1>4, <1>5, ZenonT(30) DEF Token

(* The walk as far as its n-th token: what each is read with what came      *)
(* before it.                                                               *)
Walks(read, argv, n) ==
  read = [m \in 0..n |-> IF m = 0 THEN Fresh ELSE Token(read[m - 1], argv[m])]

(* There is such a walk, however long the command line.                     *)
LEMMA WalkExists ==
  ASSUME NEW argv \in Seq(STRING), NEW n \in Nat
  PROVE  \E read : Walks(read, argv, n)
  <1> DEFINE Stuck == {k \in Nat : ~\E read : Walks(read, argv, k)}
  <1>1. SUFFICES ASSUME Stuck # {}
                 PROVE  FALSE
    OBVIOUS
  <1>2. PICK k \in Stuck : \A j \in Stuck : k <= j
    <2>1. Stuck \in SUBSET Nat
      OBVIOUS
    <2> HIDE DEF Stuck
    <2> QED BY <1>1, <2>1, LeastIs
  <1>3. CASE k = 0
    <2> DEFINE first == [m \in 0..0 |-> Fresh]
    <2>1. first = [m \in 0..0 |-> IF m = 0 THEN Fresh ELSE Token(first[m - 1], argv[m])]
      OBVIOUS
    <2> HIDE DEF first
    <2> QED BY <1>2, <1>3, <2>1 DEF Walks
  <1>4. CASE k # 0
    <2>1. k \in Nat /\ k - 1 \in Nat /\ k - 1 \notin Stuck
      BY <1>2, <1>4
    <2>2. PICK before : Walks(before, argv, k - 1)
      BY <2>1
    <2> DEFINE read == [m \in 0..k |-> IF m = k THEN Token(before[k - 1], argv[k])
                                                ELSE before[m]]
    <2>3. ASSUME NEW m \in 0..k
          PROVE  read[m] = IF m = 0 THEN Fresh ELSE Token(read[m - 1], argv[m])
      <3>1. CASE m = k
        BY <1>4, <2>1, <3>1
      <3>2. CASE m # k
        <4>1. m \in 0..(k - 1) /\ read[m] = before[m]
          BY <2>1, <3>2
        <4>2. before[m] = IF m = 0 THEN Fresh ELSE Token(before[m - 1], argv[m])
          BY <2>2, <4>1 DEF Walks
        <4>3. m # 0 => m - 1 \in 0..k /\ m - 1 # k /\ read[m - 1] = before[m - 1]
          BY <2>1, <4>1
        <4> QED BY <4>1, <4>2, <4>3
      <3> QED BY <3>1, <3>2
    <2>4. read = [m \in 0..k |-> read[m]]
      OBVIOUS
    <2> HIDE DEF read
    <2>5. Walks(read, argv, k)
      BY <2>3, <2>4 DEF Walks
    <2> QED BY <1>2, <2>5
  <1> QED BY <1>3, <1>4

(* Every walk gives settings values that can be used.                       *)
LEMMA WalkIsUsable ==
  ASSUME NEW argv \in Seq(STRING)
  PROVE  Reading(Walk(argv))
  <1>1. PICK read : Walks(read, argv, Len(argv)) /\ Walk(argv) = read[Len(argv)]
    <2>1. Len(argv) \in Nat
      OBVIOUS
    <2>2. \E read : read = [n \in 0 .. Len(argv) |->
                              IF n = 0 THEN Fresh ELSE Token(read[n - 1], argv[n])]
      BY <2>1, WalkExists DEF Walks
    <2> QED BY <2>2, Zenon DEF Walk, Walks
  <1> DEFINE Bad == {n \in 0..Len(argv) : ~Reading(read[n])}
  <1>2. SUFFICES ASSUME Bad # {}
                 PROVE  FALSE
    BY <1>1
  <1>3. PICK k \in Bad : \A j \in Bad : k <= j
    <2>1. Bad \in SUBSET Nat
      OBVIOUS
    <2> HIDE DEF Bad
    <2> QED BY <1>2, <2>1, LeastIs
  <1>4. CASE k = 0
    <2>1. read[0] = Fresh
      BY <1>1 DEF Walks
    <2>2. Reading(Fresh)
      BY DEF Fresh, Reading, Usable
    <2> QED BY <1>3, <1>4, <2>1, <2>2
  <1>5. CASE k # 0
    <2>1. k \in 0..Len(argv) /\ k - 1 \in 0..Len(argv) /\ k - 1 \notin Bad
      BY <1>3, <1>5
    <2>2. read[k] = Token(read[k - 1], argv[k])
      BY <1>1, <1>5, <2>1 DEF Walks
    <2>3. Reading(read[k - 1])
      BY <2>1
    <2> QED BY <1>3, <2>2, <2>3, TokenKeeps
  <1> QED BY <1>4, <1>5

(* What every run that is not refused can count on (cli/args.cpp).          *)
Runnable(wanted) ==
  wanted.status = "run" =>
    /\ wanted.args.channel \in Nat /\ wanted.args.block \in Nat \ {0}
    /\ wanted.args.rate \in Int /\ wanted.args.seconds \in Int
    /\ wanted.args.amplitude \in Int /\ wanted.args.depth \in DOMAIN BytesPerSample
    /\ "tolerance" \in DOMAIN wanted.args => wanted.args.tolerance \in Int
    /\ wanted.mode = "generate" =>
         /\ wanted.args.rate > 0 /\ wanted.args.seconds > 0
         /\ wanted.args.generate \in SignalKinds

(* What parse_args returns can be run, whatever the words were.             *)
LEMMA ParsedIsRunnable ==
  ASSUME NEW argv \in Seq(STRING)
  PROVE  Runnable(ParseArgs(argv))
  <1> DEFINE given == Walk(argv).given
             args == [setting \in DOMAIN given \union DOMAIN Defaults |->
                        IF setting \in DOMAIN given THEN given[setting] ELSE Defaults[setting]]
             mode == ModeSettings[CHOOSE setting \in Chosen(given) : TRUE]
  <1>1. Usable(given)
    BY WalkIsUsable DEF Reading
  <1>2. /\ {"channel", "block", "rate", "seconds", "amplitude", "depth"} \subseteq DOMAIN Defaults
        /\ Defaults.channel \in Nat /\ Defaults.block \in Nat /\ Defaults.rate \in Int
        /\ Defaults.seconds \in Int /\ Defaults.depth \in DOMAIN BytesPerSample
    BY WavAssumption DEF Defaults, BytesPerSample
  <1>3. Defaults.amplitude \in Int
    BY WavAssumption, DivMod DEF Defaults
  <1>4. {"channel", "block"} \subseteq Counts /\ {"rate", "seconds", "amplitude"} \subseteq Reals
    BY DEF Counts, Reals
  <1> HIDE DEF given
  <1>5. /\ args.channel \in Nat /\ args.block \in Nat
        /\ args.rate \in Int /\ args.seconds \in Int
        /\ args.amplitude \in Int /\ args.depth \in DOMAIN BytesPerSample
    <2>1. \A setting \in {"channel", "block", "rate", "seconds", "amplitude", "depth"} :
            args[setting] = IF setting \in DOMAIN given THEN given[setting] ELSE Defaults[setting]
      BY <1>2
    <2> HIDE DEF args
    <2> QED BY <1>1, <1>2, <1>3, <1>4, <2>1 DEF Usable
  <1>9. "tolerance" \in DOMAIN args => args.tolerance \in Int
    <2>1. "tolerance" \notin DOMAIN Defaults /\ "tolerance" \in Reals
      BY DEF Defaults, Reals
    <2>2. ASSUME "tolerance" \in DOMAIN args
          PROVE  "tolerance" \in DOMAIN given /\ args["tolerance"] = given["tolerance"]
      BY <2>1, <2>2
    <2> HIDE DEF args
    <2> QED BY <1>1, <2>1, <2>2 DEF Usable
  <1> HIDE DEF args, mode
  <1>6. ASSUME ~Refused(mode, args)
        PROVE  Runnable([status |-> "run", mode |-> mode, args |-> args])
    <2>1. /\ args.block # 0
          /\ mode = "generate" => /\ ~(args.rate <= 0) /\ ~(args.seconds <= 0)
                                  /\ args.generate \in SignalKinds
      BY <1>6 DEF Refused
    <2> QED BY <1>5, <1>9, <2>1 DEF Runnable
  <1>7. Runnable([status |-> "help"]) /\ Runnable([status |-> "refused"])
    BY DEF Runnable
  <1>8. ParseArgs(argv) =
          CASE Walk(argv).status = "help" -> [status |-> "help"]
            [] \/ Walk(argv).status = "refused" \/ Walk(argv).waiting # <<>>
               \/ Cardinality(Chosen(given)) # 1
               \/ Refused(mode, args) -> [status |-> "refused"]
            [] OTHER -> [status |-> "run", mode |-> mode, args |-> args]
    BY DEF ParseArgs, given, args, mode
  <1> QED BY <1>6, <1>7, <1>8, ZenonT(30)

------------------------------------------------------------------------------
(* Samples as integers.                                                     *)

(* A product is of the sign of its other factor.                            *)
LEMMA SignOfProduct ==
  ASSUME NEW m \in Nat \ {0}, NEW y \in Int, m * y <= 0
  PROVE  y <= 0
  <1>1. SUFFICES ASSUME y >= 1 PROVE FALSE
    BY Z3
  <1>2. m * y >= m
    BY <1>1, Z3
  <1> QED BY <1>2, Z3

(* A whole quotient is found whatever its sign.                             *)
LEMMA ExactQuotient ==
  ASSUME NEW m \in Nat \ {0}, NEW z \in Int
  PROVE  (m * z) \div m = z
  BY Z3

(* A quotient is the floor of the fraction.                                 *)
LEMMA FloorIs ==
  ASSUME NEW m \in Nat \ {0}, NEW a \in Nat
  PROVE  /\ a \div m \in Nat
         /\ m * (a \div m) <= a /\ a < m * (a \div m) + m
  BY DivMod, ModRange

(* Rounding is off by half the denominator at most, either way.             *)
LEMMA RoundedIsNear ==
  ASSUME NEW n \in Int, NEW d \in Nat \ {0}
  PROVE  /\ Rounded(n, d) \in Int
         /\ 2 * (d * Rounded(n, d)) - 2 * n <= d
         /\ 2 * n - 2 * (d * Rounded(n, d)) <= d
  <1> DEFINE up(a) == (2 * a + d) \div (2 * d)
  <1>1. ASSUME NEW a \in Nat
        PROVE  /\ up(a) \in Nat
               /\ 2 * (d * up(a)) - 2 * a <= d /\ 2 * a - 2 * (d * up(a)) <= d
    <2>1. 2 * a + d \in Nat /\ 2 * d \in Nat \ {0}
      OBVIOUS
    <2>2. /\ up(a) \in Nat
          /\ (2 * d) * up(a) <= 2 * a + d /\ 2 * a + d < (2 * d) * up(a) + 2 * d
      BY <2>1, FloorIs
    <2> HIDE DEF up
    <2>3. \A u \in Nat : (2 * d) * u = 2 * (d * u) /\ d * u \in Nat
      BY Z3
    <2> QED BY <2>2, <2>3
  <1> HIDE DEF up
  <1>2. CASE n >= 0
    <2>1. Rounded(n, d) = up(n)
      BY <1>2 DEF Rounded, up
    <2> QED BY <1>1, <1>2, <2>1
  <1>3. CASE ~(n >= 0)
    <2>1. Rounded(n, d) = -up(-n) /\ -n \in Nat
      BY <1>3 DEF Rounded, up
    <2>2. up(-n) \in Nat /\ 2 * (d * up(-n)) - 2 * (-n) <= d /\ 2 * (-n) - 2 * (d * up(-n)) <= d
      BY <1>1, <2>1
    <2>3. \A u \in Nat : d * (-u) = -(d * u) /\ d * u \in Nat
      BY Z3
    <2> QED BY <2>1, <2>2, <2>3
  <1> QED BY <1>2, <1>3

(* A count rounds to a count.                                               *)
LEMMA RoundedIsNat ==
  ASSUME NEW n \in Nat, NEW d \in Nat \ {0}
  PROVE  Rounded(n, d) \in Nat
  <1>1. 2 * n + d \in Nat /\ 2 * d \in Nat \ {0}
    OBVIOUS
  <1>2. (2 * n + d) \div (2 * d) \in Nat
    BY <1>1, DivMod
  <1> QED BY <1>2 DEF Rounded

(* The steps of an integer depth.                                           *)
LEMMA StepsAre ==
  ASSUME NEW width \in DOMAIN Magnitude
  PROVE  LET m == 2^Magnitude[width]
             k == FullScale \div m
         IN  /\ m \in Nat \ {0} /\ k \in Nat \ {0} /\ FullScale = m * k
  <1> DEFINE m == 2^Magnitude[width]
             k == FullScale \div m
  <1>1. m \in Nat \ {0} /\ FullScale % m = 0 /\ FullScale \in Nat \ {0}
    BY WavAssumption
  <1> HIDE DEF m
  <1>2. FullScale = m * k + (FullScale % m) /\ k \in Nat
    BY <1>1, DivMod
  <1>3. FullScale = m * k
    <2>1. m * k \in Int
      BY <1>1, <1>2
    <2> QED BY <2>1, <1>1, <1>2
  <1>4. k # 0
    <2>1. m * 0 = 0
      BY <1>1
    <2> QED BY <2>1, <1>1, <1>3
  <1> QED BY <1>1, <1>2, <1>3, <1>4 DEF m

(* A sample within full scale is scaled to one of the depth's steps beside  *)
(* the lowest, the nearest.                                                 *)
LEMMA QuantiseIsNear ==
  ASSUME NEW width \in DOMAIN Magnitude, NEW x \in (-FullScale)..FullScale
  PROVE  LET m == 2^Magnitude[width]
             q == Quantise(x, width)
         IN  /\ q \in Int /\ -(m - 1) <= q /\ q <= m - 1
             /\ 2 * (FullScale * q) - 2 * (x * (m - 1)) <= FullScale
             /\ 2 * (x * (m - 1)) - 2 * (FullScale * q) <= FullScale
  <1> DEFINE m == 2^Magnitude[width]
             q == Quantise(x, width)
  <1>1. m \in Nat \ {0} /\ FullScale \in Nat \ {0}
    BY WavAssumption
  <1>2. Clamped(x) = x
    BY <1>1 DEF Clamped
  <1> HIDE DEF m
  <1>3. x * (m - 1) \in Int
    BY <1>1
  <1>4. q = Rounded(x * (m - 1), FullScale)
    BY <1>2 DEF Quantise, m
  <1> HIDE DEF q
  <1>5. /\ q \in Int
        /\ 2 * (FullScale * q) - 2 * (x * (m - 1)) <= FullScale
        /\ 2 * (x * (m - 1)) - 2 * (FullScale * q) <= FullScale
    BY <1>1, <1>3, <1>4, RoundedIsNear
  <1>6. x * (m - 1) <= FullScale * (m - 1) /\ -(FullScale * (m - 1)) <= x * (m - 1)
        /\ FullScale * (m - 1) \in Int
    <2>1. \A f, y, n \in Int : y <= f /\ -f <= y /\ n >= 0 => y * n <= f * n /\ -(f * n) <= y * n
      BY Z3
    <2> QED BY <2>1, <1>1
  <1>7. q <= m - 1
    <2>1. SUFFICES ASSUME q >= m
                   PROVE  FALSE
      BY <1>1, <1>5
    <2>2. FullScale * q >= FullScale * m /\ FullScale * q \in Int /\ FullScale * m \in Int
      <3>1. \A f, a, b \in Nat : a >= b => f * a >= f * b
        BY Z3
      <3> QED BY <3>1, <2>1, <1>1, <1>5
    <2>3. FullScale * (m - 1) = FullScale * m - FullScale
      <3>1. \A f, a \in Nat : f * (a - 1) = f * a - f
        BY Z3
      <3> QED BY <3>1, <1>1
    <2> QED BY <2>2, <2>3, <1>1, <1>3, <1>5, <1>6
  <1>8. -(m - 1) <= q
    <2>1. SUFFICES ASSUME -q >= m
                   PROVE  FALSE
      BY <1>1, <1>5
    <2>2. FullScale * (-q) >= FullScale * m /\ FullScale * (-q) = -(FullScale * q)
          /\ FullScale * q \in Int /\ FullScale * m \in Int
      <3>1. \A f, a, b \in Nat : a >= b => f * a >= f * b
        BY Z3
      <3>2. \A f, a \in Int : f * (-a) = -(f * a)
        BY Z3
      <3> QED BY <3>1, <3>2, <2>1, <1>1, <1>5
    <2>3. FullScale * (m - 1) = FullScale * m - FullScale
      <3>1. \A f, a \in Nat : f * (a - 1) = f * a - f
        BY Z3
      <3> QED BY <3>1, <1>1
    <2> QED BY <2>2, <2>3, <1>1, <1>3, <1>5, <1>6
  <1> QED BY <1>5, <1>7, <1>8 DEF m, q

(* A step that the width holds is stored as it is.                          *)
LEMMA StoredIs ==
  ASSUME NEW width \in DOMAIN Magnitude, NEW q \in Int,
         -(2^Magnitude[width] - 1) <= q, q <= 2^Magnitude[width] - 1
  PROVE  Stored(q, width) = q
  <1> DEFINE m == 2^Magnitude[width]
  <1>1. m \in Nat \ {0}
    BY WavAssumption
  <1>2. -(m - 1) <= q /\ q <= m - 1
    OBVIOUS
  <1>3. Stored(q, width) = ((q + m) % (2 * m)) - m
    BY DEF Stored
  <1> HIDE DEF m
  <1>4. q + m \in 0..(2 * m - 1) /\ 2 * m \in Nat \ {0} /\ q + m \in Nat
    BY <1>1, <1>2
  <1>5. q + m = (2 * m) * 0 + (q + m)
    BY <1>1, <1>4
  <1>6. (q + m) % (2 * m) = q + m
    BY <1>4, <1>5, ModUnique
  <1> QED BY <1>1, <1>3, <1>6

(* What an integer file holds reads back within one and a half steps: half  *)
(* of one is the rounding, one is for the scales that differ by one.        *)
LEMMA IntegerReadsBack ==
  ASSUME NEW width \in DOMAIN Magnitude, NEW x \in (-FullScale)..FullScale,
         NEW file, file.float = FALSE, file.width = width
  PROVE  LET y == Normalised(file, Stored(Quantise(x, width), width))
         IN  /\ y \in Int
             /\ 2 * Unsigned(y - x) <= 3 * (FullScale \div 2^Magnitude[width])
  <1> DEFINE m == 2^Magnitude[width]
             k == FullScale \div m
             q == Quantise(x, width)
             y == Normalised(file, Stored(q, width))
  <1>1. m \in Nat \ {0} /\ k \in Nat \ {0} /\ FullScale = m * k /\ FullScale \in Nat
    BY StepsAre, WavAssumption
  <1>2. /\ q \in Int /\ -(m - 1) <= q /\ q <= m - 1
        /\ 2 * (FullScale * q) - 2 * (x * (m - 1)) <= FullScale
        /\ 2 * (x * (m - 1)) - 2 * (FullScale * q) <= FullScale
    BY QuantiseIsNear
  <1>3. Stored(q, width) = q
    BY <1>2, StoredIs
  <1>4. y = (q * FullScale) \div m
    BY <1>3 DEF Normalised
  <1> HIDE DEF m, k, q, y
  <1>5. y = q * k /\ q * k \in Int
    <2>1. q * FullScale = m * (q * k) /\ q * k \in Int
      <3>1. \A a, b, c \in Int : a * (b * c) = b * (a * c) /\ a * c \in Int
        BY Z3
      <3> QED BY <3>1, <1>1, <1>2
    <2> QED BY <2>1, <1>1, <1>4, ExactQuotient
  <1>6. /\ FullScale * q = m * y /\ x * (m - 1) = m * x - x
        /\ m * y - m * x = m * (y - x)
        /\ m * y \in Int /\ m * x \in Int
    <2>1. \A a, b, c \in Int : (a * b) * c = a * (c * b)
      BY Z3
    <2>2. \A a, b \in Int : b * (a - 1) = a * b - b
      BY Z3
    <2>3. \A a, b, c \in Int : a * b - a * c = a * (b - c)
      BY Z3
    <2>4. y \in Int /\ x \in Int /\ m \in Int /\ k \in Int
      BY <1>1, <1>5
    <2>5. FullScale * q = m * y
      BY <2>1, <2>4, <1>1, <1>2, <1>5
    <2> QED BY <2>2, <2>3, <2>4, <2>5
  <1>7. 2 * (m * (y - x)) <= 3 * (m * k) /\ -(2 * (m * (y - x))) <= 3 * (m * k)
    BY <1>1, <1>2, <1>5, <1>6
  <1>8. m * (2 * (y - x) - 3 * k) <= 0 /\ m * (2 * (x - y) - 3 * k) <= 0
    <2>1. \A a, b, c \in Int : a * (2 * b - 3 * c) = 2 * (a * b) - 3 * (a * c)
      BY Z3
    <2>2. \A a, b \in Int : a * (-b) = -(a * b) /\ a * b \in Int
      BY Z3
    <2>3. y - x \in Int /\ x - y = -(y - x) /\ m \in Int /\ k \in Int
      BY <1>1, <1>5
    <2>4. m * (2 * (y - x) - 3 * k) = 2 * (m * (y - x)) - 3 * (m * k)
      BY <2>1, <2>3
    <2>5. m * (2 * (x - y) - 3 * k) = 2 * (m * (x - y)) - 3 * (m * k)
      BY <2>1, <2>3
    <2>6. m * (x - y) = -(m * (y - x)) /\ m * (y - x) \in Int /\ m * k \in Int
      BY <2>2, <2>3
    <2> QED BY <2>4, <2>5, <2>6, <1>7
  <1>9. 2 * (y - x) - 3 * k <= 0 /\ 2 * (x - y) - 3 * k <= 0
    BY <1>1, <1>5, <1>8, SignOfProduct
  <1>10. 2 * Unsigned(y - x) <= 3 * k
    BY <1>1, <1>5, <1>9 DEF Unsigned
  <1> QED BY <1>5, <1>10 DEF m, k, q, y

------------------------------------------------------------------------------
(* The file of --generate and the source of an analysis.                    *)

(* A function on the first numbers is a sequence of its values.             *)
LEMMA ValuesListed ==
  ASSUME NEW n \in Nat, NEW f, f = [i \in 1..n |-> f[i]]
  PROVE  f \in Seq({f[i] : i \in 1..n}) /\ Len(f) = n
  <1> DEFINE S == {f[i] : i \in 1..n}
  <1>1. f \in [1..n -> S]
    OBVIOUS
  <1> HIDE DEF S
  <1>2. f \in Seq(S) /\ Len(f) = n
    BY <1>1
  <1> QED BY <1>2 DEF S

(* The signal is within full scale at each of its frames.                   *)
LEMMA RenderedIs ==
  ASSUME NEW wanted, Runnable(wanted), wanted.status = "run", wanted.mode = "generate"
  PROVE  /\ SignalFrames(wanted.args) \in Nat
         /\ Rendered(wanted.args) \in
              [1..SignalFrames(wanted.args) -> (-FullScale)..FullScale]
  <1> DEFINE args == wanted.args
             wave == Waves[args.generate]
             level == SignalOf(args).level
  <1>1. /\ args.rate \in Nat \ {0} /\ args.seconds \in Nat \ {0}
        /\ args.amplitude \in Int /\ args.generate \in SignalKinds
    BY DEF Runnable
  <1>2. SignalFrames(args) \in Nat
    <2>1. \A a, b \in Nat : a * b \in Nat
      BY Z3
    <2>2. \A a, b \in Nat \ {0} : a * b \in Nat \ {0}
      BY Z3
    <2>3. args.rate * args.seconds \in Nat /\ Parts * Parts \in Nat \ {0}
      BY <2>1, <2>2, <1>1, WavAssumption
    <2> QED BY <2>3, RoundedIsNat DEF SignalFrames
  <1>3. FullScale \in Nat
    BY WavAssumption
  <1>4. level \in 0..FullScale
    BY <1>1, <1>3 DEF SignalOf
  <1>5. wave \in Seq({-1, 0, 1}) /\ wave # <<>>
    BY <1>1, HarnessAssumption
  <1>6. Rendered(args) = [i \in 1..SignalFrames(args) |-> level * wave[1 + ((i - 1) % Len(wave))]]
    BY DEF Rendered, SignalOf
  <1> HIDE DEF wave, level
  <1>7. ASSUME NEW i \in 1..SignalFrames(args)
        PROVE  level * wave[1 + ((i - 1) % Len(wave))] \in (-FullScale)..FullScale
    <2>1. Len(wave) \in Nat \ {0} /\ i - 1 \in Nat
      BY <1>2, <1>5
    <2>2. (i - 1) % Len(wave) \in 0..(Len(wave) - 1)
      BY <2>1, ModRange
    <2>3. wave[1 + ((i - 1) % Len(wave))] \in {-1, 0, 1}
      BY <2>1, <2>2, <1>5
    <2>4. \A l, w \in Int : w \in {-1, 0, 1} => l * w \in {-l, 0, l}
      BY Z3
    <2>5. level * wave[1 + ((i - 1) % Len(wave))] \in {-level, 0, level}
      BY <2>3, <2>4, <1>4
    <2> QED BY <2>5, <1>3, <1>4
  <1> QED BY <1>2, <1>6, <1>7

(* What write_wav puts on the disk is whole numbers.                        *)
LEMMA EncodedIs ==
  ASSUME NEW n \in Nat, NEW samples \in [1..n -> (-FullScale)..FullScale],
         NEW depth \in DOMAIN BytesPerSample
  PROVE  /\ samples \in Seq(Int) /\ Len(samples) = n
         /\ Encoded(samples, depth) \in Seq(Int) /\ Len(Encoded(samples, depth)) = n
         /\ 8 * BytesPerSample[depth] \in DOMAIN Magnitude \cap Nat
  <1>1. 8 * BytesPerSample[depth] \in DOMAIN Magnitude \cap Nat
    <2>1. 8 * BytesPerSample[depth] \in {16, 24, 32}
      BY DEF BytesPerSample
    <2> QED BY <2>1, WavAssumption
  <1>2. FullScale \in Nat
    BY WavAssumption
  <1>3. samples \in [1..n -> Int]
    BY <1>2
  <1> DEFINE width == 8 * BytesPerSample[depth]
  <1>4. Encoded(samples, depth) \in [1..n -> Int]
    <2>1. CASE depth = "Float32"
      BY <2>1, <1>3 DEF Encoded
    <2>2. CASE depth # "Float32"
      <3>1. Encoded(samples, depth) =
              [i \in 1..n |-> Stored(Quantise(samples[i], width), width)]
        BY <2>2, <1>3 DEF Encoded
      <3> HIDE DEF width
      <3>2. ASSUME NEW i \in 1..n
            PROVE  Stored(Quantise(samples[i], width), width) \in Int
        <4>1. width \in DOMAIN Magnitude /\ samples[i] \in (-FullScale)..FullScale
          BY <1>1 DEF width
        <4>2. LET q == Quantise(samples[i], width)
              IN  q \in Int /\ -(2^Magnitude[width] - 1) <= q /\ q <= 2^Magnitude[width] - 1
          BY <4>1, QuantiseIsNear
        <4> QED BY <4>1, <4>2, StoredIs
      <3> QED BY <3>1, <3>2
    <2> QED BY <2>1, <2>2
  <1> HIDE DEF width
  <1>5. samples \in Seq(Int) /\ Len(samples) = n
    BY <1>3
  <1>6. Encoded(samples, depth) \in Seq(Int) /\ Len(Encoded(samples, depth)) = n
    BY <1>4
  <1> QED BY <1>1, <1>5, <1>6

(* The file as write_wav leaves it when so many samples reached the disk.   *)
LEMMA GeneratedFileIs ==
  ASSUME NEW wanted, Runnable(wanted), wanted.status = "run", wanted.mode = "generate",
         NEW held \in 0..SignalFrames(wanted.args)
  PROVE  LET file == GeneratedFile(wanted.args, held)
         IN  /\ IsFile(file)
             /\ Len(file.data) = held /\ file.declared = SignalFrames(wanted.args)
             /\ file.data = SubSeq(Encoded(Rendered(wanted.args), wanted.args.depth), 1, held)
             /\ file.kind = "wav" /\ file.container = "riff"
             /\ file.float = (wanted.args.depth = "Float32")
             /\ file.width = 8 * BytesPerSample[wanted.args.depth]
             /\ file.channels = 1 /\ file.rate = StoredRate(wanted.args.rate)
  <1> DEFINE args == wanted.args
             samples == Rendered(args)
             n == SignalFrames(args)
             coded == Encoded(samples, args.depth)
             file == GeneratedFile(args, held)
  <1>1. n \in Nat /\ samples \in [1..n -> (-FullScale)..FullScale]
    BY RenderedIs
  <1>2. args.depth \in DOMAIN BytesPerSample /\ StoredRate(args.rate) \in Nat
    BY WavAssumption, DivMod DEF Runnable, StoredRate
  <1>3. file = [kind |-> "wav", container |-> "riff", float |-> (args.depth = "Float32"),
                width |-> 8 * BytesPerSample[args.depth], channels |-> 1,
                rate |-> StoredRate(args.rate),
                declared |-> Len(samples), data |-> SubSeq(coded, 1, held)]
    BY DEF GeneratedFile, Written
  <1> HIDE DEF args, samples, n, coded, file
  <1>4. /\ Len(samples) = n /\ coded \in Seq(Int) /\ Len(coded) = n
        /\ 8 * BytesPerSample[args.depth] \in Nat
    BY <1>1, <1>2, EncodedIs DEF coded
  <1>5. SubSeq(coded, 1, held) \in Seq(Int) /\ Len(SubSeq(coded, 1, held)) = held
    <2>1. held \in 0..n
      BY DEF n, args
    <2> QED BY <2>1, <1>1, <1>4
  <1>6. /\ Len(file.data) = held /\ file.declared = n
        /\ file.data = SubSeq(coded, 1, held)
        /\ file.kind = "wav" /\ file.container = "riff"
        /\ file.float = (args.depth = "Float32")
        /\ file.width = 8 * BytesPerSample[args.depth]
        /\ file.channels = 1 /\ file.rate = StoredRate(args.rate)
    BY <1>3, <1>4, <1>5
  <1>7. IsFile(file)
    BY <1>1, <1>2, <1>4, <1>5, <1>6 DEF IsFile, Tables
  <1> QED BY <1>6, <1>7 DEF args, samples, n, coded, file

(* A file written whole is read whole, each sample near what was wanted,    *)
(* when its rate is one that is read.                                       *)
LEMMA WholeFileReadsBack ==
  ASSUME NEW wanted, Runnable(wanted), wanted.status = "run", wanted.mode = "generate"
  PROVE  LET file == GeneratedFile(wanted.args, SignalFrames(wanted.args))
             samples == Rendered(wanted.args)
         IN  /\ CanRead(file) <=> StoredRate(wanted.args.rate) \in 1 .. MostRate
             /\ Len(ReadWav(file).samples) = Len(samples)
             /\ \A i \in DOMAIN samples :
                  2 * Unsigned(ReadWav(file).samples[i] - samples[i]) <=
                    IF file.float THEN 0 ELSE 3 * (FullScale \div 2^Magnitude[file.width])
  <1> DEFINE args == wanted.args
             n == SignalFrames(args)
             samples == Rendered(args)
             coded == Encoded(samples, args.depth)
             file == GeneratedFile(args, n)
             width == 8 * BytesPerSample[args.depth]
  <1>1. n \in Nat /\ samples \in [1..n -> (-FullScale)..FullScale]
    BY RenderedIs
  <1>2. args.depth \in DOMAIN BytesPerSample
    BY DEF Runnable
  <1>3. n \in 0..SignalFrames(args)
    BY <1>1
  <1>4. /\ Len(file.data) = n /\ file.declared = n /\ file.data = SubSeq(coded, 1, n)
        /\ file.kind = "wav" /\ file.container = "riff"
        /\ file.float = (args.depth = "Float32") /\ file.width = width
        /\ file.channels = 1 /\ file.rate = StoredRate(args.rate)
    BY <1>3, GeneratedFileIs
  <1> HIDE DEF args, n, samples, coded, file
  <1>5. /\ Len(samples) = n /\ coded \in Seq(Int) /\ Len(coded) = n
        /\ width \in DOMAIN Magnitude
    BY <1>1, <1>2, EncodedIs DEF coded
  <1>6. \A i \in 1..n : file.data[i] = coded[i]
    BY <1>1, <1>4, <1>5
  <1>7. CanRead(file) <=> StoredRate(args.rate) \in 1 .. MostRate
    <2>1. Supported(file)
      <3>1. CASE args.depth = "Float32"
        <4>1. width = 32
          BY <3>1 DEF BytesPerSample
        <4> QED BY <3>1, <4>1, <1>4 DEF Supported
      <3>2. CASE args.depth # "Float32"
        <4>1. width \in {16, 24}
          BY <3>2, <1>2 DEF BytesPerSample
        <4> QED BY <3>2, <4>1, <1>4 DEF Supported
      <3> QED BY <3>1, <3>2
    <2>2. ~CutShort(file)
      BY <1>1, <1>4 DEF CutShort
    <2>3. width \in {16, 24, 32}
      BY <1>2 DEF BytesPerSample
    <2>4. InitMemory(file) <=> StoredRate(args.rate) \in 1 .. MostRate
      BY <1>4, <2>3 DEF InitMemory
    <2> QED BY <2>1, <2>2, <2>4 DEF CanRead
  <1>8. FramesClaimed(file) * file.channels = n
    <2>1. FramesClaimed(file) = n \div 1
      BY <1>1, <1>4 DEF FramesClaimed
    <2>2. n \div 1 = n /\ n * 1 = n
      BY <1>1
    <2> QED BY <2>1, <2>2, <1>4
  <1>9. ReadWav(file).samples = [i \in 1..n |-> Normalised(file, file.data[i])]
    BY <1>8 DEF ReadWav
  <1>10. Len(ReadWav(file).samples) = n
    <2> DEFINE back == ReadWav(file).samples
    <2>1. back = [i \in 1..n |-> back[i]]
      BY <1>9
    <2> HIDE DEF back
    <2>2. Len(back) = n
      BY <2>1, <1>1, ValuesListed
    <2> QED BY <2>2 DEF back
  <1>11. ASSUME NEW i \in 1..n
         PROVE  2 * Unsigned(Normalised(file, file.data[i]) - samples[i]) <=
                  IF file.float THEN 0 ELSE 3 * (FullScale \div 2^Magnitude[file.width])
    <2>1. samples[i] \in (-FullScale)..FullScale /\ FullScale \in Int
      BY <1>1, WavAssumption
    <2>2. CASE args.depth = "Float32"
      <3>1. file.float = TRUE /\ coded = samples
        BY <2>2, <1>4 DEF Encoded, coded
      <3>2. Normalised(file, file.data[i]) = samples[i]
        BY <3>1, <1>6 DEF Normalised
      <3>3. Unsigned(samples[i] - samples[i]) = 0
        BY <2>1 DEF Unsigned
      <3> QED BY <3>1, <3>2, <3>3
    <2>3. CASE args.depth # "Float32"
      <3>1. file.float = FALSE /\ coded[i] = Stored(Quantise(samples[i], width), width)
        BY <2>3, <1>1, <1>4 DEF Encoded, coded
      <3>2. file.data[i] = Stored(Quantise(samples[i], width), width)
        BY <3>1, <1>6
      <3> HIDE DEF width
      <3>3. 2 * Unsigned(Normalised(file, Stored(Quantise(samples[i], width), width)) - samples[i])
              <= 3 * (FullScale \div 2^Magnitude[width])
        BY <3>1, <2>1, <1>4, <1>5, IntegerReadsBack
      <3> QED BY <3>1, <3>2, <3>3, <1>4
    <2> QED BY <2>2, <2>3
  <1>12. DOMAIN samples = 1..n
    BY <1>1
  <1>13. \A i \in DOMAIN samples :
           2 * Unsigned(ReadWav(file).samples[i] - samples[i]) <=
             IF file.float THEN 0 ELSE 3 * (FullScale \div 2^Magnitude[file.width])
    BY <1>9, <1>11, <1>12
  <1> QED BY <1>5, <1>7, <1>10, <1>13 DEF args, n, samples, coded, file

(* A source that can be loaded is whole frames of at least one channel.     *)
LEMMA SourceIs ==
  ASSUME NEW disk, \A path \in DOMAIN disk : IsFile(disk[path]),
         NEW wanted, Runnable(wanted), wanted.status = "run",
         CanLoad(disk, wanted.mode, wanted.args)
  PROVE  LET source == LoadSource(disk, wanted.mode, wanted.args)
         IN  source.channels \in Nat \ {0} /\ SourceFrames(source) \in Nat
  <1> DEFINE source == LoadSource(disk, wanted.mode, wanted.args)
  <1>1. CASE wanted.mode = "sine"
    <2> DEFINE n == SineFrames(wanted.args)
    <2>1. n \in Nat
      <3>1. \A a, b \in Int : a * b \in Int
        BY Z3
      <3>2. \A a, b \in Nat \ {0} : a * b \in Nat \ {0}
        BY Z3
      <3>3. wanted.args.rate * wanted.args.seconds \in Int /\ Parts * Parts \in Nat \ {0}
        BY <3>1, <3>2, WavAssumption DEF Runnable
      <3>4. SignalFrames(wanted.args) \in Int
        BY <3>3, RoundedIsNear DEF SignalFrames
      <3> QED BY <3>4 DEF SineFrames
    <2>2. source = Sine(wanted.args)
      BY <1>1 DEF LoadSource
    <2> HIDE DEF source
    <2> DEFINE samples == source.samples
    <2>3. source.channels = 1 /\ samples = [i \in 1..n |-> samples[i]]
      BY <2>2 DEF Sine
    <2> HIDE DEF samples, n
    <2>4. Len(samples) = n
      BY <2>1, <2>3, ValuesListed
    <2>5. Len(samples) \div 1 \in Nat
      BY <2>1, <2>4, DivMod
    <2>6. SourceFrames(source) \in Nat /\ source.channels \in Nat \ {0}
      <3>1. source.channels = 1
        BY <2>3
      <3>2. Len(source.samples) \div 1 \in Nat
        BY <2>5 DEF samples
      <3>3. SourceFrames(source) = Len(source.samples) \div 1
        BY <3>1 DEF SourceFrames
      <3>4. SourceFrames(source) \in Nat
        BY <3>2, <3>3, Zenon
      <3> QED BY <3>1, <3>4
    <2> QED BY <2>6 DEF source
  <1>2. CASE wanted.mode # "sine"
    <2> DEFINE file == Content(disk, wanted.args.path)
               claimed == FramesClaimed(file)
    <2>1. CanRead(file) /\ source = ReadWav(file)
      BY <1>2 DEF CanLoad, LoadSource
    <2>2. file.kind = "wav" /\ file.channels \in Nat \ {0}
      BY <2>1 DEF CanRead, InitMemory
    <2>3. IsFile(file)
      BY <2>2 DEF Content
    <2> HIDE DEF file
    <2>4. /\ file.channels \in Nat \ {0} /\ file.declared \in Nat /\ Len(file.data) \in Nat
      <3>1. file.declared \in Nat /\ file.data \in Seq(Int)
        BY <2>2, <2>3 DEF IsFile
      <3> QED BY <2>2, <3>1
    <2>5. claimed \in Nat
      BY <2>4, DivMod DEF FramesClaimed
    <2> HIDE DEF source, claimed
    <2> DEFINE samples == source.samples
               n == claimed * file.channels
    <2>6. source.channels = file.channels /\ samples = [i \in 1..n |-> samples[i]]
      BY <2>1 DEF ReadWav, claimed
    <2>7. n \in Nat
      BY <2>4, <2>5
    <2> HIDE DEF samples, n
    <2>8. Len(samples) = n
      BY <2>6, <2>7, ValuesListed
    <2>9. Len(samples) \div file.channels \in Nat
      BY <2>4, <2>7, <2>8, DivMod
    <2> QED BY <2>4, <2>6, <2>9 DEF SourceFrames, source, samples
  <1> QED BY <1>1, <1>2

------------------------------------------------------------------------------
(* Two exports compared (model/compare.cpp).                                *)

(* What a line of an export reads as, a point of it, and a whole one read.  *)
Row == [usable : BOOLEAN, hz : Int, db : Int]
Point == [hz : Int, db : Int]

Ascending(points) ==
  \A i, j \in DOMAIN points : i <= j => points[i].hz <= points[j].hz

Responding == {points \in Seq(Point) : Ascending(points)}

LEMMA RespondingIs ==
  ASSUME NEW points \in Responding
  PROVE  /\ points \in Seq(Point) /\ Len(points) \in Nat /\ DOMAIN points = 1..Len(points)
         /\ \A i \in 1..Len(points) :
              points[i] \in Point /\ points[i].hz \in Int /\ points[i].db \in Int
         /\ \A i, j \in 1..Len(points) : i <= j => points[i].hz <= points[j].hz
  <1>1. points \in Seq(Point) /\ Ascending(points)
    BY DEF Responding
  <1>2. Len(points) \in Nat /\ DOMAIN points = 1..Len(points)
    BY <1>1
  <1>3. \A i \in 1..Len(points) : points[i] \in Point
    BY <1>1
  <1>4. \A i \in 1..Len(points) : points[i].hz \in Int /\ points[i].db \in Int
    BY <1>3 DEF Point
  <1>5. \A i, j \in 1..Len(points) : i <= j => points[i].hz <= points[j].hz
    BY <1>1, <1>2 DEF Ascending
  <1> QED BY <1>1, <1>2, <1>3, <1>4, <1>5

(* There is one place in a sorted list behind what is not above a frequency *)
(* and before what is (std::ranges::stable_sort).                           *)
LEMMA RankIs ==
  ASSUME NEW points \in Responding, NEW hz \in Int
  PROVE  /\ Rank(points, hz) \in 0..Len(points)
         /\ \A j \in 1..Rank(points, hz) : points[j].hz <= hz
         /\ \A j \in Rank(points, hz) + 1..Len(points) : points[j].hz > hz
  <1> DEFINE n == Len(points)
             Splits(i) == /\ \A j \in 1..i : points[j].hz <= hz
                          /\ \A j \in i + 1..n : points[j].hz > hz
             Above == {i \in 1..n : points[i].hz > hz}
  <1>1. /\ n \in Nat /\ DOMAIN points = 1..n
        /\ \A i \in 1..n : points[i].hz \in Int
        /\ \A i, j \in 1..n : i <= j => points[i].hz <= points[j].hz
    BY RespondingIs
  <1> HIDE DEF n
  <1>2. \E i \in 0..n : Splits(i)
    <2>1. CASE Above = {}
      <3>1. n \in 0..n /\ \A j \in 1..n : points[j].hz <= hz
        BY <1>1, <2>1
      <3>2. \A j \in n + 1..n : FALSE
        BY <1>1
      <3> QED BY <3>1, <3>2
    <2>2. CASE Above # {}
      <3>1. Above \in SUBSET Nat
        BY <1>1
      <3>2. PICK m \in Above : \A j \in Above : m <= j
        <4> HIDE DEF Above
        <4> QED BY <2>2, <3>1, LeastIs
      <3>3. m \in 1..n /\ points[m].hz > hz
        BY <3>2
      <3>4. m - 1 \in 0..n
        BY <1>1, <3>3
      <3>5. ASSUME NEW j \in 1..m - 1
            PROVE  points[j].hz <= hz
        <4>1. j \in 1..n /\ ~(m <= j)
          BY <1>1, <3>3
        <4>2. j \notin Above
          <5> HIDE DEF Above
          <5> QED BY <3>2, <4>1
        <4> QED BY <1>1, <4>1, <4>2
      <3>6. ASSUME NEW j \in m - 1 + 1..n
            PROVE  points[j].hz > hz
        <4>1. j \in 1..n /\ m <= j
          BY <1>1, <3>3
        <4>2. points[m].hz <= points[j].hz
          BY <1>1, <3>3, <4>1
        <4> QED BY <1>1, <3>3, <4>1, <4>2
      <3> QED BY <3>4, <3>5, <3>6
    <2> QED BY <2>1, <2>2
  <1>3. Rank(points, hz) = CHOOSE i \in 0..n : Splits(i)
    BY DEF Rank, n
  <1> DEFINE r == CHOOSE i \in 0..n : Splits(i)
  <1> HIDE DEF Splits
  <1>4. r \in 0..n /\ Splits(r)
    BY <1>2
  <1> HIDE DEF r
  <1>5. Rank(points, hz) = r
    BY <1>3 DEF r
  <1> QED BY <1>4, <1>5 DEF Splits, n

(* A point put there leaves the list sorted.                                *)
LEMMA SortedIs ==
  ASSUME NEW points \in Responding, NEW point \in Point
  PROVE  Sorted(points, point) \in Responding
  <1> DEFINE n == Len(points)
             r == Rank(points, point.hz)
             more == Sorted(points, point)
  <1>1. /\ n \in Nat /\ points \in Seq(Point)
        /\ \A i \in 1..n : points[i] \in Point /\ points[i].hz \in Int
        /\ \A i, j \in 1..n : i <= j => points[i].hz <= points[j].hz
        /\ point.hz \in Int
    BY RespondingIs DEF Responding, Point
  <1>2. /\ r \in 0..n
        /\ \A j \in 1..r : points[j].hz <= point.hz
        /\ \A j \in r + 1..n : points[j].hz > point.hz
    BY <1>1, RankIs
  <1>3. more = SubSeq(points, 1, r) \o <<point>> \o SubSeq(points, r + 1, n)
    BY DEF Sorted
  <1> HIDE DEF r, more
  <1> DEFINE before == SubSeq(points, 1, r)
             after == SubSeq(points, r + 1, n)
  <1>4. /\ before \in Seq(Point) /\ Len(before) = r
        /\ \A i \in 1..r : before[i] = points[i]
    BY <1>1, <1>2
  <1>5. /\ after \in Seq(Point) /\ Len(after) = n - r
        /\ \A i \in 1..n - r : after[i] = points[r + i]
    BY <1>1, <1>2
  <1> HIDE DEF before, after, n
  <1>6. /\ more \in Seq(Point) /\ Len(more) = n + 1
        /\ \A i \in 1..n + 1 : more[i] = IF i <= r THEN points[i]
                                         ELSE IF i = r + 1 THEN point ELSE points[i - 1]
    <2>1. more = before \o <<point>> \o after
      BY <1>3 DEF before, after
    <2> DEFINE one == <<point>>
               front == before \o one
    <2>2. one \in Seq(Point) /\ Len(one) = 1 /\ one[1] = point
      OBVIOUS
    <2> HIDE DEF one
    <2>3. front \in Seq(Point) /\ Len(front) = r + 1
          /\ \A i \in 1..r + 1 : front[i] = IF i <= r THEN points[i] ELSE point
      <3>0. /\ front \in Seq(Point) /\ Len(front) = Len(before) + Len(one)
            /\ \A i \in 1..Len(before) + Len(one) :
                 front[i] = IF i <= Len(before) THEN before[i] ELSE one[i - Len(before)]
        BY <1>4, <2>2, ConcatProperties
      <3>1. front \in Seq(Point) /\ Len(front) = r + 1
        BY <3>0, <1>4, <2>2
      <3>2. ASSUME NEW i \in 1..r
            PROVE  front[i] = points[i]
        <4>1. i \in 1..Len(before) + Len(one) /\ i <= Len(before)
          BY <1>4, <2>2, <1>2
        <4> HIDE DEF front
        <4> QED BY <1>4, <3>0, <4>1
      <3>3. front[r + 1] = point
        <4>1. r + 1 \in 1..Len(before) + Len(one) /\ ~(r + 1 <= Len(before))
              /\ r + 1 - Len(before) = 1
          BY <1>4, <2>2, <1>2
        <4> HIDE DEF front
        <4> QED BY <2>2, <3>0, <4>1
      <3> HIDE DEF front
      <3> QED BY <1>2, <3>1, <3>2, <3>3
    <2> HIDE DEF front
    <2>4. more = front \o after
      BY <2>1 DEF front, one
    <2>5. more \in Seq(Point) /\ Len(more) = n + 1
      BY <1>1, <1>2, <1>5, <2>3, <2>4
    <2>6. ASSUME NEW i \in 1..n + 1
          PROVE  more[i] = IF i <= r THEN points[i]
                           ELSE IF i = r + 1 THEN point ELSE points[i - 1]
      <3>1. CASE i <= r + 1
        <4>1. i \in 1..r + 1 /\ more[i] = front[i]
          BY <1>1, <1>2, <1>5, <2>3, <2>4, <3>1
        <4> QED BY <1>2, <2>3, <4>1
      <3>2. CASE ~(i <= r + 1)
        <4>1. i - (r + 1) \in 1..n - r /\ more[i] = after[i - (r + 1)]
          BY <1>1, <1>2, <1>5, <2>3, <2>4, <3>2
        <4>2. r + (i - (r + 1)) = i - 1
          BY <1>1, <1>2
        <4> QED BY <1>2, <1>5, <3>2, <4>1, <4>2
      <3> QED BY <3>1, <3>2
    <2> QED BY <2>5, <2>6
  <1>7. DOMAIN more = 1..n + 1
    BY <1>6
  <1>8. ASSUME NEW i \in 1..n + 1, NEW j \in 1..n + 1, i <= j
        PROVE  more[i].hz <= more[j].hz
    <2>1. CASE j <= r
      <3>1. i \in 1..n /\ j \in 1..n /\ i <= r
        BY <1>1, <1>2, <1>8, <2>1
      <3> QED BY <1>1, <1>6, <1>8, <2>1, <3>1
    <2>2. CASE j = r + 1
      <3>1. more[j] = point
        BY <1>2, <1>6, <2>2
      <3>2. CASE i = j
        BY <1>1, <3>1, <3>2
      <3>3. CASE i # j
        <4>1. i \in 1..r /\ more[i] = points[i]
          BY <1>2, <1>6, <1>8, <2>2, <3>3
        <4> QED BY <1>2, <3>1, <4>1
      <3> QED BY <3>2, <3>3
    <2>3. CASE j > r + 1
      <3>1. more[j] = points[j - 1] /\ j - 1 \in r + 1..n /\ j - 1 \in 1..n
        BY <1>1, <1>2, <1>6, <2>3
      <3>2. CASE i <= r
        <4>1. more[i] = points[i] /\ i \in 1..n /\ i <= j - 1
          BY <1>1, <1>2, <1>6, <1>8, <2>3, <3>2
        <4> QED BY <1>1, <3>1, <4>1
      <3>3. CASE i = r + 1
        <4>1. more[i] = point /\ points[j - 1].hz > point.hz
          BY <1>2, <1>6, <3>1, <3>3
        <4> QED BY <1>1, <3>1, <4>1
      <3>4. CASE i > r + 1
        <4>1. more[i] = points[i - 1] /\ i - 1 \in 1..n /\ i - 1 <= j - 1
          BY <1>1, <1>2, <1>6, <1>8, <3>4
        <4> QED BY <1>1, <3>1, <4>1
      <3> QED BY <1>2, <3>2, <3>3, <3>4
    <2> QED BY <1>2, <2>1, <2>2, <2>3
  <1>9. more \in Responding
    BY <1>6, <1>7, <1>8 DEF Responding, Ascending
  <1> QED BY <1>9 DEF more

(* Response::parse makes a list of points in order of frequency.            *)
LEMMA ParseIs ==
  ASSUME NEW rows \in Seq(Row)
  PROVE  Parse(rows) \in Responding
  <1> DEFINE n == Len(rows)
             start == <<>>
             PointOf(k) == [hz |-> rows[k].hz, db |-> rows[k].db]
             next == [k \in 1..n |-> [points \in Responding |->
                        IF ~rows[k].usable THEN points ELSE Sorted(points, PointOf(k))]]
             Parses(f) == f = [k \in 0..n |->
                                 IF k = 0 THEN <<>>
                                 ELSE IF ~rows[k].usable THEN f[k - 1]
                                 ELSE Sorted(f[k - 1], [hz |-> rows[k].hz, db |-> rows[k].db])]
  <1>1. n \in Nat /\ \A k \in 1..n : PointOf(k) \in Point
    <2>1. n \in Nat /\ \A k \in 1..n : rows[k] \in Row
      OBVIOUS
    <2> HIDE DEF n
    <2> QED BY <2>1 DEF Row, Point
  <1>2. start \in Responding
    <2>1. start \in Seq(Point) /\ DOMAIN start = {}
      OBVIOUS
    <2> HIDE DEF start
    <2> QED BY <2>1 DEF Responding, Ascending
  <1>3. \A k \in 1..n : \A points \in Responding :
          (IF ~rows[k].usable THEN points ELSE Sorted(points, PointOf(k))) \in Responding
    <2> HIDE DEF n, PointOf
    <2> QED BY <1>1, SortedIs
  <1>4. next \in [1..n -> [Responding -> Responding]]
    <2> HIDE DEF n, PointOf
    <2> QED BY <1>3
  <1>5. PICK f : Steps(f, Responding, start, n, next)
    <2> HIDE DEF n, start, next
    <2> QED BY <1>1, <1>2, <1>4, StepsExist
  <1>6. /\ f \in [0..n -> Responding]
        /\ \A k \in 0..n : f[k] = IF k = 0 THEN start ELSE next[k][f[k - 1]]
    <2> HIDE DEF n, start, next
    <2> QED BY <1>5 DEF Steps
  <1>7. Parses(f)
    <2>1. ASSUME NEW k \in 0..n
          PROVE  f[k] = IF k = 0 THEN <<>>
                        ELSE IF ~rows[k].usable THEN f[k - 1]
                        ELSE Sorted(f[k - 1], [hz |-> rows[k].hz, db |-> rows[k].db])
      <3>1. CASE k = 0
        BY <1>6, <3>1
      <3>2. CASE k # 0
        <4>1. k \in 1..n /\ k - 1 \in 0..n /\ f[k - 1] \in Responding
          <5>1. k \in 1..n /\ k - 1 \in 0..n
            BY <1>1, <3>2
          <5> HIDE DEF n
          <5> QED BY <1>6, <5>1
        <4>2. f[k] = next[k][f[k - 1]]
          <5> HIDE DEF next, n
          <5> QED BY <1>6, <3>2
        <4>3. next[k][f[k - 1]] = IF ~rows[k].usable THEN f[k - 1]
                                  ELSE Sorted(f[k - 1], PointOf(k))
          <5> HIDE DEF n, PointOf
          <5> QED BY <4>1
        <4> HIDE DEF next, n
        <4> QED BY <3>2, <4>2, <4>3
      <3> QED BY <3>1, <3>2
    <2>2. f = [k \in 0..n |-> f[k]]
      BY <1>6
    <2> HIDE DEF n, next, start
    <2> QED BY <2>1, <2>2
  <1>8. PICK parsed : Parses(parsed) /\ Parse(rows) = parsed[n]
    BY <1>7, Zenon DEF Parse
  <1> DEFINE T == {k \in 0..n : parsed[k] \in Responding}
  <1>9. 0 \in T
    <2>1. parsed[0] = start
      BY <1>1, <1>8
    <2> HIDE DEF start, n, Parses
    <2> QED BY <1>1, <1>2, <2>1
  <1>10. ASSUME NEW k \in 1..n, k - 1 \in T
         PROVE  k \in T
    <2>1. k \in 0..n /\ k # 0
      BY <1>1
    <2>2. parsed[k] = IF ~rows[k].usable THEN parsed[k - 1]
                      ELSE Sorted(parsed[k - 1], PointOf(k))
      BY <1>8, <2>1
    <2>3. parsed[k - 1] \in Responding
      BY <1>10
    <2> HIDE DEF n, PointOf, Parses
    <2>4. parsed[k] \in Responding
      BY <1>3, <2>2, <2>3
    <2> QED BY <2>1, <2>4
  <1>11. n \in T
    <2>1. n \in 0..n
      BY <1>1
    <2> HIDE DEF T, n
    <2> QED BY <1>1, <1>9, <1>10, <2>1, Climbs
  <1> HIDE DEF n, Parses
  <1> QED BY <1>8, <1>11

(* Within the span of a list there is a first point not below a frequency.  *)
LEMMA FirstFromIs ==
  ASSUME NEW points \in Responding, NEW hz \in Int, HasLevel(points, hz)
  PROVE  LET i == FirstFrom(points, hz)
         IN  /\ i \in 1..Len(points) /\ points[i].hz >= hz
             /\ \A j \in 1..i - 1 : points[j].hz < hz
  <1> DEFINE n == Len(points)
             Found(i) == points[i].hz >= hz /\ \A j \in 1..i - 1 : points[j].hz < hz
             From == {i \in 1..n : points[i].hz >= hz}
  <1>1. /\ points \in Seq(Point) /\ n \in Nat /\ DOMAIN points = 1..n
        /\ \A i \in 1..n : points[i].hz \in Int
    BY RespondingIs
  <1>2. points # <<>> /\ hz <= points[n].hz
    BY DEF HasLevel
  <1>3. n \in 1..n
    BY <1>1, <1>2
  <1>4. From # {} /\ From \in SUBSET Nat
    <2> HIDE DEF n
    <2> QED BY <1>1, <1>2, <1>3
  <1>5. PICK m \in From : \A j \in From : m <= j
    <2> HIDE DEF From
    <2> QED BY <1>4, LeastIs
  <1>6. m \in 1..n /\ points[m].hz >= hz
    BY <1>5
  <1>7. ASSUME NEW j \in 1..m - 1
        PROVE  points[j].hz < hz
    <2>1. j \in 1..n /\ ~(m <= j)
      BY <1>1, <1>6
    <2>2. j \notin From
      <3> HIDE DEF From
      <3> QED BY <1>5, <2>1
    <2> HIDE DEF n
    <2> QED BY <1>1, <2>1, <2>2
  <1>8. FirstFrom(points, hz) = CHOOSE i \in 1..n : Found(i)
    BY <1>1 DEF FirstFrom
  <1>9. \E i \in 1..n : Found(i)
    BY <1>6, <1>7
  <1> DEFINE i == CHOOSE i \in 1..n : Found(i)
  <1> HIDE DEF Found, n
  <1>10. i \in 1..n /\ Found(i)
    BY <1>9
  <1> HIDE DEF i
  <1>11. FirstFrom(points, hz) = i
    BY <1>8 DEF i
  <1> QED BY <1>10, <1>11 DEF Found, n

(* Response::level_at gives a number wherever it gives a level.             *)
LEMMA LevelIs ==
  ASSUME NEW points \in Responding, NEW hz \in Int, HasLevel(points, hz)
  PROVE  LevelAt(points, hz) \in Int
  <1> DEFINE i == FirstFrom(points, hz)
  <1>1. /\ \A j \in 1..Len(points) : points[j].hz \in Int /\ points[j].db \in Int
        /\ Len(points) \in Nat
    BY RespondingIs
  <1>2. /\ i \in 1..Len(points) /\ points[i].hz >= hz
        /\ \A j \in 1..i - 1 : points[j].hz < hz
    BY FirstFromIs
  <1>3. points[1].hz <= hz
    BY DEF HasLevel
  <1>4. LevelAt(points, hz) =
          IF points[i].hz = hz THEN points[i].db
          ELSE points[i - 1].db + ((hz - points[i - 1].hz) * (points[i].db - points[i - 1].db))
                                  \div (points[i].hz - points[i - 1].hz)
    BY DEF LevelAt
  <1> HIDE DEF i
  <1>5. CASE points[i].hz = hz
    BY <1>1, <1>2, <1>4, <1>5
  <1>6. CASE points[i].hz # hz
    <2>1. i # 1
      BY <1>1, <1>2, <1>3, <1>6
    <2>2. i - 1 \in 1..i - 1 /\ i - 1 \in 1..Len(points)
      BY <1>1, <1>2, <2>1
    <2> DEFINE rise == (hz - points[i - 1].hz) * (points[i].db - points[i - 1].db)
               gap == points[i].hz - points[i - 1].hz
    <2>3. rise \in Int
      BY <1>1, <1>2, <2>2
    <2>4. gap \in Int /\ gap > 0
      BY <1>1, <1>2, <1>6, <2>2
    <2>5. LevelAt(points, hz) = points[i - 1].db + rise \div gap
      BY <1>4, <1>6
    <2> HIDE DEF rise, gap
    <2>6. rise \div gap \in Int
      BY <2>3, <2>4
    <2> QED BY <1>1, <2>2, <2>5, <2>6
  <1> QED BY <1>5, <1>6

(* At the frequency of one of its points a list has a level.                *)
LEMMA HasLevelThere ==
  ASSUME NEW points \in Responding, NEW i \in DOMAIN points
  PROVE  HasLevel(points, points[i].hz)
  <1>1. /\ points \in Seq(Point) /\ Len(points) \in Nat /\ DOMAIN points = 1..Len(points)
        /\ \A j, k \in 1..Len(points) : j <= k => points[j].hz <= points[k].hz
    BY RespondingIs
  <1>2. i \in 1..Len(points) /\ 1 \in 1..Len(points) /\ Len(points) \in 1..Len(points)
    BY <1>1
  <1>3. points # <<>>
    BY <1>2
  <1>4. points[1].hz <= points[i].hz /\ points[i].hz <= points[Len(points)].hz
    BY <1>1, <1>2
  <1> QED BY <1>3, <1>4 DEF HasLevel

IsCompared(reference, from, to, point) ==
  from <= point.hz /\ point.hz <= to /\ HasLevel(reference, point.hz)

Off(reference, point) == [hz |-> point.hz, db |-> point.db - LevelAt(reference, point.hz)]

(* Every point of the subject that can be compared is among the differences. *)
LEMMA DifferencesAre ==
  ASSUME NEW subject \in Responding, NEW reference \in Responding, NEW from, NEW to
  PROVE  LET off == Differences(subject, reference, from, to)
         IN  /\ off \in Seq(Point)
             /\ \A i \in 1..Len(subject) : IsCompared(reference, from, to, subject[i]) =>
                  \E j \in 1..Len(off) : off[j] = Off(reference, subject[i])
  <1> DEFINE n == Len(subject)
             lists == Seq(Point)
             start == <<>>
             Taken(k) == IsCompared(reference, from, to, subject[k])
             next == [k \in 1..n |-> [list \in lists |->
                        IF ~Taken(k) THEN list ELSE Append(list, Off(reference, subject[k]))]]
             Takes(f) == f = [k \in 0..n |->
                                IF k = 0 THEN <<>>
                                ELSE IF ~(from <= subject[k].hz /\ subject[k].hz <= to
                                          /\ HasLevel(reference, subject[k].hz)) THEN f[k - 1]
                                ELSE Append(f[k - 1],
                                       [hz |-> subject[k].hz,
                                        db |-> subject[k].db - LevelAt(reference, subject[k].hz)])]
  <1>1. n \in Nat /\ \A k \in 1..n : Taken(k) => Off(reference, subject[k]) \in Point
    <2>1. n \in Nat /\ \A k \in 1..n : subject[k].hz \in Int /\ subject[k].db \in Int
      BY RespondingIs
    <2>2. ASSUME NEW k \in 1..n, Taken(k)
          PROVE  LevelAt(reference, subject[k].hz) \in Int
      <3>1. HasLevel(reference, subject[k].hz) /\ subject[k].hz \in Int
        BY <2>1, <2>2 DEF IsCompared
      <3> QED BY <3>1, LevelIs
    <2> HIDE DEF n, Taken
    <2> QED BY <2>1, <2>2 DEF Off, Point
  <1>2. start \in lists
    OBVIOUS
  <1>3. \A k \in 1..n : \A list \in lists :
          (IF ~Taken(k) THEN list ELSE Append(list, Off(reference, subject[k]))) \in lists
    <2> HIDE DEF n, Taken
    <2> QED BY <1>1
  <1>4. next \in [1..n -> [lists -> lists]]
    <2> HIDE DEF n, Taken, lists
    <2> QED BY <1>3
  <1>5. PICK f : Steps(f, lists, start, n, next)
    <2> HIDE DEF n, start, next, lists
    <2> QED BY <1>1, <1>2, <1>4, StepsExist
  <1>6. /\ f \in [0..n -> lists]
        /\ \A k \in 0..n : f[k] = IF k = 0 THEN start ELSE next[k][f[k - 1]]
    <2> HIDE DEF n, start, next, lists
    <2> QED BY <1>5 DEF Steps
  <1>7. Takes(f)
    <2>1. ASSUME NEW k \in 0..n
          PROVE  f[k] = IF k = 0 THEN <<>>
                        ELSE IF ~(from <= subject[k].hz /\ subject[k].hz <= to
                                  /\ HasLevel(reference, subject[k].hz)) THEN f[k - 1]
                        ELSE Append(f[k - 1],
                               [hz |-> subject[k].hz,
                                db |-> subject[k].db - LevelAt(reference, subject[k].hz)])
      <3>1. CASE k = 0
        BY <1>6, <3>1
      <3>2. CASE k # 0
        <4>1. k \in 1..n /\ k - 1 \in 0..n /\ f[k - 1] \in lists
          <5>1. k \in 1..n /\ k - 1 \in 0..n
            BY <1>1, <3>2
          <5> HIDE DEF n, lists
          <5> QED BY <1>6, <5>1
        <4>2. f[k] = next[k][f[k - 1]]
          <5> HIDE DEF next, n, lists
          <5> QED BY <1>6, <3>2
        <4>3. next[k][f[k - 1]] = IF ~Taken(k) THEN f[k - 1]
                                  ELSE Append(f[k - 1], Off(reference, subject[k]))
          <5> HIDE DEF n, Taken, lists
          <5> QED BY <4>1
        <4> HIDE DEF next, n, lists
        <4> QED BY <3>2, <4>2, <4>3 DEF IsCompared, Off
      <3> QED BY <3>1, <3>2
    <2>2. f = [k \in 0..n |-> f[k]]
      BY <1>6
    <2> HIDE DEF n, next, start, lists
    <2> QED BY <2>1, <2>2
  <1>8. PICK off : Takes(off) /\ Differences(subject, reference, from, to) = off[n]
    BY <1>7, Zenon DEF Differences
  <1>9. \A k \in 0..n :
          off[k] = IF k = 0 THEN <<>>
                   ELSE IF ~Taken(k) THEN off[k - 1]
                   ELSE Append(off[k - 1], Off(reference, subject[k]))
    <2> HIDE DEF n
    <2> QED BY <1>8 DEF IsCompared, Off
  <1> DEFINE Listed(k) == \A i \in 1..k : Taken(i) =>
                            \E j \in 1..Len(off[k]) : off[k][j] = Off(reference, subject[i])
             T == {k \in 0..n : off[k] \in Seq(Point) /\ Listed(k)}
  <1> HIDE DEF Takes
  <1>10. 0 \in T
    <2>1. 0 \in 0..n /\ off[0] = <<>>
      BY <1>1, <1>9
    <2>2. off[0] \in Seq(Point)
      BY <2>1
    <2>3. \A i \in 1..0 : FALSE
      OBVIOUS
    <2>4. Listed(0)
      <3> HIDE DEF Taken
      <3> QED BY <2>3
    <2> HIDE DEF Listed, n
    <2> QED BY <2>1, <2>2, <2>4
  <1>11. ASSUME NEW k \in 1..n, k - 1 \in T
         PROVE  k \in T
    <2>1. k \in 0..n /\ k # 0 /\ k - 1 \in 0..n
      BY <1>1
    <2>2. off[k] = IF ~Taken(k) THEN off[k - 1]
                   ELSE Append(off[k - 1], Off(reference, subject[k]))
      <3> HIDE DEF n, Taken
      <3> QED BY <1>9, <2>1
    <2>3. off[k - 1] \in Seq(Point) /\ Listed(k - 1)
      <3> HIDE DEF Listed
      <3> QED BY <1>11
    <2> DEFINE before == off[k - 1]
               p == Off(reference, subject[k])
    <2>4. before \in Seq(Point)
          /\ \A i \in 1..k - 1 : Taken(i) =>
               \E j \in 1..Len(before) : before[j] = Off(reference, subject[i])
      BY <2>3
    <2>5. CASE ~Taken(k)
      <3>1. off[k] = before
        BY <2>2, <2>5
      <3>2. ASSUME NEW i \in 1..k, Taken(i)
            PROVE  \E j \in 1..Len(off[k]) : off[k][j] = Off(reference, subject[i])
        <4>1. i # k
          BY <2>5, <3>2
        <4>2. i \in 1..k - 1
          BY <4>1, <1>1
        <4> HIDE DEF before, Taken
        <4> QED BY <2>4, <3>1, <3>2, <4>2
      <3> HIDE DEF Taken, n, before
      <3> QED BY <2>1, <2>4, <3>1, <3>2
    <2>6. CASE Taken(k)
      <3>1. off[k] = Append(before, p)
        BY <2>2, <2>6
      <3>2. p \in Point
        <4> HIDE DEF Taken, n
        <4> QED BY <1>1, <2>6
      <3> HIDE DEF before, p
      <3>3. /\ off[k] \in Seq(Point) /\ Len(off[k]) = Len(before) + 1
            /\ off[k][Len(before) + 1] = p
            /\ \A j \in 1..Len(before) : off[k][j] = before[j]
        BY <2>4, <3>1, <3>2
      <3>4. Len(before) \in Nat
        BY <2>4
      <3>5. ASSUME NEW i \in 1..k, Taken(i)
            PROVE  \E j \in 1..Len(off[k]) : off[k][j] = Off(reference, subject[i])
        <4>1. CASE i = k
          <5>1. p = Off(reference, subject[i])
            BY <4>1 DEF p
          <5>2. Len(before) + 1 \in 1..Len(off[k])
            BY <3>3, <3>4
          <5> QED BY <3>3, <5>1, <5>2
        <4>2. CASE i # k
          <5>1. i \in 1..k - 1
            BY <4>2, <1>1
          <5>2. PICK j \in 1..Len(before) : before[j] = Off(reference, subject[i])
            <6> HIDE DEF Taken
            <6> QED BY <2>4, <3>5, <5>1
          <5>3. j \in 1..Len(off[k]) /\ off[k][j] = before[j]
            BY <3>3, <3>4
          <5> QED BY <5>2, <5>3
        <4> QED BY <4>1, <4>2
      <3> HIDE DEF Taken, n
      <3> QED BY <2>1, <3>3, <3>5
    <2> QED BY <2>5, <2>6
  <1>12. n \in T
    <2>1. n \in 0..n
      BY <1>1
    <2> HIDE DEF T, n
    <2> QED BY <1>1, <1>10, <1>11, <2>1, Climbs
  <1>13. off[n] \in Seq(Point) /\ Listed(n)
    <2> HIDE DEF Listed, n
    <2> QED BY <1>12
  <1> HIDE DEF Taken
  <1>14. \A i \in 1..Len(subject) : Taken(i) =>
           \E j \in 1..Len(off[n]) : off[n][j] = Off(reference, subject[i])
    BY <1>13
  <1> HIDE DEF n
  <1> QED BY <1>8, <1>13, <1>14 DEF Taken

(* Whole levels have a whole sum.                                           *)
LEMMA TotalIs ==
  ASSUME NEW differences \in Seq(Point)
  PROVE  Total(differences) \in Int
  <1> DEFINE n == Len(differences)
             next == [k \in 1..n |-> [sum \in Int |-> sum + differences[k].db]]
             Sums(f) == f = [k \in 0..n |->
                               IF k = 0 THEN 0 ELSE f[k - 1] + differences[k].db]
  <1>1. n \in Nat /\ \A k \in 1..n : differences[k].db \in Int
    <2>1. n \in Nat /\ \A k \in 1..n : differences[k] \in Point
      OBVIOUS
    <2> HIDE DEF n
    <2> QED BY <2>1 DEF Point
  <1>2. next \in [1..n -> [Int -> Int]]
    <2> HIDE DEF n
    <2> QED BY <1>1
  <1>3. PICK f : Steps(f, Int, 0, n, next)
    <2>1. 0 \in Int
      OBVIOUS
    <2> HIDE DEF n, next
    <2> QED BY <1>1, <1>2, <2>1, StepsExist
  <1>4. /\ f \in [0..n -> Int]
        /\ \A k \in 0..n : f[k] = IF k = 0 THEN 0 ELSE next[k][f[k - 1]]
    <2> HIDE DEF n, next
    <2> QED BY <1>3 DEF Steps
  <1>5. Sums(f)
    <2>1. ASSUME NEW k \in 0..n
          PROVE  f[k] = IF k = 0 THEN 0 ELSE f[k - 1] + differences[k].db
      <3>1. CASE k = 0
        <4> HIDE DEF n, next
        <4> QED BY <1>4, <3>1
      <3>2. CASE k # 0
        <4>1. k \in 1..n /\ k - 1 \in 0..n /\ f[k - 1] \in Int
          <5>1. k \in 1..n /\ k - 1 \in 0..n
            BY <1>1, <3>2
          <5> HIDE DEF n
          <5> QED BY <1>4, <5>1
        <4>2. f[k] = next[k][f[k - 1]]
          <5> HIDE DEF next, n
          <5> QED BY <1>4, <3>2
        <4>3. next[k][f[k - 1]] = f[k - 1] + differences[k].db
          <5> HIDE DEF n
          <5> QED BY <4>1
        <4> HIDE DEF next, n
        <4> QED BY <3>2, <4>2, <4>3
      <3> QED BY <3>1, <3>2
    <2>2. f = [k \in 0..n |-> f[k]]
      BY <1>4
    <2> HIDE DEF n, next
    <2> QED BY <2>1, <2>2
  <1>6. PICK sum : Sums(sum) /\ Total(differences) = sum[n]
    BY <1>5, Zenon DEF Total
  <1>7. \A k \in 0..n : sum[k] = IF k = 0 THEN 0 ELSE sum[k - 1] + differences[k].db
    <2> HIDE DEF n
    <2> QED BY <1>6
  <1> DEFINE T == {k \in 0..n : sum[k] \in Int}
  <1> HIDE DEF Sums
  <1>8. 0 \in T
    <2>1. 0 \in 0..n
      BY <1>1
    <2> HIDE DEF n
    <2> QED BY <1>7, <2>1
  <1>9. ASSUME NEW k \in 1..n, k - 1 \in T
        PROVE  k \in T
    <2>1. k \in 0..n /\ k # 0 /\ sum[k - 1] \in Int
      BY <1>1, <1>9
    <2> HIDE DEF n
    <2> QED BY <1>1, <1>7, <2>1
  <1>10. n \in T
    <2>1. n \in 0..n
      BY <1>1
    <2> HIDE DEF T, n
    <2> QED BY <1>1, <1>8, <1>9, <2>1, Climbs
  <1> HIDE DEF n
  <1> QED BY <1>6, <1>10

(* worst finds a largest magnitude.                                         *)
LEMMA WorstIs ==
  ASSUME NEW n \in Nat \ {0}, NEW levels \in [1..n -> Int]
  PROVE  /\ Worst(levels) \in 1..n
         /\ \A j \in 1..n : Unsigned(levels[j]) <= Unsigned(levels[Worst(levels)])
  <1> DEFINE size == [j \in 1..n |-> Unsigned(levels[j])]
             Yields(j, i) == \/ size[j] < size[i]
                             \/ size[j] = size[i] /\ j <= i
             Largest(i, k) == i \in 1..k /\ \A j \in 1..k : Yields(j, i)
             T == {k \in 0..n : k = 0 \/ \E i \in 1..k : Largest(i, k)}
  <1>1. \A j \in 1..n : size[j] \in Int
    BY DEF Unsigned
  <1> HIDE DEF size
  <1>2. 0 \in T
    OBVIOUS
  <1>3. ASSUME NEW k \in 1..n, k - 1 \in T
        PROVE  k \in T
    <2>1. k \in 0..n /\ size[k] \in Int
      BY <1>1
    <2>2. CASE k = 1
      <3>1. Largest(k, k)
        BY <2>1, <2>2
      <3> HIDE DEF Largest
      <3> QED BY <2>1, <3>1
    <2>3. CASE k # 1
      <3>1. PICK i \in 1..k - 1 : Largest(i, k - 1)
        <4> HIDE DEF Largest
        <4> QED BY <1>3, <2>3
      <3>2. size[i] \in Int /\ i \in 1..k /\ k \in 1..k /\ k = (k - 1) + 1
        BY <1>1, <3>1
      <3>3. \A j \in 1..k - 1 : Yields(j, i)
        <4> HIDE DEF Yields
        <4> QED BY <3>1
      <3>4. CASE size[i] <= size[k]
        <4>1. ASSUME NEW j \in 1..k
              PROVE  Yields(j, k)
          <5>1. CASE j = k
            BY <5>1
          <5>2. CASE j # k
            <6>1. j \in 1..k - 1 /\ j \in 1..n /\ j <= k
              BY <5>2
            <6>2. Yields(j, i)
              <7> HIDE DEF Yields
              <7> QED BY <3>3, <6>1
            <6> QED BY <1>1, <2>1, <3>2, <3>4, <6>1, <6>2
          <5> QED BY <5>1, <5>2
        <4>2. Largest(k, k)
          <5> HIDE DEF Yields
          <5> QED BY <4>1
        <4> HIDE DEF Largest
        <4> QED BY <2>1, <3>2, <4>2
      <3>5. CASE ~(size[i] <= size[k])
        <4>1. ASSUME NEW j \in 1..k
              PROVE  Yields(j, i)
          <5>1. CASE j = k
            BY <2>1, <3>2, <3>5, <5>1
          <5>2. CASE j # k
            <6>1. j \in 1..k - 1
              BY <5>2
            <6> HIDE DEF Yields
            <6> QED BY <3>3, <6>1
          <5> QED BY <5>1, <5>2
        <4>2. Largest(i, k)
          <5> HIDE DEF Yields
          <5> QED BY <3>2, <4>1
        <4> HIDE DEF Largest
        <4> QED BY <2>1, <3>2, <4>2
      <3> QED BY <3>4, <3>5
    <2> QED BY <2>2, <2>3
  <1>4. n \in T
    <2>1. n \in 0..n /\ n \in Nat
      OBVIOUS
    <2> HIDE DEF T
    <2> QED BY <1>2, <1>3, <2>1, Climbs
  <1>5. PICK i \in 1..n : Largest(i, n)
    <2> HIDE DEF Largest
    <2> QED BY <1>4
  <1>6. Worst(levels) = CHOOSE w \in 1..n : \A j \in 1..n : Yields(j, w)
    <2>1. \A j \in 1..n : size[j] = Unsigned(levels[j])
      BY DEF size
    <2>2. DOMAIN levels = 1..n
      OBVIOUS
    <2>3. \A w \in 1..n : (\A j \in 1..n : Yields(j, w)) <=>
            \A j \in 1..n : \/ Unsigned(levels[j]) < Unsigned(levels[w])
                            \/ Unsigned(levels[j]) = Unsigned(levels[w]) /\ j <= w
      BY <2>1
    <2> HIDE DEF Yields
    <2>4. (CHOOSE w \in 1..n : \A j \in 1..n : Yields(j, w)) =
          (CHOOSE w \in 1..n : \A j \in 1..n :
              \/ Unsigned(levels[j]) < Unsigned(levels[w])
              \/ Unsigned(levels[j]) = Unsigned(levels[w]) /\ j <= w)
      BY <2>3
    <2> QED BY <2>2, <2>4 DEF Worst
  <1>7. \A j \in 1..n : Yields(j, i)
    <2> HIDE DEF Yields
    <2> QED BY <1>5
  <1> DEFINE w == CHOOSE w \in 1..n : \A j \in 1..n : Yields(j, w)
  <1>8. w \in 1..n /\ \A j \in 1..n : Yields(j, w)
    <2> HIDE DEF Yields
    <2> QED BY <1>7
  <1> HIDE DEF w
  <1>9. Worst(levels) = w
    BY <1>6 DEF w
  <1>10. \A j \in 1..n : size[j] <= size[w]
    BY <1>1, <1>8
  <1> QED BY <1>8, <1>9, <1>10 DEF size

(* What the mean leaves of each difference bounds the difference of any two. *)
LEMMA CloseToTheMean ==
  ASSUME NEW n \in Nat \ {0}, NEW a \in Int, NEW b \in Int, NEW total \in Int,
         NEW tolerance \in Int,
         Unsigned(n * a - total) <= tolerance * n, Unsigned(n * b - total) <= tolerance * n
  PROVE  a - b <= 2 * tolerance
  <1> DEFINE na == n * a
             nb == n * b
             nt == n * tolerance
  <1>1. na \in Int /\ nb \in Int /\ nt \in Int /\ tolerance * n = nt
    BY Z3
  <1>2. Unsigned(na - total) <= nt /\ Unsigned(nb - total) <= nt
    BY <1>1
  <1>3. na - nb <= nt + nt
    <2> HIDE DEF na, nb, nt
    <2> QED BY <1>1, <1>2 DEF Unsigned
  <1>4. SUFFICES ASSUME a - b >= 2 * tolerance + 1
                 PROVE  FALSE
    BY Z3
  <1>5. n * (a - b) >= n * (2 * tolerance + 1)
    BY <1>4, Z3
  <1>6. n * (a - b) = na - nb /\ n * (2 * tolerance + 1) = nt + nt + n
    BY Z3
  <1> HIDE DEF na, nb, nt
  <1> QED BY <1>1, <1>3, <1>5, <1>6

(* Comparison::agrees_within, of a summary: no two differences are farther  *)
(* apart than twice the tolerance.                                          *)
LEMMA AgreementBounds ==
  ASSUME NEW differences \in Seq(Point), NEW reference, NEW tolerance \in Int,
         AgreesWithin(Summary(differences, reference), tolerance)
  PROVE  /\ Summary(differences, reference).compared > 0
         /\ \A i, j \in 1..Len(differences) :
              differences[i].db - differences[j].db <= 2 * tolerance
  <1> DEFINE n == Len(differences)
             total == Total(differences)
             as_measured == [i \in DOMAIN differences |-> differences[i].db]
             offset_removed == [i \in DOMAIN differences |-> n * differences[i].db - total]
             exact == {i \in DOMAIN differences :
                         \E j \in DOMAIN reference : reference[j].hz = differences[i].hz}
             after == Worst(offset_removed)
             made == [compared |-> n, interpolated |-> n - Cardinality(exact), offset |-> total,
                      max |-> as_measured[Worst(as_measured)],
                      maxHz |-> differences[Worst(as_measured)].hz,
                      maxAfter |-> Unsigned(offset_removed[after]),
                      maxAfterHz |-> differences[after].hz]
  <1>1. Summary(differences, reference) = IF n = 0 THEN [compared |-> 0] ELSE made
    BY DEF Summary
  <1>2. n \in Nat /\ DOMAIN differences = 1..n
    OBVIOUS
  <1>3. n # 0
    <2>1. ~([compared |-> 0].compared > 0)
      OBVIOUS
    <2> HIDE DEF made, n
    <2> QED BY <1>1, <2>1 DEF AgreesWithin
  <1>4. Summary(differences, reference) = made
    <2> HIDE DEF made, n
    <2> QED BY <1>1, <1>3
  <1>5. made.compared = n /\ made.maxAfter = Unsigned(offset_removed[after])
    <2> HIDE DEF n, total, as_measured, offset_removed, exact, after
    <2> QED OBVIOUS
  <1>6. total \in Int
    BY TotalIs
  <1>7. \A i \in 1..n : differences[i].db \in Int
    <2>1. \A i \in 1..n : differences[i] \in Point
      OBVIOUS
    <2> HIDE DEF n
    <2> QED BY <2>1 DEF Point
  <1>8. /\ \A i \in 1..n : offset_removed[i] = n * differences[i].db - total
        /\ offset_removed \in [1..n -> Int]
    <2> HIDE DEF n, total
    <2> QED BY <1>2, <1>6, <1>7
  <1> HIDE DEF made, offset_removed, n, total
  <1>9. \A j \in 1..n : Unsigned(offset_removed[j]) <= Unsigned(offset_removed[after])
        /\ after \in 1..n
    BY <1>2, <1>3, <1>8, WorstIs
  <1> HIDE DEF after
  <1>10. Unsigned(offset_removed[after]) <= tolerance * n
    BY <1>4, <1>5 DEF AgreesWithin
  <1>11. ASSUME NEW i \in 1..n
         PROVE  Unsigned(n * differences[i].db - total) <= tolerance * n
    <2>1. after \in 1..n /\ offset_removed[i] \in Int /\ offset_removed[after] \in Int
      BY <1>8, <1>9
    <2>2. Unsigned(offset_removed[i]) \in Int /\ Unsigned(offset_removed[after]) \in Int
      BY <2>1 DEF Unsigned
    <2>3. tolerance * n \in Int
      BY <1>2
    <2>4. Unsigned(offset_removed[i]) <= tolerance * n
      BY <1>9, <1>10, <2>2, <2>3
    <2> QED BY <1>8, <2>4
  <1>12. ASSUME NEW i \in 1..n, NEW j \in 1..n
         PROVE  differences[i].db - differences[j].db <= 2 * tolerance
    BY <1>2, <1>3, <1>6, <1>7, <1>11, CloseToTheMean
  <1>13. made.compared > 0
    BY <1>2, <1>3, <1>5
  <1> QED BY <1>4, <1>12, <1>13 DEF n

(* compare: when two lists agree within a tolerance, the shapes differ by no *)
(* more than it allows at the frequencies both have.                         *)
LEMMA ComparisonBounds ==
  ASSUME NEW subject \in Responding, NEW reference \in Responding, NEW from, NEW to,
         NEW tolerance \in Int, AgreesWithin(Compare(subject, reference, from, to), tolerance),
         NEW i \in DOMAIN subject, NEW j \in DOMAIN subject,
         \A k \in {i, j} : /\ from <= subject[k].hz /\ subject[k].hz <= to
                           /\ \E r \in DOMAIN reference : reference[r].hz = subject[k].hz
  PROVE  Off(reference, subject[i]).db - Off(reference, subject[j]).db <= 2 * tolerance
  <1> DEFINE off == Differences(subject, reference, from, to)
  <1>1. /\ off \in Seq(Point)
        /\ \A k \in 1..Len(subject) : IsCompared(reference, from, to, subject[k]) =>
             \E m \in 1..Len(off) : off[m] = Off(reference, subject[k])
    BY DifferencesAre
  <1>2. AgreesWithin(Summary(off, reference), tolerance)
    BY DEF Compare
  <1>3. DOMAIN subject = 1..Len(subject)
    BY RespondingIs
  <1>4. ASSUME NEW k \in {i, j}
        PROVE  k \in 1..Len(subject) /\ IsCompared(reference, from, to, subject[k])
    <2>1. PICK r \in DOMAIN reference : reference[r].hz = subject[k].hz
      OBVIOUS
    <2>2. HasLevel(reference, subject[k].hz)
      BY <2>1, HasLevelThere
    <2> QED BY <1>3, <2>2 DEF IsCompared
  <1> HIDE DEF off
  <1>5. PICK m \in 1..Len(off) : off[m] = Off(reference, subject[i])
    BY <1>1, <1>4
  <1>6. PICK p \in 1..Len(off) : off[p] = Off(reference, subject[j])
    BY <1>1, <1>4
  <1>7. off[m].db - off[p].db <= 2 * tolerance
    BY <1>1, <1>2, AgreementBounds
  <1> QED BY <1>5, <1>6, <1>7

------------------------------------------------------------------------------
(* The invariant. *)

(* A run whose report has been made, or has been given with status 0.       *)
Settled(modes) ==
  /\ task.status = "run" /\ task.mode \in modes
  /\ step = "reporting" \/ exit = 0

(* Every file is one, before and during a run.                              *)
FilesInv == \A disk \in {files, taken} : \A path \in DOMAIN disk : IsFile(disk[path])

(* Where a run is, what it is doing, and how it ended.                      *)
ControlInv ==
  /\ step \in {"idle", "parsed", "pumping", "draining", "capturing", "reporting"}
  /\ exit \in {-1, 0, 1, Aborted}
  /\ step # "idle" => exit = -1
  /\ step \in {"pumping", "draining", "capturing", "reporting"} => task.status = "run"
  /\ step \in {"pumping", "draining"} => task.mode \in {"wav", "sine"}
  /\ step = "capturing" => task.mode = "live"
  /\ step = "reporting" => report # Nothing
  /\ Runnable(task)

(* Only a generated signal is on the disk before there is a report of it.   *)
UntouchedInv ==
  /\ step \in {"parsed", "pumping", "draining", "capturing"} => files = taken
  /\ step = "reporting" /\ task.mode # "generate" => files = taken

(* Whatever was used could be read.                                         *)
UsedInv ==
  /\ step \in {"pumping", "draining"} => Analysable(taken, task.mode, task.args)
  /\ Settled({"wav", "sine"}) => CanLoad(taken, task.mode, task.args)
  /\ Settled({"measure"}) => /\ CanRead(Content(taken, task.args.stimulus))
                             /\ CanRead(Content(taken, task.args.response))

(* The source of the analysis, one of its frames as the ring holds it, and  *)
(* the sample of it that is asked for.                                      *)
Source == LoadSource(taken, task.mode, task.args)
FrameAt(frame) ==
  [slot \in 1..Source.channels |-> Source.samples[(frame - 1) * Source.channels + slot]]
SampleAt(frame) == Source.samples[(frame - 1) * Source.channels + task.args.channel + 1]
Frames == {FrameAt(frame) : frame \in 1..SourceFrames(Source)}
Samples == {SampleAt(frame) : frame \in 1..SourceFrames(Source)}

(* While nothing was dropped, what the analyser has and what the ring holds *)
(* are the source up to where the stream stands, in order.                  *)
FedInv ==
  /\ step = "parsed" => ring = <<>> /\ fed = <<>> /\ overruns = 0
  /\ step = "pumping" => ring = <<>>
  /\ step \in {"pumping", "draining"} =>
       /\ stream \in [source : {Source}, inputs : {Config(Source).inputs},
                      block : {task.args.block}, position : 0..SourceFrames(Source)]
       /\ ring \in Seq(Frames) /\ fed \in Seq(Samples) /\ overruns \in Nat
       /\ overruns = 0 =>
            /\ Len(fed) + Len(ring) = stream.position
            /\ \A i \in 1..Len(fed) : fed[i] = SampleAt(i)
            /\ \A i \in 1..Len(ring) : ring[i] = FrameAt(Len(fed) + i)

HeardInv ==
  Settled({"wav", "sine"}) => report.heard = [frame \in 1..SourceFrames(Source) |-> SampleAt(frame)]

GeneratedInv ==
  Settled({"generate"}) =>
    files = With(taken, task.args.out, GeneratedFile(task.args, SignalFrames(task.args)))

(* Together they are kept by every step; of a run that failed nothing more  *)
(* has to be known than FailureIsContained.                              *)
HarnessInv ==
  /\ FilesInv /\ ControlInv /\ UntouchedInv /\ UsedInv /\ FedInv
  /\ HeardInv /\ GeneratedInv /\ FailureIsContained

(* A file written among files leaves files.                                 *)
LEMMA WithKeepsFiles ==
  ASSUME NEW disk, \A path \in DOMAIN disk : IsFile(disk[path]),
         NEW at, NEW content, IsFile(content)
  PROVE  \A path \in DOMAIN With(disk, at, content) : IsFile(With(disk, at, content)[path])
  <1> DEFINE more == With(disk, at, content)
  <1>1. /\ DOMAIN more = DOMAIN disk \union {at}
        /\ \A path \in DOMAIN disk \union {at} :
             more[path] = IF path = at THEN content ELSE disk[path]
    BY DEF With
  <1> HIDE DEF more
  <1>2. \A path \in DOMAIN more : IsFile(more[path])
    BY <1>1
  <1> QED BY <1>2 DEF more

(* What reads as audio is neither a torn header nor a report.               *)
LEMMA NotAudio ==
  /\ IsFile(Torn) /\ ~CanRead(Torn)
  /\ \A rows \in TableRows : /\ IsFile(ReportFile(rows)) /\ ~CanRead(ReportFile(rows))
                             /\ ReportFile(rows).kind = "report" /\ ReportFile(rows).rows = rows
  BY DEF Torn, IsFile, CanRead, InitMemory, Tables, ReportFile

(* A mode's report lists rows, or nothing.                                  *)
LEMMA RowsMadeAre ==
  ASSUME NEW mode
  PROVE  RowsMade(mode) \in TableRows
  <1>1. <<>> \in TableRows
    BY DEF TableRows
  <1> QED BY <1>1, HarnessAssumption DEF RowsMade

(* What a full disk has of a report is where that report starts.            *)
LEMMA RowsLeftAre ==
  ASSUME NEW whole \in TableRows, NEW left \in RowsLeft(whole)
  PROVE  left \in TableRows /\ StartOf(left, whole)
  <1>1. whole \in Seq(Row) /\ Len(whole) \in Nat
    BY DEF TableRows, Row
  <1>2. ASSUME NEW n \in 0..Len(whole)
        PROVE  /\ SubSeq(whole, 1, n) \in Seq(Row) /\ Len(SubSeq(whole, 1, n)) = n
               /\ \A i \in 1..n : SubSeq(whole, 1, n)[i] = whole[i]
    BY <1>1
  <1>3. CASE \E n \in 0..Len(whole) : left = SubSeq(whole, 1, n)
    <2>1. PICK n \in 0..Len(whole) : left = SubSeq(whole, 1, n)
      BY <1>3
    <2>2. left \in Seq(Row) /\ Len(left) = n /\ \A i \in 1..n : left[i] = whole[i]
      BY <2>1, <1>2
    <2>3. DOMAIN left = 1..n /\ n <= Len(whole)
      BY <2>2, <1>1
    <2> QED BY <2>2, <2>3 DEF StartOf, TableRows, Row
  <1>4. CASE \E n \in 1..Len(whole), db \in TornLevels :
               left = Append(SubSeq(whole, 1, n - 1), [whole[n] EXCEPT !.db = db])
    <2>1. PICK n \in 1..Len(whole), db \in TornLevels :
            left = Append(SubSeq(whole, 1, n - 1), [whole[n] EXCEPT !.db = db])
      BY <1>4
    <2> DEFINE first == SubSeq(whole, 1, n - 1)
               last == [whole[n] EXCEPT !.db = db]
    <2>2. n - 1 \in 0..Len(whole) /\ n \in Nat
      BY <1>1
    <2>3. /\ first \in Seq(Row) /\ Len(first) = n - 1
          /\ \A i \in 1..(n - 1) : first[i] = whole[i]
      BY <1>2, <2>2
    <2>4. whole[n] \in Row /\ db \in Int
      BY <1>1, HarnessAssumption
    <2>5. last \in Row /\ last.usable = whole[n].usable /\ last.hz = whole[n].hz
      BY <2>4 DEF Row
    <2> HIDE DEF first, last
    <2>6. left = Append(first, last)
      BY <2>1 DEF first, last
    <2>7. /\ left \in Seq(Row) /\ Len(left) = n /\ left[n] = last
          /\ \A i \in 1..(n - 1) : left[i] = first[i]
      BY <2>2, <2>3, <2>5, <2>6
    <2>8. DOMAIN left = 1..n /\ n <= Len(whole)
      BY <2>7, <1>1
    <2>9. ASSUME NEW i \in 1..n
          PROVE  /\ left[i].usable = whole[i].usable /\ left[i].hz = whole[i].hz
                 /\ i < n => left[i] = whole[i]
      <3>1. CASE i = n
        BY <3>1, <2>5, <2>7, <2>2
      <3>2. CASE i # n
        <4>1. i \in 1..(n - 1)
          BY <3>2, <2>2
        <4> QED BY <4>1, <2>3, <2>7
      <3> QED BY <3>1, <3>2
    <2> QED BY <2>7, <2>8, <2>9 DEF StartOf, TableRows, Row
  <1>5. left \in UNION {CutAt(whole, n) : n \in 1..Len(whole)} =>
          \E n \in 1..Len(whole), db \in TornLevels :
            left = Append(SubSeq(whole, 1, n - 1), [whole[n] EXCEPT !.db = db])
    BY DEF CutAt
  <1> QED BY <1>3, <1>4, <1>5 DEF RowsLeft

(* Before the first run.                                                    *)
LEMMA InitInv == Init => HarnessInv
  <1> SUFFICES ASSUME Init
               PROVE  HarnessInv
    OBVIOUS
  <1>1. /\ files \in Disks /\ taken = files /\ task = [status |-> "refused"]
        /\ step = "idle" /\ exit = -1
    BY DEF Init
  <1>2. ControlInv
    BY <1>1 DEF ControlInv, Runnable
  <1>3. FilesInv
    BY <1>1, HarnessAssumption DEF FilesInv
  <1>4. UntouchedInv /\ FedInv /\ FailureIsContained
    BY <1>1 DEF UntouchedInv, FedInv, FailureIsContained
  <1>5. UsedInv /\ HeardInv /\ GeneratedInv
    BY <1>1 DEF UsedInv, HeardInv, GeneratedInv, Settled
  <1> QED BY <1>2, <1>3, <1>4, <1>5 DEF HarnessInv

(* A run begins with the files as they are.                                 *)
LEMMA BeginKeeps ==
  ASSUME HarnessInv, NEW argv \in Commands, Begin(argv)
  PROVE  HarnessInv'
  <1>1. /\ step' = "parsed" /\ exit' = -1 /\ task' = ParseArgs(argv)
        /\ taken' = files /\ files' = files
        /\ ring' = <<>> /\ overruns' = 0 /\ fed' = <<>>
    BY DEF Begin, BeginRun
  <1>2. FilesInv
    BY DEF HarnessInv
  <1>3. Runnable(task')
    BY <1>1, ParsedIsRunnable, HarnessAssumption
  <1>4. ControlInv'
    BY <1>1, <1>3 DEF ControlInv
  <1>5. FilesInv'
    BY <1>1, <1>2 DEF FilesInv
  <1>6. UntouchedInv' /\ FedInv' /\ FailureIsContained'
    BY <1>1 DEF UntouchedInv, FedInv, FailureIsContained
  <1>7. UsedInv' /\ HeardInv' /\ GeneratedInv'
    BY <1>1 DEF UsedInv, HeardInv, GeneratedInv, Settled
  <1> QED BY <1>4, <1>5, <1>6, <1>7 DEF HarnessInv

(* A run that ends otherwise than well, before anything was written.        *)
LEMMA EndsClean ==
  ASSUME HarnessInv, NEW status \in {1, Aborted}, files = taken,
         step' = "idle", exit' = status, UNCHANGED <<files, taken, task>>
  PROVE  HarnessInv'
  <1>1. FilesInv /\ Runnable(task)
    BY DEF HarnessInv, ControlInv
  <1>2. exit' # 0 /\ exit' \in {1, Aborted}
    BY DEF Aborted
  <1>3. ControlInv'
    <2>1. Runnable(task)' = Runnable(task)
      BY DEF Runnable
    <2> QED BY <1>1, <1>2, <2>1 DEF ControlInv
  <1>4. FilesInv'
    BY <1>1 DEF FilesInv
  <1>5. UntouchedInv' /\ FedInv'
    BY DEF UntouchedInv, FedInv
  <1>6. FailureIsContained'
    BY DEF FailureIsContained, Content
  <1>7. UsedInv' /\ HeardInv' /\ GeneratedInv'
    BY <1>2 DEF UsedInv, HeardInv, GeneratedInv, Settled
  <1> QED BY <1>3, <1>4, <1>5, <1>6, <1>7 DEF HarnessInv

(* A CliError while the report is being made.                               *)
LEMMA FailCleanKeeps ==
  ASSUME HarnessInv, FailClean, step \in {"parsed", "pumping", "draining", "capturing"}
  PROVE  HarnessInv'
  <1>1. files = taken
    BY DEF HarnessInv, UntouchedInv
  <1>2. step' = "idle" /\ exit' = 1 /\ UNCHANGED <<files, taken, task>>
    BY DEF FailClean, Fail, Leave
  <1> QED BY <1>1, <1>2, EndsClean

(* A report is made from what could be read, and nothing has been written.  *)
LEMMA ReportKeeps ==
  ASSUME HarnessInv, NEW made, made # Nothing, Reports(made),
         files = taken, task.status = "run", task.mode # "generate", step # "idle",
         task.mode \in {"wav", "sine"} =>
           /\ CanLoad(taken, task.mode, task.args)
           /\ made.heard = [frame \in 1..SourceFrames(Source) |-> SampleAt(frame)],
         task.mode = "measure" => /\ CanRead(Content(taken, task.args.stimulus))
                                  /\ CanRead(Content(taken, task.args.response))
  PROVE  HarnessInv'
  <1>1. /\ report' = made /\ step' = "reporting" /\ exit' = exit
        /\ files' = files /\ taken' = taken /\ task' = task
    BY DEF Reports
  <1>2. FilesInv /\ ControlInv
    BY DEF HarnessInv
  <1>3. exit = -1
    BY <1>2 DEF ControlInv
  <1>4. ControlInv'
    <2>1. Runnable(task)' = Runnable(task)
      BY <1>1 DEF Runnable
    <2>2. Nothing' = Nothing
      BY DEF Nothing
    <2> QED BY <1>1, <1>2, <1>3, <2>1, <2>2 DEF ControlInv
  <1>5. FilesInv'
    BY <1>1, <1>2 DEF FilesInv
  <1>6. UntouchedInv' /\ FedInv' /\ FailureIsContained' /\ GeneratedInv'
    BY <1>1, <1>3 DEF UntouchedInv, FedInv, FailureIsContained, GeneratedInv, Settled
  <1>7. UsedInv'
    <2>1. CanLoad(taken, task.mode, task.args)' = CanLoad(taken, task.mode, task.args)
      BY <1>1 DEF CanLoad, Content
    <2>2. /\ Content(taken, task.args.stimulus)' = Content(taken, task.args.stimulus)
          /\ Content(taken, task.args.response)' = Content(taken, task.args.response)
      BY <1>1 DEF Content
    <2> QED BY <1>1, <2>1, <2>2 DEF UsedInv, Settled
  <1>8. HeardInv'
    <2>1. Source' = Source /\ SourceFrames(Source)' = SourceFrames(Source)
      BY <1>1 DEF Source, LoadSource, Sine, Content, SourceFrames
    <2>2. \A frame : SampleAt(frame)' = SampleAt(frame)
      BY <1>1, <2>1 DEF SampleAt
    <2> QED BY <1>1, <2>1, <2>2 DEF HeardInv, Settled
  <1> QED BY <1>4, <1>5, <1>6, <1>7, <1>8 DEF HarnessInv

(* The usage text, and status 0.                                            *)
LEMMA HelpKeeps ==
  ASSUME HarnessInv, Help
  PROVE  HarnessInv'
  <1>1. /\ task.status = "help" /\ step = "parsed" /\ step' = "idle" /\ exit' = 0
        /\ files' = files /\ taken' = taken /\ task' = task
    BY DEF Help, Leave
  <1>2. FilesInv /\ Runnable(task)
    BY DEF HarnessInv, ControlInv
  <1>3. ControlInv'
    <2>1. Runnable(task)' = Runnable(task)
      BY <1>1 DEF Runnable
    <2> QED BY <1>1, <1>2, <2>1 DEF ControlInv
  <1>4. FilesInv'
    BY <1>1, <1>2 DEF FilesInv
  <1>5. UntouchedInv' /\ FedInv' /\ FailureIsContained'
    BY <1>1 DEF UntouchedInv, FedInv, FailureIsContained
  <1>6. UsedInv' /\ HeardInv' /\ GeneratedInv'
    BY <1>1 DEF UsedInv, HeardInv, GeneratedInv, Settled
  <1> QED BY <1>3, <1>4, <1>5, <1>6 DEF HarnessInv

(* While a run works out its report, the files are as it found them.        *)
LEMMA WorkingIs ==
  ASSUME HarnessInv, NEW modes, Working(modes)
  PROVE  /\ step = "parsed" /\ task.status = "run" /\ task.mode \in modes
         /\ files = taken /\ Runnable(task)
  BY DEF HarnessInv, ControlInv, UntouchedInv, Working

(* A report of the devices, of a benchmark or of the demonstration.         *)
LEMMA SelfContainedKeeps ==
  ASSUME HarnessInv, SelfContained
  PROVE  HarnessInv'
  <1>1. Working({"list", "bench", "demo"}) /\ Reports([mode |-> task.mode])
    BY DEF SelfContained
  <1>2. /\ step = "parsed" /\ task.status = "run" /\ task.mode \in {"list", "bench", "demo"}
        /\ files = taken
    BY <1>1, WorkingIs
  <1>3. [mode |-> task.mode] # Nothing
    BY <1>2 DEF Nothing
  <1> QED BY <1>1, <1>2, <1>3, ReportKeeps

(* A comparison, passed or refused.                                         *)
LEMMA CompareKeeps ==
  ASSUME HarnessInv, CompareFiles
  PROVE  HarnessInv'
  <1>1. Working({"compare"})
    BY DEF CompareFiles
  <1>2. /\ step = "parsed" /\ task.status = "run" /\ task.mode = "compare" /\ files = taken
    BY <1>1, WorkingIs
  <1>3. CASE Gate(task.args)
    <2> DEFINE made == [mode |-> "compare", result |-> Comparison(task.args)]
    <2>1. Reports(made)
      BY <1>3 DEF CompareFiles
    <2>2. made # Nothing
      BY DEF Nothing
    <2> HIDE DEF made
    <2> QED BY <1>2, <2>1, <2>2, ReportKeeps
  <1>4. CASE ~Gate(task.args)
    <2>1. FailClean
      BY <1>4 DEF CompareFiles
    <2> QED BY <1>2, <2>1, FailCleanKeeps
  <1> QED BY <1>3, <1>4

(* A measurement from two files, both of which were readable.               *)
LEMMA MeasureKeeps ==
  ASSUME HarnessInv, MeasureFiles
  PROVE  HarnessInv'
  <1> DEFINE made == [mode |-> "measure", stimulus |-> Measured(task.args)[1],
                      response |-> Measured(task.args)[2]]
  <1>1. Working({"measure"}) /\ Measurable(task.args) /\ Reports(made)
    BY DEF MeasureFiles
  <1>2. /\ step = "parsed" /\ task.status = "run" /\ task.mode = "measure" /\ files = taken
    BY <1>1, WorkingIs
  <1>3. made # Nothing
    BY DEF Nothing
  <1> HIDE DEF made
  <1>4. /\ CanRead(Content(taken, task.args.stimulus))
        /\ CanRead(Content(taken, task.args.response))
    BY <1>1, <1>2 DEF Measurable
  <1> QED BY <1>1, <1>2, <1>3, <1>4, ReportKeeps

(* A step of a capture, or of the time it takes.                            *)
LEMMA CapturingKeeps ==
  ASSUME HarnessInv, step \in {"parsed", "capturing"}, step' = "capturing",
         task.status = "run", task.mode = "live",
         UNCHANGED <<files, taken, task, exit, report>>
  PROVE  HarnessInv'
  <1>1. FilesInv /\ ControlInv /\ files = taken
    BY DEF HarnessInv, UntouchedInv
  <1>2. exit = -1
    BY <1>1 DEF ControlInv
  <1>3. ControlInv'
    <2>1. Runnable(task)' = Runnable(task)
      BY DEF Runnable
    <2> QED BY <1>1, <1>2, <2>1 DEF ControlInv
  <1>4. FilesInv'
    BY <1>1 DEF FilesInv
  <1>5. UntouchedInv' /\ FedInv' /\ FailureIsContained'
    BY <1>1, <1>2 DEF UntouchedInv, FedInv, FailureIsContained
  <1>6. UsedInv' /\ HeardInv' /\ GeneratedInv'
    BY <1>2 DEF UsedInv, HeardInv, GeneratedInv, Settled
  <1> QED BY <1>3, <1>4, <1>5, <1>6 DEF HarnessInv

(* The capture's thread and its clock touch no file and no report.          *)
LEMMA CaptureKeeps ==
  ASSUME HarnessInv, Capture \/ CaptureThread \/ Tick
  PROVE  HarnessInv'
  <1>1. CASE Capture
    <2>1. Working({"live"}) /\ step' = "capturing"
          /\ UNCHANGED <<files, taken, task, exit, report>>
      BY <1>1 DEF Capture, outputVars
    <2> QED BY <2>1, WorkingIs, CapturingKeeps
  <1>2. ASSUME step = "capturing", step' = step, UNCHANGED <<files, taken, task, exit, report>>
        PROVE  HarnessInv'
    <2>1. task.status = "run" /\ task.mode = "live"
      BY <1>2 DEF HarnessInv, ControlInv
    <2> QED BY <1>2, <2>1, CapturingKeeps
  <1>3. ASSUME NEW at, Thread(at)
        PROVE  HarnessInv'
    BY <1>2, <1>3 DEF Thread, outputVars
  <1>4. CASE CaptureThread
    <2>1. CASE \E inputs \in 0 .. 2 : FindDevice(inputs)
      BY <2>1, <1>3 DEF FindDevice
    <2>2. CASE OpenStream \/ StartStream \/ StopStream \/ CallFails \/ Poll \/ Check
      BY <2>2, <1>3 DEF OpenStream, StartStream, StopStream, CallFails, Poll, Check
    <2>3. CASE \E loud \in BOOLEAN, dropped \in 0 .. 1 : PublishFrame(loud, dropped)
      BY <2>3, <1>2 DEF PublishFrame, outputVars
    <2> QED BY <1>4, <2>1, <2>2, <2>3 DEF CaptureThread
  <1>5. CASE Tick
    BY <1>5, <1>2 DEF Tick, outputVars
  <1> QED BY <1>1, <1>4, <1>5

(* The answer of a capture that came in time.                               *)
LEMMA TakeAnswerKeeps ==
  ASSUME HarnessInv, TakeAnswer
  PROVE  HarnessInv'
  <1>1. step = "capturing"
    BY DEF TakeAnswer
  <1>2. task.status = "run" /\ task.mode = "live" /\ files = taken
    BY <1>1 DEF HarnessInv, ControlInv, UntouchedInv
  <1>3. CASE live.answer = "frame"
    <2> DEFINE made == [mode |-> "live", frame |-> live.frame]
    <2>1. Reports(made)
      BY <1>3 DEF TakeAnswer
    <2>2. made # Nothing
      BY DEF Nothing
    <2> HIDE DEF made
    <2> QED BY <1>1, <1>2, <2>1, <2>2, ReportKeeps
  <1>4. CASE live.answer # "frame"
    <2>1. FailClean
      BY <1>4 DEF TakeAnswer
    <2> QED BY <1>1, <2>1, FailCleanKeeps
  <1> QED BY <1>3, <1>4

(* A signal written whole is the one change to the files.                   *)
LEMMA GenerateKeeps ==
  ASSUME HarnessInv, Generate
  PROVE  HarnessInv'
  <1> DEFINE n == SignalFrames(task.args)
             file == GeneratedFile(task.args, n)
  <1>1. /\ Working({"generate"}) /\ files' = With(files, task.args.out, file)
        /\ report' = [mode |-> "generate", frames |-> n] /\ step' = "reporting"
        /\ taken' = taken /\ task' = task /\ exit' = exit
    BY DEF Generate
  <1>2. /\ step = "parsed" /\ task.status = "run" /\ task.mode = "generate"
        /\ files = taken /\ Runnable(task)
    BY <1>1, WorkingIs
  <1>3. FilesInv /\ exit = -1
    BY <1>2 DEF HarnessInv, ControlInv
  <1>4. IsFile(file)
    <2>1. n \in 0..SignalFrames(task.args)
      BY <1>2, RenderedIs
    <2> QED BY <1>2, <2>1, GeneratedFileIs
  <1>5. FilesInv'
    <2>1. \A path \in DOMAIN files' : IsFile(files'[path])
      BY <1>1, <1>3, <1>4, WithKeepsFiles DEF FilesInv
    <2> QED BY <1>1, <1>3, <2>1 DEF FilesInv
  <1>6. ControlInv'
    <2>1. Runnable(task)'
      BY <1>1, <1>2 DEF Runnable
    <2>2. report' # Nothing'
      BY <1>1 DEF Nothing
    <2> QED BY <1>1, <1>2, <1>3, <2>1, <2>2 DEF ControlInv
  <1>7. GeneratedInv'
    <2>1. file' = file /\ n' = n
      BY <1>1 DEF GeneratedFile, Written, Rendered, SignalFrames, SignalOf, Encoded
    <2> HIDE DEF file, n
    <2>2. With(taken, task.args.out, file)' = With(files, task.args.out, file)
      BY <1>1, <1>2, <2>1 DEF With
    <2>3. files' = With(taken, task.args.out, file)'
      BY <1>1, <2>2
    <2> QED BY <2>3 DEF GeneratedInv, file, n
  <1>8. UntouchedInv' /\ FedInv' /\ FailureIsContained' /\ UsedInv' /\ HeardInv'
    BY <1>1, <1>2, <1>3 DEF UntouchedInv, FedInv, FailureIsContained, UsedInv, HeardInv, Settled
  <1> QED BY <1>5, <1>6, <1>7, <1>8 DEF HarnessInv

(* What a failure may leave in its --out.                                   *)
Excused(content) ==
  IF task.mode = "generate"
    THEN CanRead(content) => content = GeneratedFile(task.args, SignalFrames(task.args))
    ELSE /\ report # Nothing /\ content.kind = "report"
         /\ StartOf(content.rows, RowsMade(task.mode))

(* A run that fails over its --out leaves what is excused there.            *)
LEMMA FailingOutKeeps ==
  ASSUME HarnessInv, files = taken, NEW content, IsFile(content), Excused(content),
         files' = With(files, task.args.out, content),
         step' = "idle", exit' = 1, UNCHANGED <<taken, task, report>>
  PROVE  HarnessInv'
  <1>1. FilesInv /\ Runnable(task)
    BY DEF HarnessInv, ControlInv
  <1>2. FilesInv'
    <2>1. \A path \in DOMAIN files' : IsFile(files'[path])
      BY <1>1, WithKeepsFiles DEF FilesInv
    <2> QED BY <1>1, <2>1 DEF FilesInv
  <1>3. ControlInv'
    <2>1. Runnable(task)'
      BY <1>1 DEF Runnable
    <2> QED BY <2>1 DEF ControlInv
  <1>4. FailureIsContained'
    <2>1. ASSUME NEW path \in DOMAIN files', files'[path] # Content(taken, path)'
          PROVE  path = task.args.out /\ files'[path] = content
      <3>1. /\ path \in DOMAIN files \union {task.args.out}
            /\ files'[path] = IF path = task.args.out THEN content ELSE files[path]
        BY <2>1 DEF With
      <3>2. path # task.args.out => files[path] = Content(taken, path)
        BY <3>1 DEF Content
      <3>3. Content(taken, path)' = Content(taken, path)
        BY DEF Content
      <3> QED BY <2>1, <3>1, <3>2, <3>3
    <2> DEFINE whole == GeneratedFile(task.args, SignalFrames(task.args))
               made == RowsMade(task.mode)
    <2>2. Nothing' = Nothing /\ whole' = whole /\ made' = made
      BY DEF Nothing, RowsMade, GeneratedFile, Written, Rendered, SignalFrames, SignalOf, Encoded
    <2>3. IF task.mode = "generate" THEN CanRead(content) => content = whole
          ELSE report # Nothing /\ content.kind = "report" /\ StartOf(content.rows, made)
      BY DEF Excused
    <2> HIDE DEF whole, made
    <2>4. \A path \in DOMAIN files' : files'[path] # Content(taken, path)' =>
            /\ path = task.args.out
            /\ IF task'.mode = "generate" THEN CanRead(files'[path]) => files'[path] = whole'
               ELSE report' # Nothing' /\ files'[path].kind = "report"
                    /\ StartOf(files'[path].rows, made')
      BY <2>1, <2>2, <2>3
    <2> QED BY <2>4 DEF FailureIsContained, whole, made
  <1>5. UntouchedInv' /\ FedInv'
    BY DEF UntouchedInv, FedInv
  <1>6. UsedInv' /\ HeardInv' /\ GeneratedInv'
    BY DEF UsedInv, HeardInv, GeneratedInv, Settled
  <1> QED BY <1>2, <1>3, <1>4, <1>5, <1>6 DEF HarnessInv

(* A signal that was not written whole does not read, and nothing says that *)
(* one that was is not there.                                               *)
LEMMA GenerateTornKeeps ==
  ASSUME HarnessInv, GenerateTorn
  PROVE  HarnessInv'
  <1>1. /\ Working({"generate"}) /\ step' = "idle" /\ exit' = 1
        /\ UNCHANGED <<taken, task, report>>
    BY DEF GenerateTorn, Fail, Leave
  <1>2. /\ task.status = "run" /\ task.mode = "generate" /\ files = taken /\ Runnable(task)
    BY <1>1, WorkingIs
  <1>3. PICK left \in {Torn} \union {GeneratedFile(task.args, held)
                                       : held \in 0 .. SignalFrames(task.args)} :
          files' = With(files, task.args.out, left)
    BY DEF GenerateTorn
  <1>4. IsFile(left) /\ Excused(left)
    <2>1. CASE left = Torn
      BY <1>2, <2>1, NotAudio DEF Excused
    <2>2. ASSUME NEW held \in 0 .. SignalFrames(task.args),
                 left = GeneratedFile(task.args, held)
          PROVE  IsFile(left) /\ Excused(left)
      <3>1. /\ IsFile(left) /\ Len(left.data) = held
            /\ left.declared = SignalFrames(task.args) /\ left.container = "riff"
        BY <1>2, <2>2, GeneratedFileIs
      <3>2. SignalFrames(task.args) \in Nat
        BY <1>2, RenderedIs
      <3>3. CASE held = SignalFrames(task.args)
        BY <3>1, <3>3, <2>2, <1>2 DEF Excused
      <3>4. CASE held < SignalFrames(task.args)
        <4>1. ~CanRead(left)
          BY <3>1, <3>2, <3>4 DEF CanRead, CutShort
        <4> QED BY <3>1, <4>1, <1>2 DEF Excused
      <3> QED BY <3>2, <3>3, <3>4
    <2> QED BY <2>1, <2>2
  <1> QED BY <1>1, <1>2, <1>3, <1>4, FailingOutKeeps

(* A report written to --out is no audio, and to stdout no file.            *)
LEMMA DeliverKeeps ==
  ASSUME HarnessInv, Deliver
  PROVE  HarnessInv'
  <1>1. /\ step = "reporting" /\ step' = "idle" /\ exit' = 0
        /\ taken' = taken /\ task' = task /\ report' = report
    BY DEF Deliver, Leave
  <1>2. /\ FilesInv /\ ControlInv /\ UsedInv /\ HeardInv /\ GeneratedInv
        /\ task.status = "run" /\ Runnable(task)
    BY <1>1 DEF HarnessInv, ControlInv
  <1>3. \/ files' = files
        \/ /\ task.mode # "generate"
           /\ files' = With(files, task.args.out, ReportFile(RowsMade(task.mode)))
    BY DEF Deliver, ReportToFile
  <1>4. FilesInv'
    <2>1. \A path \in DOMAIN files' : IsFile(files'[path])
      <3>1. CASE files' = files
        BY <1>2, <3>1 DEF FilesInv
      <3>2. CASE files' = With(files, task.args.out, ReportFile(RowsMade(task.mode)))
        <4> DEFINE content == ReportFile(RowsMade(task.mode))
        <4>1. IsFile(content)
          BY NotAudio, RowsMadeAre
        <4> HIDE DEF content
        <4>2. files' = With(files, task.args.out, content)
          BY <3>2 DEF content
        <4> QED BY <1>2, <4>1, <4>2, WithKeepsFiles DEF FilesInv
      <3> QED BY <1>3, <3>1, <3>2
    <2> QED BY <1>1, <1>2, <2>1 DEF FilesInv
  <1>5. ControlInv'
    <2>1. Runnable(task)'
      BY <1>1, <1>2 DEF Runnable
    <2> QED BY <1>1, <2>1 DEF ControlInv
  <1>6. UntouchedInv' /\ FedInv' /\ FailureIsContained'
    BY <1>1 DEF UntouchedInv, FedInv, FailureIsContained
  <1>7. UsedInv'
    <2>1. CanLoad(taken, task.mode, task.args)' = CanLoad(taken, task.mode, task.args)
      BY <1>1 DEF CanLoad, Content
    <2>2. /\ Content(taken, task.args.stimulus)' = Content(taken, task.args.stimulus)
          /\ Content(taken, task.args.response)' = Content(taken, task.args.response)
      BY <1>1 DEF Content
    <2> QED BY <1>1, <1>2, <2>1, <2>2 DEF UsedInv, Settled
  <1>8. HeardInv'
    <2>1. Source' = Source /\ SourceFrames(Source)' = SourceFrames(Source)
      BY <1>1 DEF Source, LoadSource, Sine, Content, SourceFrames
    <2>2. \A frame : SampleAt(frame)' = SampleAt(frame)
      BY <1>1, <2>1 DEF SampleAt
    <2> QED BY <1>1, <1>2, <2>1, <2>2 DEF HeardInv, Settled
  <1>9. GeneratedInv'
    <2> DEFINE whole == GeneratedFile(task.args, SignalFrames(task.args))
    <2>1. whole' = whole
      BY <1>1 DEF GeneratedFile, Written, Rendered, SignalFrames, SignalOf, Encoded
    <2> HIDE DEF whole
    <2>2. With(taken, task.args.out, whole)' = With(taken, task.args.out, whole)
      BY <1>1, <2>1 DEF With
    <2>3. task.mode = "generate" => files' = With(taken, task.args.out, whole)
      BY <1>1, <1>2, <1>3 DEF GeneratedInv, Settled, whole
    <2>4. Settled({"generate"})' => files' = With(taken, task.args.out, whole)'
      BY <1>1, <2>2, <2>3 DEF Settled
    <2> QED BY <2>4 DEF GeneratedInv, whole
  <1> QED BY <1>4, <1>5, <1>6, <1>7, <1>8, <1>9 DEF HarnessInv

(* A report that could not be delivered leaves the start of it at most.     *)
LEMMA DeliverFailsKeeps ==
  ASSUME HarnessInv, DeliverFails
  PROVE  HarnessInv'
  <1>1. /\ step = "reporting" /\ step' = "idle" /\ exit' = 1
        /\ UNCHANGED <<taken, task, report>>
    BY DEF DeliverFails, Fail, Leave
  <1>2. /\ task.status = "run" /\ report # Nothing
        /\ task.mode # "generate" => files = taken
    BY <1>1 DEF HarnessInv, ControlInv, UntouchedInv
  <1>3. CASE ReportToFile /\ \E left \in RowsLeft(RowsMade(task.mode)) :
                               files' = With(files, task.args.out, ReportFile(left))
    <2>1. PICK left \in RowsLeft(RowsMade(task.mode)) :
            files' = With(files, task.args.out, ReportFile(left))
      BY <1>3
    <2>2. left \in TableRows /\ StartOf(left, RowsMade(task.mode))
      BY RowsMadeAre, RowsLeftAre
    <2>3. task.mode # "generate"
      BY <1>3 DEF ReportToFile
    <2>4. IsFile(ReportFile(left)) /\ Excused(ReportFile(left))
      BY <1>2, <2>2, <2>3, NotAudio DEF Excused
    <2>5. files = taken
      BY <1>2, <2>3
    <2> HIDE DEF Excused
    <2> QED BY <1>1, <2>1, <2>4, <2>5, FailingOutKeeps
  <1>4. CASE files' = files /\ task.mode # "generate"
    BY <1>1, <1>2, <1>4, EndsClean
  <1>5. CASE files' = files /\ task.mode = "generate"
    <2>1. FilesInv /\ GeneratedInv /\ Runnable(task)
      BY DEF HarnessInv, ControlInv
    <2>2. FilesInv'
      BY <1>1, <1>5, <2>1 DEF FilesInv
    <2>3. ControlInv'
      <3>1. Runnable(task)'
        BY <1>1, <2>1 DEF Runnable
      <3> QED BY <1>1, <3>1 DEF ControlInv
    <2>4. FailureIsContained'
      <3> DEFINE whole == GeneratedFile(task.args, SignalFrames(task.args))
      <3>1. files = With(taken, task.args.out, whole)
        BY <1>1, <1>2, <1>5, <2>1 DEF GeneratedInv, Settled
      <3> HIDE DEF whole
      <3>2. \A path \in DOMAIN files : files[path] # Content(taken, path) =>
              path = task.args.out /\ files[path] = whole
        BY <3>1 DEF With, Content
      <3>3. \A path : Content(taken, path)' = Content(taken, path)
        BY <1>1 DEF Content
      <3>4. whole' = whole
        BY <1>1 DEF whole, GeneratedFile, Written, Rendered, SignalFrames, SignalOf, Encoded
      <3>5. \A path \in DOMAIN files' : files'[path] # Content(taken, path)' =>
              /\ path = task'.args.out /\ task'.mode = "generate"
              /\ files'[path] = whole'
        BY <1>1, <1>5, <3>2, <3>3, <3>4
      <3> QED BY <3>5 DEF FailureIsContained, whole
    <2>5. UntouchedInv' /\ FedInv'
      BY <1>1 DEF UntouchedInv, FedInv
    <2>6. UsedInv' /\ HeardInv' /\ GeneratedInv'
      BY <1>1 DEF UsedInv, HeardInv, GeneratedInv, Settled
    <2> QED BY <2>2, <2>3, <2>4, <2>5, <2>6 DEF HarnessInv
  <1> QED BY <1>3, <1>4, <1>5 DEF DeliverFails

------------------------------------------------------------------------------
(* An analysis. *)

(* What the analysis reads is settled when it is opened.                    *)
LEMMA SourceStays ==
  ASSUME UNCHANGED <<taken, task>>
  PROVE  /\ Source' = Source /\ SourceFrames(Source)' = SourceFrames(Source)
         /\ Config(Source)' = Config(Source)
         /\ Frames' = Frames /\ Samples' = Samples
         /\ \A i : FrameAt(i)' = FrameAt(i) /\ SampleAt(i)' = SampleAt(i)
         /\ \A path : Content(taken, path)' = Content(taken, path)
         /\ Analysable(taken, task.mode, task.args)' = Analysable(taken, task.mode, task.args)
  <1>1. \A path : Content(taken, path)' = Content(taken, path)
    BY DEF Content
  <1>2. /\ Source' = Source
        /\ CanLoad(taken, task.mode, task.args)' = CanLoad(taken, task.mode, task.args)
    BY <1>1 DEF Source, LoadSource, CanLoad, Sine
  <1>3. SourceFrames(Source)' = SourceFrames(Source) /\ Config(Source)' = Config(Source)
    BY <1>2 DEF SourceFrames, Config
  <1>4. \A i : FrameAt(i)' = FrameAt(i) /\ SampleAt(i)' = SampleAt(i)
    BY <1>2 DEF FrameAt, SampleAt
  <1>5. Frames' = Frames /\ Samples' = Samples
    BY <1>3, <1>4 DEF Frames, Samples
  <1>6. Analysable(taken, task.mode, task.args)
          = (/\ CanLoad(taken, task.mode, task.args)
             /\ SourceFrames(Source) >= task.args.fft
             /\ task.args.channel < Source.channels
             /\ Opens(Source, Config(Source)))
    BY DEF Analysable, Source
  <1>7. Opens(Source, Config(Source))' = Opens(Source, Config(Source))
    BY <1>2, <1>3 DEF Opens
  <1>8. Analysable(taken, task.mode, task.args)' = Analysable(taken, task.mode, task.args)
    BY <1>2, <1>3, <1>6, <1>7 DEF Analysable, Source
  <1> QED BY <1>1, <1>2, <1>3, <1>4, <1>5, <1>8

(* A step of an analysis has only to keep what was fed in order.            *)
LEMMA AnalysisKeeps ==
  ASSUME HarnessInv, step \in {"parsed", "pumping", "draining"}, step' \in {"pumping", "draining"},
         task.status = "run", task.mode \in {"wav", "sine"},
         Analysable(taken, task.mode, task.args),
         UNCHANGED <<files, taken, task, exit, report>>,
         stream' \in [source : {Source}, inputs : {Config(Source).inputs},
                      block : {task.args.block}, position : 0..SourceFrames(Source)],
         ring' \in Seq(Frames), fed' \in Seq(Samples), overruns' \in Nat,
         step' = "pumping" => ring' = <<>>,
         overruns' = 0 =>
           /\ Len(fed') + Len(ring') = stream'.position
           /\ \A i \in 1..Len(fed') : fed'[i] = SampleAt(i)
           /\ \A i \in 1..Len(ring') : ring'[i] = FrameAt(Len(fed') + i)
  PROVE  HarnessInv'
  <1>1. FilesInv /\ ControlInv /\ files = taken
    BY DEF HarnessInv, UntouchedInv
  <1>2. exit = -1
    BY <1>1 DEF ControlInv
  <1>3. ControlInv'
    <2>1. Runnable(task)' = Runnable(task)
      BY DEF Runnable
    <2> QED BY <1>1, <1>2, <2>1 DEF ControlInv
  <1>4. FilesInv'
    BY <1>1 DEF FilesInv
  <1>5. UntouchedInv' /\ FailureIsContained'
    BY <1>1, <1>2 DEF UntouchedInv, FailureIsContained
  <1>6. UsedInv' /\ HeardInv' /\ GeneratedInv'
    BY <1>2, SourceStays DEF UsedInv, HeardInv, GeneratedInv, Settled
  <1>7. FedInv'
    <2>1. [source : {Source}, inputs : {Config(Source).inputs},
           block : {task.args.block}, position : 0..SourceFrames(Source)]'
          = [source : {Source}, inputs : {Config(Source).inputs},
             block : {task.args.block}, position : 0..SourceFrames(Source)]
      BY SourceStays
    <2>2. Frames' = Frames /\ Samples' = Samples
          /\ \A i : FrameAt(i)' = FrameAt(i) /\ SampleAt(i)' = SampleAt(i)
      BY SourceStays
    <2> QED BY <2>1, <2>2 DEF FedInv
  <1> QED BY <1>3, <1>4, <1>5, <1>6, <1>7 DEF HarnessInv

(* Nothing has been fed when an analysis is opened.                         *)
LEMMA OpenAnalysisKeeps ==
  ASSUME HarnessInv, OpenAnalysis
  PROVE  HarnessInv'
  <1>1. /\ step = "parsed" /\ task.status = "run" /\ task.mode \in {"wav", "sine"}
        /\ files = taken /\ Runnable(task)
    BY WorkingIs DEF OpenAnalysis
  <1>2. CASE Analysable(taken, task.mode, task.args)
    <2>1. /\ stream' = OpenOffline(Source, Config(Source), task.args.block)
          /\ step' = "pumping"
          /\ UNCHANGED <<files, report, taken, task, exit, ring, overruns, fed>>
      BY <1>1, <1>2 DEF OpenAnalysis, outputVars, Source
    <2>2. ring = <<>> /\ fed = <<>> /\ overruns = 0
      BY <1>1 DEF HarnessInv, FedInv
    <2>3. SourceFrames(Source) \in Nat
      BY <1>1, <1>2, SourceIs DEF HarnessInv, FilesInv, Analysable, Source
    <2>4. /\ stream' \in [source : {Source}, inputs : {Config(Source).inputs},
                          block : {task.args.block}, position : 0..SourceFrames(Source)]
          /\ stream'.position = 0
      BY <2>1, <2>3 DEF OpenOffline
    <2>5. /\ ring' = <<>> /\ fed' = <<>> /\ overruns' = 0
          /\ ring' \in Seq(Frames) /\ fed' \in Seq(Samples)
          /\ Len(ring') = 0 /\ Len(fed') = 0
      BY <2>1, <2>2
    <2> QED BY <1>1, <1>2, <2>1, <2>4, <2>5, AnalysisKeeps
  <1>3. CASE ~Analysable(taken, task.mode, task.args)
    BY <1>1, <1>3, FailCleanKeeps DEF OpenAnalysis
  <1> QED BY <1>2, <1>3

(* What an analysis has while it runs.                                      *)
LEMMA AnalysingIs ==
  ASSUME HarnessInv, step \in {"pumping", "draining"}
  PROVE  /\ task.status = "run" /\ task.mode \in {"wav", "sine"} /\ files = taken
         /\ Analysable(taken, task.mode, task.args)
         /\ Source.channels \in Nat \ {0} /\ SourceFrames(Source) \in Nat
         /\ task.args.channel \in 0..(Source.channels - 1)
         /\ task.args.block \in Nat \ {0}
         /\ stream.source = Source /\ stream.inputs = Config(Source).inputs
         /\ stream.block = task.args.block /\ stream.position \in 0..SourceFrames(Source)
         /\ ring \in Seq(Frames) /\ fed \in Seq(Samples) /\ overruns \in Nat
  <1>1. /\ task.status = "run" /\ task.mode \in {"wav", "sine"} /\ files = taken
        /\ Analysable(taken, task.mode, task.args) /\ Runnable(task)
    BY DEF HarnessInv, ControlInv, UntouchedInv, UsedInv
  <1>2. /\ task.args.channel \in Nat /\ task.args.block \in Nat \ {0}
    BY <1>1 DEF Runnable
  <1>3. Source.channels \in Nat \ {0} /\ SourceFrames(Source) \in Nat
    BY <1>1, SourceIs DEF HarnessInv, FilesInv, Analysable, Source
  <1>4. task.args.channel < Source.channels
    BY <1>1 DEF Analysable, Source
  <1>5. /\ stream.source = Source /\ stream.inputs = Config(Source).inputs
        /\ stream.block = task.args.block /\ stream.position \in 0..SourceFrames(Source)
        /\ ring \in Seq(Frames) /\ fed \in Seq(Samples) /\ overruns \in Nat
    BY DEF HarnessInv, FedInv
  <1> QED BY <1>1, <1>2, <1>3, <1>4, <1>5

(* One pump hands over the next frames of the source, every channel.        *)
LEMMA PumpedIs ==
  ASSUME HarnessInv, step = "pumping"
  PROVE  /\ PumpFrames(stream) \in 0..(SourceFrames(Source) - stream.position)
         /\ PumpFrames(stream) = 0 => stream.position = SourceFrames(Source)
         /\ Gathered(stream) \in Seq(Frames) /\ Len(Gathered(stream)) = PumpFrames(stream)
         /\ \A i \in 1..PumpFrames(stream) : Gathered(stream)[i] = FrameAt(stream.position + i)
  <1> DEFINE n == PumpFrames(stream)
             rows == Gathered(stream)
             at == stream.position
             total == SourceFrames(Source)
             channels == Source.channels
  <1>1. /\ channels \in Nat \ {0} /\ total \in Nat /\ at \in 0..total
        /\ stream.source = Source /\ stream.inputs = Config(Source).inputs
        /\ stream.block = task.args.block /\ stream.block \in Nat \ {0}
    BY AnalysingIs
  <1>2. n = IF stream.block < total - at THEN stream.block ELSE total - at
    BY <1>1 DEF PumpFrames
  <1>3. /\ DOMAIN stream.inputs = 1..channels
        /\ \A slot \in 1..channels : stream.inputs[slot] = slot - 1
    BY <1>1 DEF Config
  <1>4. rows = [frame \in 1..n |-> [slot \in 1..channels |->
                  Source.samples[(at + frame - 1) * channels + stream.inputs[slot] + 1]]]
    BY <1>1, <1>3 DEF Gathered
  <1> HIDE DEF n, rows, at, total, channels
  <1>5. n \in 0..(total - at) /\ (n = 0 => at = total)
    BY <1>1, <1>2
  <1>6. ASSUME NEW i \in 1..n
        PROVE  rows[i] = FrameAt(at + i)
    <2>1. at \in Int /\ i \in Int /\ channels \in Int /\ 1..n \subseteq Int
      BY <1>1, <1>5
    <2>2. \A slot \in 1..channels :
            (at + i - 1) * channels + (slot - 1) + 1 = (at + i - 1) * channels + slot
      <3>1. (at + i - 1) * channels \in Int
        BY <2>1
      <3>2. \A a \in Int, slot \in Int : a + (slot - 1) + 1 = a + slot
        OBVIOUS
      <3> QED BY <3>1, <3>2
    <2>3. at + i - 1 = (at + i) - 1
      BY <2>1
    <2>4. \A slot \in 1..channels :
            Source.samples[(at + i - 1) * channels + stream.inputs[slot] + 1]
              = Source.samples[((at + i) - 1) * channels + slot]
      <3>1. \A slot \in 1..channels :
              (at + i - 1) * channels + stream.inputs[slot] + 1 = ((at + i) - 1) * channels + slot
        BY <1>3, <2>2, <2>3
      <3> QED BY <3>1
    <2>5. rows[i] = [slot \in 1..channels |->
                       Source.samples[(at + i - 1) * channels + stream.inputs[slot] + 1]]
      BY <1>4
    <2>6. FrameAt(at + i) = [slot \in 1..channels |->
                               Source.samples[((at + i) - 1) * channels + slot]]
      BY DEF FrameAt, channels
    <2> QED BY <2>4, <2>5, <2>6
  <1>7. n \in Nat /\ rows = [i \in 1..n |-> rows[i]]
    BY <1>1, <1>4, <1>5
  <1>8. Len(rows) = n
    BY <1>7, ValuesListed
  <1>9. \A i \in 1..n : rows[i] \in Frames
    <2>1. \A i \in 1..n : at + i \in 1..total
      BY <1>1, <1>5
    <2>2. Frames = {FrameAt(frame) : frame \in 1..total}
      BY DEF Frames, total
    <2> QED BY <1>6, <2>1, <2>2
  <1>10. rows \in Seq(Frames)
    BY <1>7, <1>9
  <1> QED BY <1>5, <1>6, <1>8, <1>10 DEF n, rows, at, total

(* A pump puts its frames behind what is in order, or counts an overrun.    *)
LEMMA PumpKeeps ==
  ASSUME HarnessInv, Pump
  PROVE  HarnessInv'
  <1> DEFINE n == PumpFrames(stream)
             rows == Gathered(stream)
             at == stream.position
             total == SourceFrames(Source)
  <1>1. /\ step = "pumping" /\ step' = "draining" /\ stream' = Pumped(stream)
        /\ UNCHANGED <<files, report, taken, task, exit, fed>>
        /\ \/ ring' = ring \o rows /\ overruns' = overruns
           \/ ring' = ring /\ overruns' = overruns + 1
    BY DEF Pump, outputVars
  <1>2. /\ task.status = "run" /\ task.mode \in {"wav", "sine"}
        /\ Analysable(taken, task.mode, task.args)
        /\ at \in 0..total /\ total \in Nat
        /\ ring \in Seq(Frames) /\ fed \in Seq(Samples) /\ overruns \in Nat
    BY <1>1, AnalysingIs
  <1>3. /\ stream \in [source : {Source}, inputs : {Config(Source).inputs},
                       block : {task.args.block}, position : 0..total]
        /\ ring = <<>>
        /\ overruns = 0 => /\ Len(fed) + Len(ring) = at
                           /\ \A i \in 1..Len(fed) : fed[i] = SampleAt(i)
    BY <1>1 DEF HarnessInv, FedInv
  <1>4. /\ n \in 0..(total - at) /\ rows \in Seq(Frames) /\ Len(rows) = n
        /\ \A i \in 1..n : rows[i] = FrameAt(at + i)
    BY <1>1, PumpedIs
  <1>5. stream' = [stream EXCEPT !.position = at + n]
    BY <1>1 DEF Pumped
  <1> HIDE DEF n, rows, at, total
  <1>6. at + n \in 0..total
    BY <1>2, <1>4
  <1>7. /\ stream' \in [source : {Source}, inputs : {Config(Source).inputs},
                        block : {task.args.block}, position : 0..total]
        /\ stream'.position = at + n
    BY <1>3, <1>5, <1>6
  <1>8. CASE ring' = ring \o rows /\ overruns' = overruns
    <2>1. ring' = rows
      BY <1>3, <1>4, <1>8, ConcatEmptySeq
    <2>2. Len(fed) \in Nat
      BY <1>2
    <2>3. overruns' = 0 => /\ Len(fed') + Len(ring') = stream'.position
                           /\ \A i \in 1..Len(fed') : fed'[i] = SampleAt(i)
                           /\ \A i \in 1..Len(ring') : ring'[i] = FrameAt(Len(fed') + i)
      <3>1. SUFFICES ASSUME overruns = 0
                     PROVE  /\ Len(fed) + Len(rows) = at + n
                            /\ \A i \in 1..Len(fed) : fed[i] = SampleAt(i)
                            /\ \A i \in 1..Len(rows) : rows[i] = FrameAt(Len(fed) + i)
        BY <1>1, <1>7, <1>8, <2>1
      <3>2. Len(fed) = at /\ \A i \in 1..Len(fed) : fed[i] = SampleAt(i)
        BY <1>3, <2>2, <3>1
      <3> QED BY <1>4, <3>2
    <2> QED BY <1>1, <1>2, <1>4, <1>7, <1>8, <2>1, <2>3, AnalysisKeeps DEF total
  <1>9. CASE ring' = ring /\ overruns' = overruns + 1
    <2>1. overruns' \in Nat /\ overruns' # 0
      BY <1>2, <1>9
    <2> QED BY <1>1, <1>2, <1>7, <1>9, <2>1, AnalysisKeeps DEF total
  <1> QED BY <1>1, <1>8, <1>9

(* The channel asked for, out of a frame of the ring.                       *)
LEMMA AskedSlotIs ==
  ASSUME HarnessInv, step \in {"pumping", "draining"}
  PROVE  \A frame \in Int : FrameAt(frame)[task.args.channel + 1] = SampleAt(frame)
  <1>1. Source.channels \in Nat \ {0} /\ task.args.channel \in 0..(Source.channels - 1)
    BY AnalysingIs
  <1> DEFINE channels == Source.channels
             asked == task.args.channel
  <1> HIDE DEF channels, asked
  <1>2. channels \in Nat \ {0} /\ asked \in 0..(channels - 1)
    BY <1>1 DEF channels, asked
  <1>3. ASSUME NEW frame \in Int
        PROVE  FrameAt(frame)[asked + 1] = SampleAt(frame)
    <2> DEFINE row == (frame - 1) * channels
    <2>1. row \in Int
      BY <1>2
    <2>2. FrameAt(frame) = [slot \in 1..channels |-> Source.samples[row + slot]]
      BY DEF FrameAt, channels
    <2>3. SampleAt(frame) = Source.samples[row + asked + 1]
      BY DEF SampleAt, channels, asked
    <2> HIDE DEF row
    <2>4. asked + 1 \in 1..channels /\ row + (asked + 1) = row + asked + 1
      BY <1>2, <2>1
    <2>5. FrameAt(frame)[asked + 1] = Source.samples[row + (asked + 1)]
      BY <2>2, <2>4
    <2> QED BY <2>3, <2>4, <2>5
  <1> QED BY <1>3 DEF asked

(* A read moves the asked channel of the first frames to the analyser.      *)
LEMMA DrainKeeps ==
  ASSUME HarnessInv, Drain
  PROVE  HarnessInv'
  <1> DEFINE total == SourceFrames(Source)
             first == IF Len(ring) < task.args.block THEN Len(ring) ELSE task.args.block
             asked == [i \in 1..first |-> ring[i][task.args.channel + 1]]
             rest == SubSeq(ring, first + 1, Len(ring))
  <1>1. step = "draining" /\ UNCHANGED <<files, report, taken, task, exit, stream, overruns>>
    BY DEF Drain, ReadBlock, outputVars, analysisVars
  <1>2. /\ task.status = "run" /\ task.mode \in {"wav", "sine"}
        /\ Analysable(taken, task.mode, task.args) /\ task.args.block \in Nat \ {0}
        /\ total \in Nat /\ stream.position \in 0..total
        /\ ring \in Seq(Frames) /\ fed \in Seq(Samples) /\ overruns \in Nat
    BY <1>1, AnalysingIs
  <1>3. /\ stream \in [source : {Source}, inputs : {Config(Source).inputs},
                       block : {task.args.block}, position : 0..total]
        /\ overruns = 0 => /\ Len(fed) + Len(ring) = stream.position
                           /\ \A i \in 1..Len(fed) : fed[i] = SampleAt(i)
                           /\ \A i \in 1..Len(ring) : ring[i] = FrameAt(Len(fed) + i)
    BY <1>1 DEF HarnessInv, FedInv
  <1>4. CASE ring = <<>>
    <2>1. step' = "pumping" /\ ring' = ring /\ fed' = fed
      BY <1>4 DEF Drain, analysisVars
    <2> QED BY <1>1, <1>2, <1>3, <1>4, <2>1, AnalysisKeeps
  <1>5. CASE ring # <<>>
    <2>1. step' = "draining" /\ ring' = rest /\ fed' = fed \o asked
      BY <1>1, <1>5 DEF Drain, ReadBlock
    <2>2. first \in 0..Len(ring) /\ Len(ring) \in Nat /\ Len(fed) \in Nat
      BY <1>2
    <2> HIDE DEF first
    <2>3. \A i \in 1..Len(ring) : \E frame \in 1..total :
            ring[i] = FrameAt(frame) /\ ring[i][task.args.channel + 1] = SampleAt(frame)
      <3>1. \A frame \in Int : FrameAt(frame)[task.args.channel + 1] = SampleAt(frame)
        BY <1>1, AskedSlotIs
      <3>2. \A i \in 1..Len(ring) : ring[i] \in Frames
        BY <1>2
      <3>3. Frames = {FrameAt(frame) : frame \in 1..total}
        BY DEF Frames
      <3>4. 1..total \subseteq Int
        BY <1>2
      <3> HIDE DEF total
      <3> QED BY <3>1, <3>2, <3>3, <3>4
    <2>4. /\ first \in Nat /\ asked = [i \in 1..first |-> asked[i]]
          /\ \A i \in 1..first : asked[i] \in Samples
      <3>1. Samples = {SampleAt(frame) : frame \in 1..total}
        BY DEF Samples
      <3>2. \A i \in 1..first : i \in 1..Len(ring)
        BY <2>2
      <3> HIDE DEF total
      <3> QED BY <2>2, <2>3, <3>1, <3>2
    <2>5. /\ asked \in Seq(Samples) /\ Len(asked) = first
      <3> HIDE DEF asked
      <3> QED BY <2>4, ValuesListed
    <2>6. /\ rest \in Seq(Frames) /\ Len(rest) = Len(ring) - first
          /\ \A i \in 1..(Len(ring) - first) : rest[i] = ring[first + i]
      <3>1. \A i \in first + 1 .. Len(ring) : ring[i] \in Frames
        BY <1>2, <2>2
      <3>2. rest \in Seq(Frames)
        BY <2>2, <3>1, SubSeqProperties
      <3>3. Len(rest) = IF first + 1 <= Len(ring) THEN Len(ring) - (first + 1) + 1 ELSE 0
        BY <2>2, <3>1, SubSeqProperties
      <3>4. \A i \in 1 .. Len(ring) - (first + 1) + 1 : rest[i] = ring[(first + 1) + i - 1]
        BY <2>2, <3>1, SubSeqProperties
      <3> HIDE DEF rest
      <3>5. \A i \in 1 .. (Len(ring) - first) :
              i \in 1 .. Len(ring) - (first + 1) + 1 /\ (first + 1) + i - 1 = first + i
        BY <2>2
      <3> QED BY <2>2, <3>2, <3>3, <3>4, <3>5
    <2> DEFINE more == fed \o asked
    <2> HIDE DEF asked, rest
    <2>7. more \in Seq(Samples)
      BY <1>2, <2>5, ConcatProperties
    <2>8. Len(more) = Len(fed) + first
      BY <1>2, <2>5, ConcatProperties
    <2>9. \A i \in 1 .. Len(fed) + first :
            more[i] = IF i <= Len(fed) THEN fed[i] ELSE asked[i - Len(fed)]
      BY <1>2, <2>5, ConcatProperties
    <2> HIDE DEF more
    <2>10. ASSUME overruns = 0
           PROVE  /\ Len(more) + Len(rest) = stream.position
                  /\ \A i \in 1..Len(more) : more[i] = SampleAt(i)
                  /\ \A i \in 1..Len(rest) : rest[i] = FrameAt(Len(more) + i)
      <3>1. Len(more) + Len(rest) = stream.position
        BY <1>2, <1>3, <2>2, <2>6, <2>8, <2>10
      <3>2. ASSUME NEW i \in 1..Len(more)
            PROVE  more[i] = SampleAt(i)
        <4>1. CASE i <= Len(fed)
          BY <1>3, <2>2, <2>8, <2>9, <2>10, <3>2, <4>1
        <4>2. CASE i > Len(fed)
          <5>1. i - Len(fed) \in 1..first /\ i - Len(fed) \in 1..Len(ring)
                /\ Len(fed) + (i - Len(fed)) = i /\ i \in Int
            BY <2>2, <2>8, <4>2
          <5>2. more[i] = asked[i - Len(fed)]
            BY <2>2, <2>8, <2>9, <4>2
          <5>3. asked[i - Len(fed)] = ring[i - Len(fed)][task.args.channel + 1]
            BY <5>1 DEF asked
          <5>4. ring[i - Len(fed)] = FrameAt(i)
            BY <1>3, <2>10, <5>1
          <5>5. FrameAt(i)[task.args.channel + 1] = SampleAt(i)
            BY <1>1, <5>1, AskedSlotIs
          <5> QED BY <5>2, <5>3, <5>4, <5>5
        <4> QED BY <2>2, <2>8, <4>1, <4>2
      <3>3. ASSUME NEW i \in 1..Len(rest)
            PROVE  rest[i] = FrameAt(Len(more) + i)
        <4>1. i \in 1..(Len(ring) - first) /\ first + i \in 1..Len(ring)
              /\ Len(fed) + (first + i) = Len(more) + i
          BY <2>2, <2>6, <2>8
        <4>2. rest[i] = ring[first + i]
          BY <2>6, <4>1
        <4>3. ring[first + i] = FrameAt(Len(fed) + (first + i))
          BY <1>3, <2>10, <4>1
        <4> QED BY <4>1, <4>2, <4>3
      <3> QED BY <3>1, <3>2, <3>3
    <2>11. ring' = rest /\ fed' = more
      BY <2>1 DEF more
    <2>12. overruns' = 0 =>
             /\ Len(fed') + Len(ring') = stream'.position
             /\ \A i \in 1..Len(fed') : fed'[i] = SampleAt(i)
             /\ \A i \in 1..Len(ring') : ring'[i] = FrameAt(Len(fed') + i)
      BY <1>1, <2>10, <2>11
    <2> QED BY <1>1, <1>2, <1>3, <2>1, <2>6, <2>7, <2>11, <2>12, AnalysisKeeps
  <1> QED BY <1>4, <1>5

(* What is reported is what was fed, and that is the whole of the source.   *)
LEMMA FinishAnalysisKeeps ==
  ASSUME HarnessInv, FinishAnalysis
  PROVE  HarnessInv'
  <1> DEFINE made == [mode |-> task.mode, heard |-> fed, averaged |-> Averaged(task.args, Len(fed))]
             total == SourceFrames(Source)
  <1>1. step = "pumping" /\ PumpFrames(stream) = 0
    BY DEF FinishAnalysis
  <1>2. /\ task.status = "run" /\ task.mode \in {"wav", "sine"} /\ files = taken
        /\ Analysable(taken, task.mode, task.args) /\ fed \in Seq(Samples)
    BY <1>1, AnalysingIs
  <1>3. CASE overruns = 0 /\ Averaged(task.args, Len(fed)) > 0
    <2>1. Reports(made)
      BY <1>3 DEF FinishAnalysis
    <2>2. made # Nothing /\ made.heard = fed
      BY DEF Nothing
    <2> HIDE DEF made
    <2>3. stream.position = total
      BY <1>1, PumpedIs
    <2>4. /\ ring = <<>> /\ Len(fed) + Len(ring) = stream.position
          /\ \A i \in 1..Len(fed) : fed[i] = SampleAt(i)
      BY <1>1, <1>3 DEF HarnessInv, FedInv
    <2>5. Len(fed) = total
      BY <1>2, <2>3, <2>4
    <2>6. fed = [frame \in 1..total |-> fed[frame]]
      BY <1>2, <2>5
    <2>7. fed = [frame \in 1..total |-> SampleAt(frame)]
      BY <2>4, <2>5, <2>6
    <2>8. CanLoad(taken, task.mode, task.args)
      BY <1>2 DEF Analysable
    <2> QED BY <1>1, <1>2, <2>1, <2>2, <2>7, <2>8, ReportKeeps
  <1>4. CASE ~(overruns = 0 /\ Averaged(task.args, Len(fed)) > 0)
    BY <1>1, <1>4, FailCleanKeeps DEF FinishAnalysis
  <1> QED BY <1>3, <1>4

------------------------------------------------------------------------------
(* Every step. *)

(* A run that a CliError or a broken contract ends before its report.       *)
LEMMA GivesUpKeeps ==
  ASSUME HarnessInv,
         \/ RefuseArguments \/ SelfContainedFails \/ GenerateRefused
         \/ MeasureFails \/ MeasureAborts \/ Expire
  PROVE  HarnessInv'
  <1>1. CASE MeasureAborts
    <2>1. /\ Working({"measure"}) /\ step' = "idle" /\ exit' = Aborted
          /\ UNCHANGED <<files, taken, task>>
      BY <1>1 DEF MeasureAborts, Leave
    <2>2. files = taken
      BY <2>1, WorkingIs
    <2> QED BY <2>1, <2>2, EndsClean
  <1>2. CASE RefuseArguments \/ SelfContainedFails \/ GenerateRefused \/ MeasureFails \/ Expire
    <2>1. FailClean /\ step \in {"parsed", "pumping", "draining", "capturing"}
      BY <1>2 DEF RefuseArguments, SelfContainedFails, GenerateRefused, MeasureFails, Expire,
                  Working
    <2> QED BY <2>1, FailCleanKeeps
  <1> QED BY <1>1, <1>2

(* What reads no other state is kept when nothing changes.                  *)
LEMMA StutterKeeps ==
  ASSUME HarnessInv, UNCHANGED vars
  PROVE  HarnessInv'
  <1>1. UNCHANGED <<files, taken, task, step, report, exit, stream, ring, overruns, fed>>
    BY DEF vars, analysisVars
  <1>2. /\ FilesInv /\ ControlInv /\ UntouchedInv /\ UsedInv /\ FedInv
        /\ HeardInv /\ GeneratedInv /\ FailureIsContained
    BY DEF HarnessInv
  <1>3. FilesInv' /\ UntouchedInv'
    BY <1>1, <1>2 DEF FilesInv, UntouchedInv
  <1>4. ControlInv'
    <2>1. Runnable(task)' = Runnable(task) /\ Nothing' = Nothing
      BY <1>1 DEF Runnable, Nothing
    <2> QED BY <1>1, <1>2, <2>1 DEF ControlInv
  <1>5. UsedInv'
    <2>1. /\ \A path : Content(taken, path)' = Content(taken, path)
          /\ Analysable(taken, task.mode, task.args)' = Analysable(taken, task.mode, task.args)
      BY <1>1, SourceStays
    <2>2. CanLoad(taken, task.mode, task.args)' = CanLoad(taken, task.mode, task.args)
      BY <1>1, <2>1 DEF CanLoad
    <2> QED BY <1>1, <1>2, <2>1, <2>2 DEF UsedInv, Settled
  <1>6. FedInv' /\ HeardInv'
    <2>1. /\ Source' = Source /\ SourceFrames(Source)' = SourceFrames(Source)
          /\ Config(Source)' = Config(Source)
          /\ Frames' = Frames /\ Samples' = Samples
          /\ \A i : FrameAt(i)' = FrameAt(i) /\ SampleAt(i)' = SampleAt(i)
      BY <1>1, SourceStays
    <2>2. [source : {Source}, inputs : {Config(Source).inputs},
           block : {task.args.block}, position : 0..SourceFrames(Source)]'
          = [source : {Source}, inputs : {Config(Source).inputs},
             block : {task.args.block}, position : 0..SourceFrames(Source)]
      BY <1>1, <2>1
    <2>3. FedInv'
      BY <1>1, <1>2, <2>1, <2>2 DEF FedInv
    <2>4. HeardInv'
      BY <1>1, <1>2, <2>1 DEF HeardInv, Settled
    <2> QED BY <2>3, <2>4
  <1>7. GeneratedInv'
    <2> DEFINE whole == GeneratedFile(task.args, SignalFrames(task.args))
    <2>1. whole' = whole
      BY <1>1 DEF GeneratedFile, Written, Rendered, SignalFrames, SignalOf, Encoded
    <2> HIDE DEF whole
    <2>2. With(taken, task.args.out, whole)' = With(taken, task.args.out, whole)
      BY <1>1, <2>1 DEF With
    <2>3. Settled({"generate"}) => files = With(taken, task.args.out, whole)
      BY <1>2 DEF GeneratedInv, whole
    <2>4. Settled({"generate"})' => files' = With(taken, task.args.out, whole)'
      BY <1>1, <2>2, <2>3 DEF Settled
    <2> QED BY <2>4 DEF GeneratedInv, whole
  <1>8. FailureIsContained'
    <2> DEFINE whole == GeneratedFile(task.args, SignalFrames(task.args))
               made == RowsMade(task.mode)
    <2>1. \A path : Content(taken, path)' = Content(taken, path)
      BY <1>1 DEF Content
    <2>2. Nothing' = Nothing /\ whole' = whole /\ made' = made
      BY <1>1 DEF Nothing, RowsMade, GeneratedFile, Written, Rendered, SignalFrames, SignalOf,
                  Encoded
    <2> HIDE DEF whole, made
    <2>3. exit = 1 => \A path \in DOMAIN files : files[path] # Content(taken, path) =>
            /\ path = task.args.out
            /\ IF task.mode = "generate" THEN CanRead(files[path]) => files[path] = whole
               ELSE /\ report # Nothing /\ files[path].kind = "report"
                    /\ StartOf(files[path].rows, made)
      BY <1>2 DEF FailureIsContained, whole, made
    <2>4. exit' = 1 => \A path \in DOMAIN files' : files'[path] # Content(taken, path)' =>
            /\ path = task'.args.out
            /\ IF task'.mode = "generate" THEN CanRead(files'[path]) => files'[path] = whole'
               ELSE /\ report' # Nothing' /\ files'[path].kind = "report"
                    /\ StartOf(files'[path].rows, made')
      BY <1>1, <2>1, <2>2, <2>3
    <2> QED BY <2>4 DEF FailureIsContained, whole, made
  <1> QED BY <1>3, <1>4, <1>5, <1>6, <1>7, <1>8 DEF HarnessInv

(* One lemma for every action.                                              *)
LEMMA NextKeeps ==
  ASSUME HarnessInv, Next
  PROVE  HarnessInv'
  <1>1. CASE \E argv \in Commands : Begin(argv)
    BY <1>1, BeginKeeps
  <1>2. CASE MakeReport
    BY <1>2, SelfContainedKeeps, GivesUpKeeps, GenerateTornKeeps, GenerateKeeps, CompareKeeps,
       MeasureKeeps DEF MakeReport
  <1>3. CASE Proceed
    BY <1>3, GivesUpKeeps, HelpKeeps, OpenAnalysisKeeps, PumpKeeps, DrainKeeps,
       FinishAnalysisKeeps, CaptureKeeps, TakeAnswerKeeps, DeliverKeeps, DeliverFailsKeeps
       DEF Proceed
  <1>4. CASE CaptureThread \/ Tick
    BY <1>4, CaptureKeeps
  <1> QED BY <1>1, <1>2, <1>3, <1>4 DEF Next

(* The invariant is one, of every behaviour of the command line's runs.     *)
THEOREM HarnessAlwaysKeeps == Spec => []HarnessInv
  <1>1. HarnessInv /\ [Next]_vars => HarnessInv'
    BY NextKeeps, StutterKeeps
  <1> QED BY InitInv, <1>1, PTL DEF Spec

------------------------------------------------------------------------------
(* A comparison that was reported. *)

(* The points of a file as the run found it.                                *)
PointsTaken(path) == Parse(RowsOf(Content(taken, path)))

(* A comparison's report is of the two files the run found, which had       *)
(* points, and it agrees within the tolerance that was asked for.           *)
ComparedInv ==
  Settled({"compare"}) =>
    /\ PointsTaken(task.args.subject) # <<>> /\ PointsTaken(task.args.reference) # <<>>
    /\ report.result = Compare(PointsTaken(task.args.subject), PointsTaken(task.args.reference),
                               task.args.from_hz, task.args.to_hz)
    /\ "tolerance" \in DOMAIN task.args => AgreesWithin(report.result, task.args.tolerance)

(* It stays what it was as long as the run and its report stay.             *)
LEMMA ComparedStays ==
  ASSUME ComparedInv, UNCHANGED <<taken, task, report>>,
         Settled({"compare"})' => Settled({"compare"})
  PROVE  ComparedInv'
  <1>1. \A path : PointsTaken(path)' = PointsTaken(path)
    BY DEF PointsTaken, Content, Parse, RowsOf
  <1> QED BY <1>1 DEF ComparedInv

(* A step of the gate: the comparison is reported, or the run fails.        *)
LEMMA ComparedFiles ==
  ASSUME HarnessInv, CompareFiles
  PROVE  ComparedInv'
  <1>1. Working({"compare"})
    BY DEF CompareFiles
  <1>2. /\ step = "parsed" /\ task.status = "run" /\ task.mode = "compare" /\ files = taken
    BY <1>1, WorkingIs
  <1>3. CASE Gate(task.args)
    <2> DEFINE made == [mode |-> "compare", result |-> Comparison(task.args)]
    <2>1. report' = made /\ taken' = taken /\ task' = task
      BY <1>3 DEF CompareFiles, Reports
    <2>2. report'.result = Comparison(task.args)
      BY <2>1
    <2>3. \A path : PointsIn(path) = PointsTaken(path) /\ PointsTaken(path)' = PointsTaken(path)
      BY <1>2, <2>1 DEF PointsIn, PointsTaken, Content, Parse, RowsOf
    <2> QED BY <1>3, <2>1, <2>2, <2>3 DEF ComparedInv, Gate, Comparison
  <1>4. CASE ~Gate(task.args)
    <2>1. step' = "idle" /\ exit' = 1
      BY <1>4 DEF CompareFiles, FailClean, Fail, Leave
    <2> QED BY <2>1 DEF ComparedInv, Settled
  <1> QED BY <1>3, <1>4

(* No other step makes a comparison's report.                               *)
LEMMA ComparedStep ==
  ASSUME HarnessInv, ComparedInv, [Next]_vars
  PROVE  ComparedInv'
  <1>1. ControlInv
    BY DEF HarnessInv
  <1>2. CASE UNCHANGED vars
    BY <1>2, ComparedStays DEF vars, Settled
  <1>3. CASE \E argv \in Commands : Begin(argv)
    BY <1>3 DEF Begin, BeginRun, ComparedInv, Settled
  <1>4. CASE RefuseArguments \/ SelfContainedFails \/ GenerateRefused \/ MeasureFails \/ Expire
    <2>1. step' = "idle" /\ exit' = 1
      BY <1>4 DEF RefuseArguments, SelfContainedFails, GenerateRefused, MeasureFails, Expire,
                  FailClean, Fail, Leave
    <2> QED BY <2>1 DEF ComparedInv, Settled
  <1>5. CASE MeasureAborts \/ GenerateTorn \/ DeliverFails
    <2>1. step' = "idle" /\ exit' \in {1, Aborted}
      BY <1>5 DEF MeasureAborts, GenerateTorn, DeliverFails, Fail, Leave
    <2> QED BY <2>1 DEF ComparedInv, Settled, Aborted
  <1>6. CASE Help
    <2>1. task' = task /\ task.status = "help"
      BY <1>6 DEF Help
    <2> QED BY <2>1 DEF ComparedInv, Settled
  <1>7. CASE SelfContained \/ Generate \/ MeasureFiles
    <2>1. task' = task /\ task.mode \in {"list", "bench", "demo", "generate", "measure"}
      BY <1>7 DEF SelfContained, Generate, MeasureFiles, Working, Reports
    <2> QED BY <2>1 DEF ComparedInv, Settled
  <1>8. CASE OpenAnalysis \/ Capture
    <2>1. task' = task /\ task.mode \in {"wav", "sine", "live"}
      BY <1>8 DEF OpenAnalysis, Capture, Working, FailClean, Fail
    <2> QED BY <2>1 DEF ComparedInv, Settled
  <1>9. CASE Pump \/ Drain \/ FinishAnalysis
    <2>1. task' = task /\ step \in {"pumping", "draining"}
      BY <1>9 DEF Pump, Drain, ReadBlock, FinishAnalysis, Reports, FailClean, Fail
    <2>2. task.mode \in {"wav", "sine"}
      BY <1>1, <2>1 DEF ControlInv
    <2> QED BY <2>1, <2>2 DEF ComparedInv, Settled
  <1>10. CASE TakeAnswer \/ CaptureThread \/ Tick
    <2>1. task' = task /\ step = "capturing"
      BY <1>10 DEF TakeAnswer, CaptureThread, Tick, FindDevice, OpenStream, StartStream,
                   StopStream, CallFails, Poll, Check, PublishFrame, Thread, Reports,
                   FailClean, Fail
    <2>2. task.mode = "live"
      BY <1>1, <2>1 DEF ControlInv
    <2> QED BY <2>1, <2>2 DEF ComparedInv, Settled
  <1>11. CASE Deliver
    <2>1. step = "reporting" /\ UNCHANGED <<taken, task, report>>
      BY <1>11 DEF Deliver
    <2> QED BY <2>1, ComparedStays DEF Settled
  <1> QED BY <1>2, <1>3, <1>4, <1>5, <1>6, <1>7, <1>8, <1>9, <1>10, <1>11, ComparedFiles
          DEF Next, MakeReport, Proceed

------------------------------------------------------------------------------
(* What a user is promised. *)

(* A spectrum reported with status 0 was made from every sample of the      *)
(* channel asked for, in order, for any file, any block and any ring        *)
(* (analyse_offline in cli/run.cpp).                                        *)
THEOREM HeardIsAlwaysSource == Spec => []HeardIsSource
  <1>1. HarnessInv => HeardIsSource
    <2>0. SUFFICES ASSUME HarnessInv
                   PROVE  HeardIsSource
      OBVIOUS
    <2>1. SUFFICES ASSUME Done({"wav", "sine"})
                   PROVE  report.heard = [frame \in 1..SourceFrames(Source) |-> SampleAt(frame)]
      BY DEF HeardIsSource, Source, SampleAt
    <2> QED BY <2>0, <2>1 DEF HarnessInv, HeardInv, Settled, Done
  <1> QED BY HarnessAlwaysKeeps, <1>1, PTL

(* No run that ends well has used a RIFF file whose samples stop short of   *)
(* what the file claims (read_wav in model/wav.cpp).                        *)
THEOREM HalfFilesAreRefused == Spec => []HalfFilesRefused
  <1>1. HarnessInv => HalfFilesRefused
    <2>0. SUFFICES ASSUME HarnessInv
                   PROVE  HalfFilesRefused
      OBVIOUS
    <2>1. Done({"wav"}) => CanRead(Content(taken, task.args.path))
      BY <2>0 DEF HarnessInv, UsedInv, Settled, Done, CanLoad
    <2>2. Done({"measure"}) => /\ CanRead(Content(taken, task.args.stimulus))
                               /\ CanRead(Content(taken, task.args.response))
      BY <2>0 DEF HarnessInv, UsedInv, Settled, Done
    <2> DEFINE used == IF Done({"wav"}) THEN {task.args.path}
                       ELSE IF Done({"measure"}) THEN {task.args.stimulus, task.args.response}
                       ELSE {}
    <2>3. \A path \in used : CanRead(Content(taken, path))
      BY <2>1, <2>2
    <2> HIDE DEF used
    <2>4. \A path \in used : LET file == Content(taken, path)
                             IN  file.container = "riff" => ~(file.declared > Len(file.data))
      BY <2>3 DEF CanRead, CutShort
    <2>5. ASSUME NEW path \in used, Content(taken, path).container = "riff"
          PROVE  Content(taken, path).declared <= Len(Content(taken, path).data)
      <3> DEFINE file == Content(taken, path)
      <3>1. file.kind = "wav" /\ ~(file.declared > Len(file.data))
        BY <2>3, <2>4, <2>5 DEF CanRead, InitMemory
      <3>2. IsFile(file)
        BY <2>0, <3>1 DEF HarnessInv, FilesInv, Content
      <3>3. file.declared \in Nat /\ Len(file.data) \in Nat
        BY <3>1, <3>2 DEF IsFile
      <3> QED BY <3>1, <3>3
    <2> QED BY <2>5 DEF HalfFilesRefused, used
  <1> QED BY HarnessAlwaysKeeps, <1>1, PTL

(* A run that fails changes no file but its --out, and leaves there audio   *)
(* that does not read or is whole, or the start of a report that was made,  *)
(* of which the last level may be cut short, for any reports and any cut    *)
(* (execute in cli/run.cpp, write_wav in model/wav.cpp).                    *)
THEOREM FailureIsAlwaysContained == Spec => []FailureIsContained
  <1>1. HarnessInv => FailureIsContained
    BY DEF HarnessInv
  <1> QED BY HarnessAlwaysKeeps, <1>1, PTL

(* A file --generate reports with status 0 reads back whole, each sample    *)
(* within one and a half steps of its depth of the one that was wanted, if  *)
(* the reader takes its rate and not at all if it does not, for any number  *)
(* of bits and any full scale they divide (header, encode and read_wav).    *)
THEOREM GeneratedAlwaysReadsBack == Spec => []GeneratedReadsBack
  <1>1. HarnessInv => GeneratedReadsBack
    <2>0. SUFFICES ASSUME HarnessInv
                   PROVE  GeneratedReadsBack
      OBVIOUS
    <2>1. SUFFICES ASSUME Done({"generate"})
                   PROVE  GeneratedReadsBack
      BY DEF GeneratedReadsBack
    <2> DEFINE whole == GeneratedFile(task.args, SignalFrames(task.args))
    <2>2. task.status = "run" /\ task.mode = "generate" /\ Runnable(task)
      BY <2>0, <2>1 DEF HarnessInv, ControlInv, Done
    <2>3. files = With(taken, task.args.out, whole)
      BY <2>0, <2>1 DEF HarnessInv, GeneratedInv, Settled, Done
    <2>4. /\ CanRead(whole) <=> StoredRate(task.args.rate) \in 1 .. MostRate
          /\ Len(ReadWav(whole).samples) = Len(Rendered(task.args))
          /\ \A i \in DOMAIN Rendered(task.args) :
               2 * Unsigned(ReadWav(whole).samples[i] - Rendered(task.args)[i]) <=
                 IF whole.float THEN 0 ELSE 3 * (FullScale \div 2^Magnitude[whole.width])
      BY <2>2, WholeFileReadsBack
    <2> HIDE DEF whole
    <2>5. Content(files, task.args.out) = whole
      BY <2>3 DEF With, Content
    <2> QED BY <2>4, <2>5 DEF GeneratedReadsBack
  <1> QED BY HarnessAlwaysKeeps, <1>1, PTL

(* A comparison that passes its tolerance compared something, and at any    *)
(* two frequencies both files have the shapes differ by no more than it     *)
(* allows, for any two files and any tolerance (compare and                 *)
(* Comparison::agrees_within in model/compare.cpp).                         *)
THEOREM ToleranceAlwaysHolds == Spec => []ToleranceHolds
  <1>1. Init => ComparedInv
    BY DEF Init, ComparedInv, Settled
  <1>2. HarnessInv /\ ComparedInv => ToleranceHolds
    <2>0. SUFFICES ASSUME HarnessInv, ComparedInv,
                          Done({"compare"}), "tolerance" \in DOMAIN task.args
                   PROVE  ToleranceHolds
      BY DEF ToleranceHolds
    <2> DEFINE subject == PointsTaken(task.args.subject)
               reference == PointsTaken(task.args.reference)
               tolerance == task.args.tolerance
               both == {q \in Range(subject) :
                          /\ task.args.from_hz <= q.hz /\ q.hz <= task.args.to_hz
                          /\ \E r \in Range(reference) : r.hz = q.hz}
               off == {[hz |-> q.hz, db |-> q.db - LevelAt(reference, q.hz)] : q \in both}
    <2>1. /\ PointsTaken(task.args.subject) # <<>> /\ PointsTaken(task.args.reference) # <<>>
          /\ report.result = Compare(PointsTaken(task.args.subject),
                                     PointsTaken(task.args.reference),
                                     task.args.from_hz, task.args.to_hz)
          /\ AgreesWithin(report.result, tolerance)
      BY <2>0 DEF ComparedInv, Settled, Done
    <2>2. ASSUME NEW path
          PROVE  PointsTaken(path) \in Responding
      <3>1. RowsOf(Content(taken, path)) \in Seq(Row)
        <4>1. CASE Content(taken, path).kind \in Tables
          <5>1. path \in DOMAIN taken /\ IsFile(taken[path])
            BY <2>0, <4>1 DEF HarnessInv, FilesInv, Content, Tables
          <5>2. Content(taken, path).rows \in TableRows
            BY <4>1, <5>1 DEF IsFile, Content
          <5> QED BY <4>1, <5>2 DEF RowsOf, TableRows, Row
        <4>2. CASE Content(taken, path).kind \notin Tables
          BY <4>2 DEF RowsOf
        <4> QED BY <4>1, <4>2
      <3> QED BY <3>1, ParseIs DEF PointsTaken
    <2>5. subject \in Responding /\ reference \in Responding
      BY <2>2
    <2>6. tolerance \in Int
      BY <2>0 DEF HarnessInv, ControlInv, Runnable, Done
    <2> HIDE DEF subject, reference, tolerance
    <2>7. AgreesWithin(Compare(subject, reference, task.args.from_hz, task.args.to_hz), tolerance)
      BY <2>1 DEF subject, reference
    <2>8. report.result.compared > 0
      BY <2>1 DEF AgreesWithin
    <2>9. ASSUME NEW a \in off, NEW b \in off
          PROVE  a.db - b.db <= 2 * tolerance
      <3>1. PICK p \in both : a = Off(reference, p)
        BY DEF Off
      <3>2. PICK q \in both : b = Off(reference, q)
        BY DEF Off
      <3>3. PICK i \in DOMAIN subject : subject[i] = p
        BY DEF Range
      <3>4. PICK j \in DOMAIN subject : subject[j] = q
        BY DEF Range
      <3>5. ASSUME NEW k \in {i, j}
            PROVE  /\ task.args.from_hz <= subject[k].hz /\ subject[k].hz <= task.args.to_hz
                   /\ \E r \in DOMAIN reference : reference[r].hz = subject[k].hz
        <4>1. subject[k] \in both
          BY <3>3, <3>4
        <4> QED BY <4>1 DEF Range
      <3> HIDE DEF both
      <3>6. Off(reference, subject[i]).db - Off(reference, subject[j]).db <= 2 * tolerance
        BY <2>5, <2>6, <2>7, <3>5, ComparisonBounds
      <3> QED BY <3>1, <3>2, <3>3, <3>4, <3>6
    <2> QED BY <2>8, <2>9 DEF ToleranceHolds, PointsTaken, subject, reference, tolerance
  <1>3. HarnessInv /\ ComparedInv /\ [Next]_vars => ComparedInv'
    BY ComparedStep
  <1> QED BY HarnessAlwaysKeeps, <1>1, <1>2, <1>3, PTL DEF Spec

==============================================================================
