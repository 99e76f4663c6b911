--------------------------------- MODULE TextLines ---------------------------------
(***************************************************************************)
(* What the text files of the analyzer are made of.  A line is a key and a *)
(* value; a value is a number or a word.  A number that was printed parses *)
(* as itself (NumberText shows the digits do); NaN and Inf print and parse *)
(* as the words a float may be.                                            *)
(***************************************************************************)
EXTENDS Integers, Sequences, FiniteSets, SequencesExt

CONSTANTS NaN, Inf    \* the floats that are not finite

ASSUME FloatAssumption == NaN \notin Int /\ Inf \notin Int

Unset == [unset |-> TRUE]
Given(x) == [value |-> x]
IsGiven(o) == "value" \in DOMAIN o
Maybe(S) == {Unset} \cup [value : S]

Number(n) == [number |-> n]
Word(w) == [word |-> w]
Truth(b) == Word(IF b THEN "true" ELSE "false")
IsNumber(v) == "number" \in DOMAIN v
IsWord(v) == "word" \in DOMAIN v
IsPath(v) == "path" \in DOMAIN v

Floats == Int \cup {NaN, Inf}

IsFinite(x) == x # NaN /\ x # Inf

Line(key, value) == [key |-> key, value |-> value]
=====================================================================================
