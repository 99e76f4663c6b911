-------------------------------- MODULE NumberText --------------------------------
(***************************************************************************)
(* Numbers as text and back (base/number_text.cpp).  A text is a sequence  *)
(* of characters, each a number: a digit is itself, a mark one after 9.  A *)
(* decimal is a sequence of digits and the power of ten they stand before: *)
(* 0.DIGITS * 10^point.                                                    *)
(***************************************************************************)
EXTENDS Integers, Sequences, SequencesExt

Digits == 0..9
Point == 10
Minus == 11
Plus == 12
Exponent == 13    \* either case

Zeros(n) == [i \in 1..n |-> 0]

(* shortest(): the digits of the scientific form laid out by place.        *)
Positional(negative, digits, point) ==
  (IF negative THEN <<Minus>> ELSE <<>>) \o
  (IF point <= 0 THEN <<0, Point>> \o Zeros(-point) \o digits
   ELSE IF point >= Len(digits) THEN digits \o Zeros(point - Len(digits))
   ELSE SubSeq(digits, 1, point) \o <<Point>> \o SubSeq(digits, point + 1, Len(digits)))

(* count_digits: how many there are from a place on.                       *)
CountDigits(text, from) ==
  LET Ends == {n \in from..Len(text) + 1 : n = Len(text) + 1 \/ text[n] \notin Digits}
  IN  (CHOOSE n \in Ends : \A m \in Ends : n <= m) - from

Holds(text, place, characters) == place <= Len(text) /\ text[place] \in characters

(* is_decimal_literal: digits, a fraction and an exponent, the number of   *)
(* digits before and after the point not both nothing.                     *)
IsDecimalLiteral(text) ==
  LET whole == CountDigits(text, 1)
      hasPoint == Holds(text, whole + 1, {Point})
      fraction == IF hasPoint THEN CountDigits(text, whole + 2) ELSE 0
      afterMantissa == whole + fraction + (IF hasPoint THEN 2 ELSE 1)
      hasExponent == Holds(text, afterMantissa, {Exponent})
      signed == Holds(text, afterMantissa + 1, {Plus, Minus})
      exponentFrom == afterMantissa + (IF signed THEN 2 ELSE 1)
      exponent == CountDigits(text, exponentFrom)
  IN  /\ whole + fraction > 0
      /\ IF ~hasExponent THEN afterMantissa = Len(text) + 1
         ELSE exponent > 0 /\ exponentFrom + exponent = Len(text) + 1

Signs == {Plus, Minus}

Unsigned(text) == IF Holds(text, 1, Signs) THEN Tail(text) ELSE text

(* parse_real refuses what is not a literal after one sign.  What it does  *)
(* take, strtod reads: the digits, and where the point stands among them.  *)
IsReal(text) == IsDecimalLiteral(Unsigned(text))

DigitsOf(text) == SelectSeq(text, LAMBDA c : c \in Digits)

(* Of a literal with no exponent, as shortest() writes it.                 *)
Parsed(text) ==
  LET body == Unsigned(text)
  IN  [negative |-> Holds(text, 1, {Minus}), digits |-> DigitsOf(body),
       point |-> CountDigits(body, 1)]

(* Two decimals are the same number if they are the same digits without    *)
(* the zeros at either end.                                                *)
Normal(decimal) ==
  LET d == decimal.digits
      Used == {i \in DOMAIN d : d[i] # 0}
  IN  IF Used = {} THEN [decimal EXCEPT !.digits = <<>>, !.point = 0]
      ELSE LET first == CHOOSE i \in Used : \A j \in Used : i <= j
               last == CHOOSE i \in Used : \A j \in Used : i >= j
           IN  [decimal EXCEPT !.digits = SubSeq(d, first, last), !.point = @ - first + 1]
====================================================================================
