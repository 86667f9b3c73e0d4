------------------------------ MODULE Numeral ------------------------------
(***************************************************************************)
(* The text of a number while the parser collects it in lastValue_, up to  *)
(* what the code tells apart: whether strtod would read all of it          *)
(* (helper_functions.h, string_to_double).  consume_number_ itself accepts *)
(* any mix of digits, points, signs and exponent letters and leaves the    *)
(* decision to strtod.                                                     *)
(*                                                                         *)
(*   minus  -        zero  0, -0           int        12, -12, 00, -013    *)
(*   point  -.       frac  1., 1.5, -.5    exp, expsign, expdigits         *)
(*                                                    1e, 1e-, 1e-7        *)
(*   bad    no continuation makes strtod read the whole text               *)
(***************************************************************************)
EXTENDS Naturals

Digits19 == {"1", "2", "3", "4", "5", "6", "7", "8", "9"}
Exponent == {"e", "E"}
Signs == {"-", "+"}

\* The characters consume_number_ appends to lastValue_.
NumberChars == Digits19 \cup {"0", "."} \cup Exponent \cup Signs

\* Where each class goes on a digit, a point, an exponent letter and a sign.
Arc(z, d, p, e, s) == [zero |-> z, digit |-> d, point |-> p, exp |-> e, sign |-> s]

Arcs ==
  [minus     |-> Arc("zero", "int", "point", "bad", "bad"),
   zero      |-> Arc("int", "int", "frac", "exp", "bad"),
   int       |-> Arc("int", "int", "frac", "exp", "bad"),
   point     |-> Arc("frac", "frac", "bad", "bad", "bad"),
   frac      |-> Arc("frac", "frac", "bad", "exp", "bad"),
   exp       |-> Arc("expdigits", "expdigits", "bad", "bad", "expsign"),
   expsign   |-> Arc("expdigits", "expdigits", "bad", "bad", "bad"),
   expdigits |-> Arc("expdigits", "expdigits", "bad", "bad", "bad"),
   bad       |-> Arc("bad", "bad", "bad", "bad", "bad")]

Classes == DOMAIN Arcs

\* truncate(lastValue_) and append of the first character.
FirstClass(c) ==
  CASE c = "-" -> "minus"
    [] c = "0" -> "zero"
    [] OTHER   -> "int"

\* append(lastValue_, c)
Extended(class, c) ==
  LET arc == Arcs[class]
  IN  CASE c = "0"           -> arc.zero
        [] c \in Digits19    -> arc.digit
        [] c = "."           -> arc.point
        [] c \in Exponent    -> arc.exp
        [] c \in Signs       -> arc.sign

\* Mutant of StrtodReadsAll: no exponent is read.
StrtodWithoutExponent == {"zero", "int", "frac"}

\* The texts strtod reads to their last character.
StrtodReadsAll == {"zero", "int", "frac", "expdigits"}

\* errno = ERANGE is possible for every text but a plain zero.
MayOverflow(class) == class # "zero"
=============================================================================
