---------------------------- MODULE Conversions ----------------------------
(***************************************************************************)
(* The conversions of the parser against their references: the classes of  *)
(* Numeral for every text of number characters up to MaxText of them, and  *)
(* CodePoint for the code points of Ranges, read and written in UTF-16     *)
(* (RFC 2781) and UTF-8 (RFC 3629).                                        *)
(***************************************************************************)
EXTENDS Numeral, CodePoint

CONSTANTS
  Alphabet,  \* number characters
  MaxText,   \* bound: length of a number text
  Ranges     \* set of <<first, last>> code points

LastCodePoint == 1114111

CodePoints == 0 .. LastCodePoint

ASSUME AlphabetAssumption == Alphabet \subseteq NumberChars
ASSUME MaxTextAssumption == MaxText \in Nat
ASSUME RangesAssumption == Ranges \subseteq CodePoints \X CodePoints

VARIABLES
  text,   \* the characters in lastValue_, << >> while code points are visited
  class,  \* their class
  cp      \* a code point, -1 while numbers are visited

vars == << text, class, cp >>

Init ==
  \/ /\ \E c \in Alphabet \ ({"."} \cup Exponent \cup {"+"}) :
          text = << c >> /\ class = FirstClass(c)
     /\ cp = -1
  \/ /\ text = << >> /\ class = "bad"
     /\ \E r \in Ranges : cp = r[1]

NextText == \E c \in Alphabet :
              /\ Len(text) \in 1 .. MaxText - 1
              /\ text' = Append(text, c)
              /\ class' = Extended(class, c)
              /\ UNCHANGED cp

NextCodePoint == \E r \in Ranges :
                   /\ cp \in r[1] .. r[2] - 1
                   /\ cp' = cp + 1
                   /\ UNCHANGED << text, class >>

Next == NextText \/ NextCodePoint

Spec == Init /\ [][Next]_vars

-----------------------------------------------------------------------------
(* Numbers: what strtod reads (C17, 7.22.1.3).                             *)

AllDigits(t) == \A i \in 1 .. Len(t) : t[i] \in Digits19 \cup {"0"}

Upto(t, i) == SubSeq(t, 1, i)
From(t, i) == SubSeq(t, i, Len(t))

\* digits, digits. or digits.digits or .digits
IsLooseDecimal(t) ==
  \/ t # << >> /\ AllDigits(t)
  \/ \E i \in 1 .. Len(t) :
       t[i] = "." /\ Len(t) > 1 /\ AllDigits(Upto(t, i - 1)) /\ AllDigits(From(t, i + 1))

IsExponent(t) ==
  \/ t # << >> /\ AllDigits(t)
  \/ Len(t) > 1 /\ t[1] \in Signs /\ AllDigits(From(t, 2))

IsRead(t) ==
  \/ IsLooseDecimal(t)
  \/ \E i \in 1 .. Len(t) :
       t[i] \in Exponent /\ IsLooseDecimal(Upto(t, i - 1)) /\ IsExponent(From(t, i + 1))

Unsigned(t) == IF t[1] = "-" THEN From(t, 2) ELSE t

\* string_to_double succeeds on the text the parser collected (strtod reads all of
\* it) exactly when its class says so.
ClassTellsStrtod ==
  text # << >> => (class \in StrtodReadsAll <=> IsRead(Unsigned(text)))

-----------------------------------------------------------------------------
(* Code points.                                                            *)

Continuation == 128 .. 191

\* The sequences of RFC 3629, section 4: none longer than needed, no surrogate, nothing
\* above U+10FFFF.
WellFormed(b) ==
  /\ \/ Len(b) = 1 /\ b[1] \in 0 .. 127
     \/ Len(b) = 2 /\ b[1] \in 194 .. 223
     \/ Len(b) = 3 /\ \/ b[1] = 224 /\ b[2] \in 160 .. 191
                      \/ b[1] \in 225 .. 239 \ {237}
                      \/ b[1] = 237 /\ b[2] \in 128 .. 159
     \/ Len(b) = 4 /\ \/ b[1] = 240 /\ b[2] \in 144 .. 191
                      \/ b[1] \in 241 .. 243
                      \/ b[1] = 244 /\ b[2] \in 128 .. 143
  /\ \A i \in 2 .. Len(b) : b[i] \in Continuation

Decoded(b) ==
  IF Len(b) = 1 THEN b[1]
  ELSE IF Len(b) = 2 THEN (b[1] - 192) * 64 + (b[2] - 128)
  ELSE IF Len(b) = 3 THEN (b[1] - 224) * 4096 + (b[2] - 128) * 64 + (b[3] - 128)
  ELSE (b[1] - 240) * 262144 + (b[2] - 128) * 4096 + (b[3] - 128) * 64 + (b[4] - 128)

\* The code points that append_code_point does not write as UTF-8: the surrogates, which
\* have no bytes in UTF-8, and U+07FF, for which it takes three bytes where two are due
\* (helper_functions.h:335 has < 0x7FF).
Misspelt == HighSurrogate \cup LowSurrogate \cup {2047}

\* The bytes append_code_point writes decode to the code point, and they are UTF-8 for
\* every code point but the misspelt ones, for none of which they are.
DecodesBack ==
  cp >= 0 =>
    LET b == append_code_point(cp)
    IN  Decoded(b) = cp /\ (WellFormed(b) <=> cp \notin Misspelt)

Read(units) == [i \in 1 .. Len(units) |-> UnitOf(append_single_codepoint(units[i]))]

\* What string output writes for the bytes of a code point the parser reads back as
\* that code point, in one escape or in a pair; append_code_point, char_to_tmp and
\* consume_stringuvalue3_ .. 9_ agree on it.
EscapesReadBack ==
  cp >= 128 /\ cp \notin HighSurrogate \cup LowSurrogate =>
    LET units == Read(escaped_units(append_code_point(cp)))
    IN  \/ Len(units) = 1 /\ ~StartsPair(units[1]) /\ units[1] = cp
        \/ /\ Len(units) = 2 /\ StartsPair(units[1]) /\ EndsPair(units[2])
           /\ PairValue(units[1], units[2]) = cp

\* The control characters are read back from the digits written for them, all but U+0010:
\* char_to_tmp splits the digits only above 16 (output.h:541) and writes \u000? for it.
ControlsReadBack == cp \in 0 .. 31 => (UnitOf(control_digits(cp)) = cp <=> cp # 16)
=============================================================================
