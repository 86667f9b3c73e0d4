----------------------------- MODULE CodePoint -----------------------------
(***************************************************************************)
(* The code points of \u escapes: hexadecimal digits, the two halves of    *)
(* lastCodePoint and the UTF-8 bytes append_code_point writes.             *)
(*                                                                         *)
(* lastCodePoint is a 32 bit word of which the parser uses the halves      *)
(* apart (the first unit of a pair is shifted left by 16), so it is        *)
(* modelled by its halves, each below 2^16.                                *)
(***************************************************************************)
EXTENDS Integers, Sequences

Unit == 0 .. 65535

\* -1 for a character that is no hexadecimal digit.
hexdigit_val(c) ==
  CASE c = "0" -> 0  [] c = "1" -> 1  [] c = "2" -> 2  [] c = "3" -> 3
    [] c = "4" -> 4  [] c = "5" -> 5  [] c = "6" -> 6  [] c = "7" -> 7
    [] c = "8" -> 8  [] c = "9" -> 9
    [] c \in {"a", "A"} -> 10  [] c \in {"b", "B"} -> 11
    [] c \in {"c", "C"} -> 12  [] c \in {"d", "D"} -> 13
    [] c \in {"e", "E"} -> 14  [] c \in {"f", "F"} -> 15
    [] OTHER -> -1

HighSurrogate == 55296 .. 56319   \* D800 .. DBFF
LowSurrogate  == 56320 .. 57343   \* DC00 .. DFFF

\* Mutant of StartsPair: the upper bound is forgotten.
StartsPairUnbounded(unit) == unit >= 55296

\* The test consume_stringuvalue3_ makes before it waits for a second unit.
StartsPair(unit) == unit >= 55296 /\ unit < 57343

\* The test consume_stringuvalue9_ makes on the second unit.
EndsPair(unit) == unit >= 56320

\* Mutant of PairValue: the offset of the supplementary planes is forgotten.
PairValueNoOffset(high, low) == (high - 55296) * 1024 + (low - 56320)

\* val32 in consume_stringuvalue9_
PairValue(high, low) == (high - 55296) * 1024 + (low - 56320) + 65536

\* Mutant of append_code_point: two bytes are taken for ten bits only.
append_code_point_ten_bits(cp) ==
  IF cp < 128 THEN << cp >>
  ELSE IF cp < 1023 THEN << 192 + (cp \div 64), 128 + (cp % 64) >>
  ELSE IF cp <= 65535
       THEN << 224 + (cp \div 4096), 128 + ((cp \div 64) % 64), 128 + (cp % 64) >>
  ELSE << 240 + (cp \div 262144), 128 + ((cp \div 4096) % 64),
          128 + ((cp \div 64) % 64), 128 + (cp % 64) >>

\* The bytes append_code_point appends to a buffer of one-byte characters.
append_code_point(cp) ==
  IF cp < 128 THEN << cp >>
  ELSE IF cp < 2047 THEN << 192 + (cp \div 64), 128 + (cp % 64) >>
  ELSE IF cp <= 65535
       THEN << 224 + (cp \div 4096), 128 + ((cp \div 64) % 64), 128 + (cp % 64) >>
  ELSE IF cp <= 2097152
       THEN << 240 + (cp \div 262144), 128 + ((cp \div 4096) % 64),
               128 + ((cp \div 64) % 64), 128 + (cp % 64) >>
  ELSE << >>
-----------------------------------------------------------------------------
(* The other direction: the escapes output.h writes for a character.       *)

\* output_utilities.h
hexchar(val) ==
  IF val < 16 THEN << "0", "1", "2", "3", "4", "5", "6", "7", "8", "9",
                      "A", "B", "C", "D", "E", "F" >>[val + 1]
              ELSE "?"

\* Mutant of escaped_units: the offset of the supplementary planes is forgotten.
escaped_units_no_offset(b) ==
  CASE Len(b) = 2 -> << (b[1] - 192) * 64 + (b[2] - 128) >>
    [] Len(b) = 3 -> << (b[1] % 16) * 4096 + (b[2] % 64) * 64 + (b[3] % 64) >>
    [] Len(b) = 4 ->
         LET cp == (b[1] % 8) * 262144 + (b[2] % 64) * 4096 + (b[3] % 64) * 64 + (b[4] % 64)
         IN  << (cp \div 1024) + 55296, (cp % 1024) + 56320 >>

\* The values of the \u escapes char_to_tmp writes for the bytes of a code point.
escaped_units(b) ==
  CASE Len(b) = 2 -> << (b[1] - 192) * 64 + (b[2] - 128) >>
    [] Len(b) = 3 -> << (b[1] % 16) * 4096 + (b[2] % 64) * 64 + (b[3] % 64) >>
    [] Len(b) = 4 ->
         LET cp == (b[1] % 8) * 262144 + (b[2] % 64) * 4096 + (b[3] % 64) * 64 + (b[4] % 64)
         IN  << (cp \div 1024) - 64 + 55296, (cp % 1024) + 56320 >>

\* append_single_codepoint
append_single_codepoint(unit) ==
  << hexchar(unit \div 4096), hexchar((unit \div 256) % 16),
     hexchar((unit \div 16) % 16), hexchar(unit % 16) >>

\* Mutant of control_digits: the sixteen is not taken off the second digit.
control_digits_unsplit(v) ==
  << "0", "0", IF v > 16 THEN hexchar(v \div 16) ELSE "0", hexchar(v) >>

\* The digits after \u for a control character.
control_digits(v) ==
  << "0", "0", IF v > 16 THEN hexchar(v \div 16) ELSE "0",
     hexchar(IF v > 16 THEN v % 16 ELSE v) >>

\* The value the parser gives to four digits.
UnitOf(digits) ==
  hexdigit_val(digits[1]) * 4096 + hexdigit_val(digits[2]) * 256
    + hexdigit_val(digits[3]) * 16 + hexdigit_val(digits[4])
=============================================================================
