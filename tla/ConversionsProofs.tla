------------------------- MODULE ConversionsProofs -------------------------
(***************************************************************************)
(* Proofs about Conversions: the code points are written and read back for *)
(* all of Unicode, and the classes of Numeral say for texts of every       *)
(* length whether strtod reads them.                                       *)
(***************************************************************************)
EXTENDS Conversions, SequenceTheorems, TLAPS

-----------------------------------------------------------------------------
(* Code points.                                                            *)

LEMMA Bounds ==
  ASSUME NEW c \in CodePoints
  PROVE  c \in Int /\ 0 <= c /\ c < 5 * 262144
<1>1. LastCodePoint \in Int /\ LastCodePoint < 5 * 262144
  BY SMT DEF LastCodePoint
<1> QED BY SMT, <1>1 DEF CodePoints

\* What the bytes of a code point hold, by the number of them.
InTwo(c, b) ==
  \E q, r \in Int :
    /\ 0 <= q /\ q < 32 /\ 0 <= r /\ r < 64
    /\ c = q * 64 + r
    /\ b = << 192 + q, 128 + r >>

InThree(c, b) ==
  \E p, q, r \in Int :
    /\ 0 <= p /\ p < 16 /\ 0 <= q /\ q < 64 /\ 0 <= r /\ r < 64
    /\ c = p * 4096 + q * 64 + r
    /\ b = << 224 + p, 128 + q, 128 + r >>

InFour(c, b) ==
  \E o, p, q, r \in Int :
    /\ 0 <= o /\ o < 5 /\ 0 <= p /\ p < 64 /\ 0 <= q /\ q < 64 /\ 0 <= r /\ r < 64
    /\ c = o * 262144 + p * 4096 + q * 64 + r
    /\ b = << 240 + o, 128 + p, 128 + q, 128 + r >>

LEMMA OneByte ==
  ASSUME NEW c \in Int, 0 <= c, c < 128
  PROVE  append_code_point(c) = << c >>
BY SMT DEF append_code_point

LEMMA TwoBytes ==
  ASSUME NEW c \in Int, 128 <= c, c < 2047
  PROVE  InTwo(c, append_code_point(c))
<1>1. append_code_point(c) = << 192 + (c \div 64), 128 + (c % 64) >>
  BY SMT DEF append_code_point
<1>2. /\ c \div 64 \in Int /\ 0 <= c \div 64 /\ c \div 64 < 32
      /\ c % 64 \in Int /\ 0 <= c % 64 /\ c % 64 < 64 /\ c = (c \div 64) * 64 + (c % 64)
  BY SMT
<1> QED BY SMT, <1>1, <1>2 DEF InTwo

LEMMA ThreeBytes ==
  ASSUME NEW c \in Int, 2047 <= c, c <= 65535
  PROVE  InThree(c, append_code_point(c))
<1> DEFINE p == c \div 4096
           q == (c \div 64) % 64
           r == c % 64
<1>1. append_code_point(c) = << 224 + p, 128 + q, 128 + r >>
  BY SMT DEF append_code_point
<1>2. /\ p \in Int /\ q \in Int /\ r \in Int
      /\ 0 <= p /\ p < 16 /\ 0 <= q /\ q < 64 /\ 0 <= r /\ r < 64
      /\ c = p * 4096 + q * 64 + r
  BY SMT
<1> HIDE DEF p, q, r
<1> QED BY SMT, <1>1, <1>2 DEF InThree

LEMMA FourBytes ==
  ASSUME NEW c \in Int, 65535 < c, c < 5 * 262144
  PROVE  InFour(c, append_code_point(c))
<1> DEFINE o == c \div 262144
           p == (c \div 4096) % 64
           q == (c \div 64) % 64
           r == c % 64
<1>1. append_code_point(c) = << 240 + o, 128 + p, 128 + q, 128 + r >>
  BY SMT DEF append_code_point
<1>2. /\ o \in Int /\ p \in Int /\ q \in Int /\ r \in Int
      /\ 0 <= o /\ o < 5 /\ 0 <= p /\ p < 64 /\ 0 <= q /\ q < 64 /\ 0 <= r /\ r < 64
      /\ c = o * 262144 + p * 4096 + q * 64 + r
  BY SMT
<1> HIDE DEF o, p, q, r
<1> QED BY SMT, <1>1, <1>2 DEF InFour

LEMMA MisspeltIs ==
  ASSUME NEW c \in Int
  PROVE  c \in Misspelt <=> c = 2047 \/ (55296 <= c /\ c <= 57343)
BY SMT DEF Misspelt, HighSurrogate, LowSurrogate

LEMMA Decodes ==
  ASSUME NEW c \in CodePoints
  PROVE  /\ Decoded(append_code_point(c)) = c
         /\ WellFormed(append_code_point(c)) <=> c \notin Misspelt
<1> DEFINE b == append_code_point(c)
<1>0. c \in Int /\ 0 <= c /\ c < 5 * 262144 /\ c <= LastCodePoint
  BY SMT, Bounds DEF CodePoints
<1>1. CASE c < 128
  <2>1. b = << c >>
    BY <1>0, <1>1, OneByte
  <2>2. Len(b) = 1 /\ b[1] = c
    BY SMT, <2>1
  <2> HIDE DEF b
  <2>3. WellFormed(b)
    <3>1. 2 .. Len(b) = {}
      BY SMT, <2>2
    <3> QED BY SMT, <1>0, <1>1, <2>2, <3>1 DEF WellFormed
  <2>4. Decoded(b) = c
    BY SMT, <2>2 DEF Decoded
  <2>5. c \notin Misspelt
    BY SMT, <1>0, <1>1, MisspeltIs
  <2> QED BY <2>3, <2>4, <2>5 DEF b
<1>2. CASE 128 <= c /\ c < 2047
  <2>a. InTwo(c, b)
    BY SMT, <1>0, <1>2, TwoBytes
  <2>1. PICK q, r \in Int :
           /\ 0 <= q /\ q < 32 /\ 0 <= r /\ r < 64 /\ c = q * 64 + r
           /\ b = << 192 + q, 128 + r >>
    BY SMT, <2>a DEF InTwo
  <2>2. Len(b) = 2 /\ b[1] = 192 + q /\ b[2] = 128 + r
    BY SMT, <2>1
  <2> HIDE DEF b
  <2>3. \A i \in 2 .. 2 : b[i] \in Continuation
    BY SMT, <2>1, <2>2 DEF Continuation
  <2>4. WellFormed(b)
    <3>1. 2 <= q
      BY SMT, <1>2, <2>1
    <3> QED BY SMT, <2>1, <2>2, <2>3, <3>1 DEF WellFormed
  <2>5. Decoded(b) = c
    BY SMT, <2>1, <2>2 DEF Decoded
  <2>6. c \notin Misspelt
    BY SMT, <1>0, <1>2, MisspeltIs
  <2> QED BY <2>4, <2>5, <2>6 DEF b
<1>3. CASE 2047 <= c /\ c <= 65535
  <2>a. InThree(c, b)
    BY SMT, <1>0, <1>3, ThreeBytes
  <2>1. PICK p, q, r \in Int :
           /\ 0 <= p /\ p < 16 /\ 0 <= q /\ q < 64 /\ 0 <= r /\ r < 64
           /\ c = p * 4096 + q * 64 + r
           /\ b = << 224 + p, 128 + q, 128 + r >>
    BY SMT, <2>a DEF InThree
  <2>2. Len(b) = 3 /\ b[1] = 224 + p /\ b[2] = 128 + q /\ b[3] = 128 + r
    BY SMT, <2>1
  <2> HIDE DEF b
  <2>3. \A i \in 2 .. 3 : b[i] \in Continuation
    BY SMT, <2>1, <2>2 DEF Continuation
  <2>4. WellFormed(b) <=> \/ p = 0 /\ 32 <= q
                          \/ p # 0 /\ p # 13
                          \/ p = 13 /\ q < 32
    <3>1. WellFormed(b) <=> \/ b[1] = 224 /\ b[2] \in 160 .. 191
                            \/ b[1] \in 225 .. 239 \ {237}
                            \/ b[1] = 237 /\ b[2] \in 128 .. 159
      BY SMT, <2>2, <2>3 DEF WellFormed
    <3>2. /\ b[1] = 224 <=> p = 0
          /\ b[1] = 237 <=> p = 13
          /\ b[1] \in 225 .. 239 <=> p # 0
          /\ b[2] \in 160 .. 191 <=> 32 <= q
          /\ b[2] \in 128 .. 159 <=> q < 32
      BY SMT, <2>1, <2>2
    <3> QED BY <3>1, <3>2
  <2>5. c = 2047 <=> p = 0 /\ q < 32
    BY SMT, <1>3, <2>1
  <2>6. 55296 <= c /\ c <= 57343 <=> p = 13 /\ 32 <= q
    BY SMT, <2>1
  <2>7. WellFormed(b) <=> c \notin Misspelt
    <3>1. 32 <= q <=> ~(q < 32)
      BY SMT, <2>1
    <3>2. c \in Misspelt <=> c = 2047 \/ (55296 <= c /\ c <= 57343)
      BY <1>0, MisspeltIs
    <3> QED BY <2>4, <2>5, <2>6, <3>1, <3>2
  <2>8. Decoded(b) = c
    BY SMT, <2>1, <2>2 DEF Decoded
  <2> QED BY <2>7, <2>8 DEF b
<1>4. CASE 65535 < c
  <2>a. InFour(c, b)
    BY SMT, <1>0, <1>4, FourBytes
  <2>1. PICK o, p, q, r \in Int :
           /\ 0 <= o /\ o < 5 /\ 0 <= p /\ p < 64
           /\ 0 <= q /\ q < 64 /\ 0 <= r /\ r < 64
           /\ c = o * 262144 + p * 4096 + q * 64 + r
           /\ b = << 240 + o, 128 + p, 128 + q, 128 + r >>
    BY SMT, <2>a DEF InFour
  <2>2. Len(b) = 4 /\ b[1] = 240 + o /\ b[2] = 128 + p /\ b[3] = 128 + q /\ b[4] = 128 + r
    BY SMT, <2>1
  <2> HIDE DEF b
  <2>3. \A i \in 2 .. 4 : b[i] \in Continuation
    BY SMT, <2>1, <2>2 DEF Continuation
  <2>4. (o = 0 => 16 <= p) /\ (o = 4 => p < 16)
    BY SMT, <1>0, <1>4, <2>1 DEF LastCodePoint
  <2>5. WellFormed(b)
    BY SMT, <2>1, <2>2, <2>3, <2>4 DEF WellFormed
  <2>6. Decoded(b) = c
    BY SMT, <2>1, <2>2 DEF Decoded
  <2>7. c \notin Misspelt
    BY SMT, <1>0, <1>4, MisspeltIs
  <2> QED BY <2>5, <2>6, <2>7 DEF b
<1> QED BY SMT, <1>0, <1>1, <1>2, <1>3, <1>4

LEMMA HexDigits ==
  ASSUME NEW v \in 0 .. 15
  PROVE  hexdigit_val(hexchar(v)) = v
<1>1. \/ v = 0 \/ v = 1 \/ v = 2 \/ v = 3 \/ v = 4 \/ v = 5 \/ v = 6 \/ v = 7
      \/ v = 8 \/ v = 9 \/ v = 10 \/ v = 11 \/ v = 12 \/ v = 13 \/ v = 14 \/ v = 15
  BY SMT
<1> QED BY SMT, <1>1 DEF hexdigit_val, hexchar

\* The four digits written for a unit are read as that unit.
LEMMA UnitReadBack ==
  ASSUME NEW unit \in Int, 0 <= unit, unit <= 65535
  PROVE  UnitOf(append_single_codepoint(unit)) = unit
<1> DEFINE a == unit \div 4096
           b == (unit \div 256) % 16
           c == (unit \div 16) % 16
           d == unit % 16
<1>1. a \in 0 .. 15 /\ b \in 0 .. 15 /\ c \in 0 .. 15 /\ d \in 0 .. 15
  <2>1. a \in Int /\ b \in Int /\ c \in Int /\ d \in Int
    BY SMT
  <2>2. /\ 0 <= a /\ a <= 15 /\ 0 <= b /\ b <= 15
        /\ 0 <= c /\ c <= 15 /\ 0 <= d /\ d <= 15
    BY SMT
  <2> HIDE DEF a, b, c, d
  <2> QED BY SMT, <2>1, <2>2
<1>2. unit = a * 4096 + b * 256 + c * 16 + d
  BY SMT
<1>3. append_single_codepoint(unit) = << hexchar(a), hexchar(b), hexchar(c), hexchar(d) >>
  BY DEF append_single_codepoint
<1>4. /\ hexdigit_val(hexchar(a)) = a /\ hexdigit_val(hexchar(b)) = b
      /\ hexdigit_val(hexchar(c)) = c /\ hexdigit_val(hexchar(d)) = d
  BY <1>1, HexDigits
<1> HIDE DEF a, b, c, d
<1>5. UnitOf(append_single_codepoint(unit)) = a * 4096 + b * 256 + c * 16 + d
  BY <1>3, <1>4 DEF UnitOf
<1> QED BY <1>2, <1>5

LEMMA EscapesOfTwo ==
  ASSUME NEW c \in Int, 128 <= c, c < 2047
  PROVE  escaped_units(append_code_point(c)) = << c >>
<1> DEFINE b == append_code_point(c)
<1>a. InTwo(c, b)
  BY SMT, TwoBytes
<1>1. PICK q, r \in Int :
         /\ 0 <= q /\ q < 32 /\ 0 <= r /\ r < 64 /\ c = q * 64 + r
         /\ b = << 192 + q, 128 + r >>
  BY SMT, <1>a DEF InTwo
<1>2. Len(b) = 2 /\ b[1] = 192 + q /\ b[2] = 128 + r
  BY SMT, <1>1
<1> HIDE DEF b
<1>3. escaped_units(b) = << (b[1] - 192) * 64 + (b[2] - 128) >>
  BY SMT, <1>2 DEF escaped_units
<1> QED BY SMT, <1>1, <1>2, <1>3 DEF b

\* The escapes of the bytes of a code point: one unit or a pair.
LEMMA Escapes ==
  ASSUME NEW c \in Int, 128 <= c, c < 5 * 262144
  PROVE  escaped_units(append_code_point(c)) =
           IF c <= 65535 THEN << c >>
           ELSE << (c \div 1024) - 64 + 55296, (c % 1024) + 56320 >>
<1> DEFINE b == append_code_point(c)
<1>0. c \in Int /\ 128 <= c /\ c < 5 * 262144
  BY SMT
<1>1. CASE c < 2047
  BY SMT, <1>0, <1>1, EscapesOfTwo
<1>2. CASE 2047 <= c /\ c <= 65535
  <2>a. InThree(c, b)
    BY SMT, <1>0, <1>2, ThreeBytes
  <2>1. PICK p, q, r \in Int :
           /\ 0 <= p /\ p < 16 /\ 0 <= q /\ q < 64 /\ 0 <= r /\ r < 64
           /\ c = p * 4096 + q * 64 + r
           /\ b = << 224 + p, 128 + q, 128 + r >>
    BY SMT, <2>a DEF InThree
  <2>2. Len(b) = 3 /\ b[1] = 224 + p /\ b[2] = 128 + q /\ b[3] = 128 + r
    BY SMT, <2>1
  <2> HIDE DEF b
  <2>3. escaped_units(b) = << (b[1] % 16) * 4096 + (b[2] % 64) * 64 + (b[3] % 64) >>
    BY <2>2 DEF escaped_units
  <2>4. b[1] % 16 = p /\ b[2] % 64 = q /\ b[3] % 64 = r
    BY SMT, <2>1, <2>2
  <2>5. escaped_units(b) = << c >>
    BY SMT, <2>1, <2>3, <2>4
  <2> QED BY SMT, <1>2, <2>5 DEF b
<1>3. CASE 65535 < c
  <2>a. InFour(c, b)
    BY SMT, <1>0, <1>3, FourBytes
  <2>1. PICK o, p, q, r \in Int :
           /\ 0 <= o /\ o < 5 /\ 0 <= p /\ p < 64
           /\ 0 <= q /\ q < 64 /\ 0 <= r /\ r < 64
           /\ c = o * 262144 + p * 4096 + q * 64 + r
           /\ b = << 240 + o, 128 + p, 128 + q, 128 + r >>
    BY SMT, <2>a DEF InFour
  <2>2. Len(b) = 4 /\ b[1] = 240 + o /\ b[2] = 128 + p /\ b[3] = 128 + q /\ b[4] = 128 + r
    BY SMT, <2>1
  <2> HIDE DEF b
  <2> DEFINE d == (b[1] % 8) * 262144 + (b[2] % 64) * 4096 + (b[3] % 64) * 64 + (b[4] % 64)
  <2>3. escaped_units(b) = << (d \div 1024) - 64 + 55296, (d % 1024) + 56320 >>
    BY <2>2 DEF escaped_units
  <2>4. b[1] % 8 = o /\ b[2] % 64 = p /\ b[3] % 64 = q /\ b[4] % 64 = r
    BY SMT, <2>1, <2>2
  <2>5. d = c
    BY SMT, <2>1, <2>4
  <2> HIDE DEF d
  <2>6. escaped_units(b) = << (c \div 1024) - 64 + 55296, (c % 1024) + 56320 >>
    BY <2>3, <2>5
  <2> QED BY SMT, <1>3, <2>6 DEF b
<1> QED BY SMT, <1>1, <1>2, <1>3

LEMMA NoSurrogate ==
  ASSUME NEW c \in Int, c \notin HighSurrogate \cup LowSurrogate
  PROVE  ~StartsPair(c)
BY SMT DEF StartsPair, HighSurrogate, LowSurrogate

LEMMA ReadsBack ==
  ASSUME NEW c \in CodePoints, c >= 128, c \notin HighSurrogate \cup LowSurrogate
  PROVE  LET units == Read(escaped_units(append_code_point(c)))
         IN  \/ Len(units) = 1 /\ ~StartsPair(units[1]) /\ units[1] = c
             \/ /\ Len(units) = 2 /\ StartsPair(units[1]) /\ EndsPair(units[2])
                /\ PairValue(units[1], units[2]) = c
<1> DEFINE e == escaped_units(append_code_point(c))
<1>0. c \in Int /\ 128 <= c /\ c <= LastCodePoint /\ c < 5 * 262144
  BY SMT, Bounds DEF CodePoints
<1>1. CASE c <= 65535
  <2>1. e = << c >>
    BY SMT, <1>0, <1>1, Escapes
  <2>2. UnitOf(append_single_codepoint(c)) = c
    BY SMT, <1>0, <1>1, UnitReadBack
  <2>3. Read(e) = << c >>
    <3> HIDE DEF e
    <3> QED BY SMT, <2>1, <2>2 DEF Read
  <2>4. ~StartsPair(c)
    BY <1>0, NoSurrogate
  <2> HIDE DEF e
  <2> QED BY SMT, <2>3, <2>4 DEF e
<1>2. CASE 65535 < c
  <2> DEFINE h == (c \div 1024) - 64 + 55296
             l == (c % 1024) + 56320
  <2>1. e = << h, l >>
    BY SMT, <1>0, <1>2, Escapes
  <2>2. LastCodePoint < 1088 * 1024
    BY SMT DEF LastCodePoint
  <2>3. /\ h \in Int /\ 55296 <= h /\ h < 56320
        /\ l \in Int /\ 56320 <= l /\ l < 57344
    <3>1. c < 1088 * 1024
      BY SMT, <1>0, <2>2 DEF LastCodePoint
    <3> QED BY SMT, <1>0, <1>2, <3>1
  <2>4. PairValue(h, l) = c
    BY SMT, <1>0, <1>2 DEF PairValue
  <2> HIDE DEF h, l
  <2>5. UnitOf(append_single_codepoint(h)) = h /\ UnitOf(append_single_codepoint(l)) = l
    BY SMT, <2>3, UnitReadBack
  <2>6. Read(e) = << h, l >>
    <3> HIDE DEF e
    <3> QED BY SMT, <2>1, <2>5 DEF Read
  <2>7. StartsPair(h) /\ EndsPair(l)
    BY SMT, <2>3 DEF StartsPair, EndsPair
  <2> HIDE DEF e
  <2> QED BY SMT, <2>4, <2>6, <2>7 DEF e
<1> QED BY SMT, <1>0, <1>1, <1>2

LEMMA ControlReadsBack ==
  ASSUME NEW v \in 0 .. 31 \ {16}
  PROVE  UnitOf(control_digits(v)) = v
<1>0. hexdigit_val("0") = 0
  BY SMT DEF hexdigit_val
<1>1. CASE v > 16
  <2>1. v \div 16 \in 0 .. 15 /\ v % 16 \in 0 .. 15 /\ v = (v \div 16) * 16 + (v % 16)
    BY SMT, <1>1
  <2>2. control_digits(v) = << "0", "0", hexchar(v \div 16), hexchar(v % 16) >>
    BY SMT, <1>1 DEF control_digits
  <2>3. hexdigit_val(hexchar(v \div 16)) = v \div 16 /\ hexdigit_val(hexchar(v % 16)) = v % 16
    BY SMT, <2>1, HexDigits
  <2> QED BY SMT, <1>0, <2>1, <2>2, <2>3 DEF UnitOf
<1>2. CASE v < 16
  <2>1. control_digits(v) = << "0", "0", "0", hexchar(v) >>
    BY SMT, <1>2 DEF control_digits
  <2>2. hexdigit_val(hexchar(v)) = v
    BY SMT, <1>2, HexDigits
  <2> QED BY SMT, <1>0, <2>1, <2>2 DEF UnitOf
<1> QED BY SMT, <1>1, <1>2

LEMMA SixteenLost == UnitOf(control_digits(16)) # 16
<1>1. control_digits(16) = << "0", "0", "0", "?" >>
  BY SMT DEF control_digits, hexchar
<1>2. hexdigit_val("0") = 0 /\ hexdigit_val("?") = -1
  BY SMT DEF hexdigit_val
<1> QED BY SMT, <1>1, <1>2 DEF UnitOf

-----------------------------------------------------------------------------
(* Numbers, by positions in a text.                                        *)

Digits == Digits19 \cup {"0"}

DigitsIn(u, first, last) == \A i \in first .. last : u[i] \in Digits

\* The first n characters are a decimal without an exponent.
Loose(u, n) ==
  \/ n >= 1 /\ DigitsIn(u, 1, n)
  \/ \E i \in 1 .. n : u[i] = "." /\ n > 1 /\ DigitsIn(u, 1, i - 1) /\ DigitsIn(u, i + 1, n)

\* The characters from k on are an exponent.
ExponentFrom(u, k) ==
  \/ k <= Len(u) /\ DigitsIn(u, k, Len(u))
  \/ k < Len(u) /\ u[k] \in Signs /\ DigitsIn(u, k + 1, Len(u))

ReadsAll(u) ==
  \/ Loose(u, Len(u))
  \/ \E i \in 1 .. Len(u) : u[i] \in Exponent /\ Loose(u, i - 1) /\ ExponentFrom(u, i + 1)

LEMMA UptoLoose ==
  ASSUME NEW u \in Seq(NumberChars), NEW n \in 0 .. Len(u)
  PROVE  IsLooseDecimal(Upto(u, n)) <=> Loose(u, n)
<1> DEFINE t == Upto(u, n)
<1>1. t \in Seq(NumberChars) /\ Len(t) = n /\ \A i \in 1 .. n : t[i] = u[i]
  BY SubSeqProperties DEF Upto
<1>2. t # << >> <=> n >= 1
  BY <1>1
<1> HIDE DEF t
<1>3. AllDigits(t) <=> DigitsIn(u, 1, n)
  BY <1>1 DEF AllDigits, DigitsIn, Digits
<1>4. ASSUME NEW i \in 1 .. n
      PROVE  /\ AllDigits(Upto(t, i - 1)) <=> DigitsIn(u, 1, i - 1)
             /\ AllDigits(From(t, i + 1)) <=> DigitsIn(u, i + 1, n)
  <2>1. /\ Len(Upto(t, i - 1)) = i - 1
        /\ \A j \in 1 .. i - 1 : Upto(t, i - 1)[j] = t[j]
    BY <1>1, SubSeqProperties DEF Upto
  <2>2. /\ Len(From(t, i + 1)) = n - i
        /\ \A j \in 1 .. n - i : From(t, i + 1)[j] = t[i + j]
    BY <1>1, SubSeqProperties DEF From
  <2>3. AllDigits(Upto(t, i - 1)) <=> DigitsIn(u, 1, i - 1)
    BY <1>1, <2>1 DEF AllDigits, DigitsIn, Digits
  <2>4. ASSUME AllDigits(From(t, i + 1)) PROVE DigitsIn(u, i + 1, n)
    <3> SUFFICES ASSUME NEW j \in i + 1 .. n PROVE u[j] \in Digits
      BY DEF DigitsIn
    <3>1. j - i \in 1 .. n - i /\ i + (j - i) = j /\ j \in 1 .. n
      OBVIOUS
    <3>2. From(t, i + 1)[j - i] = u[j]
      BY <1>1, <2>2, <3>1
    <3> QED BY <2>2, <2>4, <3>1, <3>2 DEF AllDigits, Digits
  <2>5. ASSUME DigitsIn(u, i + 1, n) PROVE AllDigits(From(t, i + 1))
    <3> SUFFICES ASSUME NEW j \in 1 .. n - i PROVE From(t, i + 1)[j] \in Digits
      BY <2>2 DEF AllDigits, Digits
    <3>1. i + j \in i + 1 .. n /\ i + j \in 1 .. n
      OBVIOUS
    <3> QED BY <1>1, <2>2, <2>5, <3>1 DEF DigitsIn
  <2> QED BY <2>3, <2>4, <2>5
<1>5. IsLooseDecimal(t) <=> Loose(u, n)
  BY <1>1, <1>2, <1>3, <1>4 DEF IsLooseDecimal, Loose
<1> QED BY <1>5 DEF t

LEMMA FromExponent ==
  ASSUME NEW u \in Seq(NumberChars), NEW k \in 2 .. Len(u) + 1
  PROVE  IsExponent(From(u, k)) <=> ExponentFrom(u, k)
<1> DEFINE t == From(u, k)
           n == Len(u) - k + 1
<1>1. /\ t \in Seq(NumberChars) /\ Len(t) = n /\ n \in Nat
      /\ \A i \in 1 .. n : t[i] = u[k + i - 1]
  BY SubSeqProperties DEF From
<1>2. (t # << >> <=> k <= Len(u)) /\ (Len(t) > 1 <=> k < Len(u))
  BY <1>1
<1>3. n > 1 => t[1] = u[k]
  BY <1>1
<1> HIDE DEF t
<1>4. AllDigits(t) <=> DigitsIn(u, k, Len(u))
  <2>1. ASSUME AllDigits(t) PROVE DigitsIn(u, k, Len(u))
    <3> SUFFICES ASSUME NEW j \in k .. Len(u) PROVE u[j] \in Digits
      BY DEF DigitsIn
    <3>1. j - k + 1 \in 1 .. n /\ k + (j - k + 1) - 1 = j
      OBVIOUS
    <3> QED BY <1>1, <2>1, <3>1 DEF AllDigits, Digits
  <2>2. ASSUME DigitsIn(u, k, Len(u)) PROVE AllDigits(t)
    <3> SUFFICES ASSUME NEW j \in 1 .. n PROVE t[j] \in Digits
      BY <1>1 DEF AllDigits, Digits
    <3>1. k + j - 1 \in k .. Len(u)
      OBVIOUS
    <3> QED BY <1>1, <2>2, <3>1 DEF DigitsIn
  <2> QED BY <2>1, <2>2
<1>5. ASSUME n > 1 PROVE AllDigits(From(t, 2)) <=> DigitsIn(u, k + 1, Len(u))
  <2>1. /\ Len(From(t, 2)) = n - 1
        /\ \A i \in 1 .. n - 1 : From(t, 2)[i] = t[i + 1]
    BY <1>1, <1>5, SubSeqProperties DEF From
  <2>2. \A i \in 1 .. n - 1 : From(t, 2)[i] = u[k + i]
    <3> SUFFICES ASSUME NEW i \in 1 .. n - 1 PROVE From(t, 2)[i] = u[k + i]
      OBVIOUS
    <3>1. i + 1 \in 1 .. n /\ k + (i + 1) - 1 = k + i
      OBVIOUS
    <3> QED BY <1>1, <2>1, <3>1
  <2>3. ASSUME AllDigits(From(t, 2)) PROVE DigitsIn(u, k + 1, Len(u))
    <3> SUFFICES ASSUME NEW j \in k + 1 .. Len(u) PROVE u[j] \in Digits
      BY DEF DigitsIn
    <3>1. j - k \in 1 .. n - 1 /\ k + (j - k) = j
      OBVIOUS
    <3> QED BY <2>1, <2>2, <2>3, <3>1 DEF AllDigits, Digits
  <2>4. ASSUME DigitsIn(u, k + 1, Len(u)) PROVE AllDigits(From(t, 2))
    <3> SUFFICES ASSUME NEW j \in 1 .. n - 1 PROVE From(t, 2)[j] \in Digits
      BY <2>1 DEF AllDigits, Digits
    <3>1. k + j \in k + 1 .. Len(u)
      OBVIOUS
    <3> QED BY <2>2, <2>4, <3>1 DEF DigitsIn
  <2> QED BY <2>3, <2>4
<1>6. IsExponent(t) <=> ExponentFrom(u, k)
  BY <1>1, <1>2, <1>3, <1>4, <1>5 DEF IsExponent, ExponentFrom
<1> QED BY <1>6 DEF t

LEMMA ReadIs ==
  ASSUME NEW u \in Seq(NumberChars)
  PROVE  IsRead(u) <=> ReadsAll(u)
<1>1. Upto(u, Len(u)) = u
  BY SubSeqFull DEF Upto
<1>2. IsLooseDecimal(u) <=> Loose(u, Len(u))
  BY <1>1, UptoLoose
<1>3. ASSUME NEW i \in 1 .. Len(u)
      PROVE  /\ IsLooseDecimal(Upto(u, i - 1)) <=> Loose(u, i - 1)
             /\ IsExponent(From(u, i + 1)) <=> ExponentFrom(u, i + 1)
  <2>1. i - 1 \in 0 .. Len(u) /\ i + 1 \in 2 .. Len(u) + 1
    OBVIOUS
  <2> QED BY <2>1, UptoLoose, FromExponent
<1> QED BY <1>2, <1>3 DEF IsRead, ReadsAll

-----------------------------------------------------------------------------
(* What a class says of the characters after the minus sign.               *)

\* No continuation makes strtod read it: a sign that follows no exponent letter, a
\* second point, a second exponent letter or a point behind the first, an exponent
\* letter behind no digit.
Broken(u) ==
  \/ \E i \in 1 .. Len(u) : u[i] \in Signs /\ (i = 1 \/ u[i - 1] \notin Exponent)
  \/ \E i, j \in 1 .. Len(u) : i < j /\ u[i] = "." /\ u[j] = "."
  \/ \E i, j \in 1 .. Len(u) : i < j /\ u[i] \in Exponent /\ u[j] \in Exponent \cup {"."}
  \/ \E i \in 1 .. Len(u) : u[i] \in Exponent /\ \A k \in 1 .. i - 1 : u[k] = "."

IsInteger(u) == Len(u) >= 1 /\ DigitsIn(u, 1, Len(u))

IsPoint(u) == Len(u) = 1 /\ u[1] = "."

IsFraction(u) ==
  /\ Len(u) > 1
  /\ \E i \in 1 .. Len(u) : u[i] = "." /\ DigitsIn(u, 1, i - 1) /\ DigitsIn(u, i + 1, Len(u))

EndsInLetter(u) == Len(u) >= 2 /\ u[Len(u)] \in Exponent /\ Loose(u, Len(u) - 1)

EndsInSign(u) ==
  /\ Len(u) >= 3 /\ u[Len(u)] \in Signs
  /\ u[Len(u) - 1] \in Exponent /\ Loose(u, Len(u) - 2)

HasExponent(u) ==
  \E i \in 1 .. Len(u) : u[i] \in Exponent /\ Loose(u, i - 1) /\ ExponentFrom(u, i + 1)

Shape(kind, u) ==
  /\ kind = "minus" => Len(u) = 0
  /\ kind \in {"zero", "int"} => IsInteger(u)
  /\ kind = "point" => IsPoint(u)
  /\ kind = "frac" => IsFraction(u)
  /\ kind = "exp" => EndsInLetter(u)
  /\ kind = "expsign" => EndsInSign(u)
  /\ kind = "expdigits" => HasExponent(u)
  /\ kind = "bad" => Broken(u)

LEMMA ShapeIs ==
  ASSUME NEW kind, NEW u,
         \/ kind \in {"zero", "int"} /\ IsInteger(u)
         \/ kind = "point" /\ IsPoint(u)
         \/ kind = "frac" /\ IsFraction(u)
         \/ kind = "exp" /\ EndsInLetter(u)
         \/ kind = "expsign" /\ EndsInSign(u)
         \/ kind = "expdigits" /\ HasExponent(u)
         \/ kind = "bad" /\ Broken(u)
  PROVE  kind \in Classes /\ Shape(kind, u)
BY DEF Shape, Classes, Arcs

\* A character is one of five kinds.
LEMMA Kinds ==
  /\ \A c \in Digits : c # "." /\ c \notin Exponent /\ c \notin Signs
  /\ \A c \in Exponent : c # "." /\ c \notin Digits /\ c \notin Signs
  /\ \A c \in Signs : c # "." /\ c \notin Digits /\ c \notin Exponent
  /\ "." \notin Digits /\ "." \notin Exponent /\ "." \notin Signs
BY DEF Digits, Digits19, Exponent, Signs

LEMMA BrokenIsNotRead ==
  ASSUME NEW u \in Seq(NumberChars), Broken(u)
  PROVE  ~ReadsAll(u)
<1>1. ASSUME Loose(u, Len(u)) PROVE FALSE
  <2>1. \A i \in 1 .. Len(u) : u[i] \in Digits \cup {"."}
    BY <1>1 DEF Loose, DigitsIn
  <2>2. \A i, j \in 1 .. Len(u) : i < j /\ u[i] = "." => u[j] # "."
    BY <1>1, Kinds DEF Loose, DigitsIn
  <2> QED BY <2>1, <2>2, Kinds DEF Broken
<1>2. ASSUME NEW e \in 1 .. Len(u), u[e] \in Exponent, Loose(u, e - 1), ExponentFrom(u, e + 1)
      PROVE  FALSE
  <2>1. \A i \in 1 .. e - 1 : u[i] \in Digits \cup {"."}
    BY <1>2 DEF Loose, DigitsIn
  <2>2. \A i, j \in 1 .. e - 1 : i < j /\ u[i] = "." => u[j] # "."
    BY <1>2, Kinds DEF Loose, DigitsIn
  <2>3. \E i \in 1 .. e - 1 : u[i] # "."
    <3>1. CASE e - 1 >= 1 /\ DigitsIn(u, 1, e - 1)
      BY <3>1, Kinds DEF DigitsIn
    <3>2. ASSUME NEW i \in 1 .. e - 1, e - 1 > 1, DigitsIn(u, 1, i - 1), DigitsIn(u, i + 1, e - 1)
          PROVE  \E k \in 1 .. e - 1 : u[k] # "."
      <4>1. CASE i > 1
        BY <3>2, <4>1, Kinds DEF DigitsIn
      <4>2. CASE i = 1
        <5>1. 2 \in i + 1 .. e - 1 /\ 2 \in 1 .. e - 1
          BY <3>2, <4>2
        <5> QED BY <3>2, <5>1, Kinds DEF DigitsIn
      <4> QED BY <4>1, <4>2
    <3> QED BY <1>2, <3>1, <3>2 DEF Loose
  <2>4. \A i \in e + 2 .. Len(u) : u[i] \in Digits
    BY <1>2 DEF ExponentFrom, DigitsIn
  <2>5. e + 1 <= Len(u) => u[e + 1] \in Digits \cup Signs
    BY <1>2 DEF ExponentFrom, DigitsIn
  <2>6. \A i \in e + 1 .. Len(u) : u[i] \notin Exponent \cup {"."}
    BY <2>4, <2>5, Kinds
  <2>7. \A i \in 1 .. e - 1 : u[i] \notin Exponent /\ u[i] \notin Signs
    BY <2>1, Kinds
  <2>8. ~\E i \in 1 .. Len(u) : u[i] \in Signs /\ (i = 1 \/ u[i - 1] \notin Exponent)
    <3> SUFFICES ASSUME NEW i \in 1 .. Len(u), u[i] \in Signs PROVE i # 1 /\ u[i - 1] \in Exponent
      OBVIOUS
    <3>1. i = e + 1
      BY <1>2, <2>4, <2>7, Kinds
    <3> QED BY <1>2, <3>1
  <2>9. ~\E i, j \in 1 .. Len(u) : i < j /\ u[i] = "." /\ u[j] = "."
    BY <1>2, <2>2, <2>6, Kinds
  <2>10. ~\E i, j \in 1 .. Len(u) : i < j /\ u[i] \in Exponent /\ u[j] \in Exponent \cup {"."}
    <3> SUFFICES ASSUME NEW i \in 1 .. Len(u), NEW j \in 1 .. Len(u), i < j, u[i] \in Exponent
                 PROVE  u[j] \notin Exponent \cup {"."}
      OBVIOUS
    <3>1. i = e
      BY <2>6, <2>7
    <3> QED BY <2>6, <3>1
  <2>11. ~\E i \in 1 .. Len(u) : u[i] \in Exponent /\ \A k \in 1 .. i - 1 : u[k] = "."
    <3> SUFFICES ASSUME NEW i \in 1 .. Len(u), u[i] \in Exponent PROVE ~\A k \in 1 .. i - 1 : u[k] = "."
      OBVIOUS
    <3>1. i = e
      BY <2>6, <2>7
    <3> QED BY <2>3, <3>1
  <2> QED BY <2>8, <2>9, <2>10, <2>11 DEF Broken
<1> QED BY <1>1, <1>2 DEF ReadsAll

\* The class of a text of that shape says whether it is read.
LEMMA ShapeTells ==
  ASSUME NEW u \in Seq(NumberChars), NEW kind \in Classes, Shape(kind, u)
  PROVE  kind \in StrtodReadsAll <=> ReadsAll(u)
<1>0. Classes = {"minus", "zero", "int", "point", "frac", "exp", "expsign", "expdigits", "bad"}
  BY DEF Classes, Arcs
<1>1. ASSUME Len(u) >= 1, ReadsAll(u), u[Len(u)] \in Exponent \cup Signs PROVE FALSE
  <2>1. ~Loose(u, Len(u))
    BY <1>1, Kinds DEF Loose, DigitsIn
  <2>2. PICK i \in 1 .. Len(u) : ExponentFrom(u, i + 1)
    BY <1>1, <2>1 DEF ReadsAll
  <2> QED BY <1>1, <2>2, Kinds DEF ExponentFrom, DigitsIn
<1>2. CASE kind = "minus"
  BY <1>2 DEF Shape, IsInteger, IsPoint, IsFraction, EndsInLetter, EndsInSign, HasExponent, ReadsAll, Loose, StrtodReadsAll
<1>3. CASE kind \in {"zero", "int"}
  BY <1>3 DEF Shape, IsInteger, IsPoint, IsFraction, EndsInLetter, EndsInSign, HasExponent, ReadsAll, Loose, StrtodReadsAll
<1>4. CASE kind = "point"
  <2>1. Len(u) = 1 /\ u[1] = "."
    BY <1>4 DEF Shape, IsInteger, IsPoint, IsFraction, EndsInLetter, EndsInSign, HasExponent
  <2>2. ~Loose(u, 1)
    BY <2>1, Kinds DEF Loose, DigitsIn
  <2>3. \A i \in 1 .. 1 : u[i] \notin Exponent
    BY <2>1, Kinds
  <2> QED BY <1>4, <2>1, <2>2, <2>3 DEF ReadsAll, StrtodReadsAll
<1>5. CASE kind = "frac"
  BY <1>5 DEF Shape, IsInteger, IsPoint, IsFraction, EndsInLetter, EndsInSign, HasExponent, ReadsAll, Loose, StrtodReadsAll
<1>6. CASE kind = "exp"
  BY <1>1, <1>6 DEF Shape, IsInteger, IsPoint, IsFraction, EndsInLetter, EndsInSign, HasExponent, StrtodReadsAll
<1>7. CASE kind = "expsign"
  BY <1>1, <1>7 DEF Shape, IsInteger, IsPoint, IsFraction, EndsInLetter, EndsInSign, HasExponent, StrtodReadsAll
<1>8. CASE kind = "expdigits"
  BY <1>8 DEF Shape, IsInteger, IsPoint, IsFraction, EndsInLetter, EndsInSign, HasExponent, ReadsAll, StrtodReadsAll
<1>9. CASE kind = "bad"
  BY <1>9, BrokenIsNotRead DEF Shape, IsInteger, IsPoint, IsFraction, EndsInLetter, EndsInSign, HasExponent, StrtodReadsAll
<1> QED BY <1>0, <1>2, <1>3, <1>4, <1>5, <1>6, <1>7, <1>8, <1>9

\* What a character of each kind makes of a class.
LEMMA Arcing ==
  ASSUME NEW kind \in Classes, NEW c \in NumberChars
  PROVE  /\ c = "0" => Extended(kind, c) = Arcs[kind].zero
         /\ c \in Digits19 => Extended(kind, c) = Arcs[kind].digit
         /\ c = "." => Extended(kind, c) = Arcs[kind].point
         /\ c \in Exponent => Extended(kind, c) = Arcs[kind].exp
         /\ c \in Signs => Extended(kind, c) = Arcs[kind].sign
BY DEF Extended, NumberChars, Digits19, Exponent, Signs

LEMMA ArcsByKind ==
  /\ Arcs["minus"] = Arc("zero", "int", "point", "bad", "bad")
  /\ Arcs["zero"] = Arc("int", "int", "frac", "exp", "bad")
  /\ Arcs["int"] = Arc("int", "int", "frac", "exp", "bad")
  /\ Arcs["point"] = Arc("frac", "frac", "bad", "bad", "bad")
  /\ Arcs["frac"] = Arc("frac", "frac", "bad", "exp", "bad")
  /\ Arcs["exp"] = Arc("expdigits", "expdigits", "bad", "bad", "expsign")
  /\ Arcs["expsign"] = Arc("expdigits", "expdigits", "bad", "bad", "bad")
  /\ Arcs["expdigits"] = Arc("expdigits", "expdigits", "bad", "bad", "bad")
  /\ Arcs["bad"] = Arc("bad", "bad", "bad", "bad", "bad")
BY DEF Arcs

LEMMA ShapeGoesOn ==
  ASSUME NEW u \in Seq(NumberChars), NEW kind \in Classes, Shape(kind, u),
         NEW c \in NumberChars
  PROVE  Extended(kind, c) \in Classes /\ Shape(Extended(kind, c), Append(u, c))
<1> DEFINE v == Append(u, c)
           n == Len(u)
<1>0. Classes = {"minus", "zero", "int", "point", "frac", "exp", "expsign", "expdigits", "bad"}
  BY DEF Classes, Arcs
<1>1. /\ n \in Nat /\ Len(v) = n + 1 /\ v[n + 1] = c
      /\ \A i \in 1 .. n : v[i] = u[i]
  BY AppendProperties
<1>2. c \in Digits \/ c = "." \/ c \in Exponent \/ c \in Signs
  BY DEF NumberChars, Digits
<1> SUFFICES Extended(kind, c) \in Classes /\ Shape(Extended(kind, c), v)
  OBVIOUS
<1> HIDE DEF v
<1>3. ASSUME NEW a \in Nat, NEW b \in 0 .. n, a >= 1 PROVE DigitsIn(v, a, b) <=> DigitsIn(u, a, b)
  BY <1>1, <1>3 DEF DigitsIn
<1>4. ASSUME NEW m \in 0 .. n PROVE Loose(v, m) <=> Loose(u, m)
  <2>1. DigitsIn(v, 1, m) <=> DigitsIn(u, 1, m)
    BY <1>3
  <2>2. \A i \in 1 .. m :
          /\ v[i] = u[i]
          /\ DigitsIn(v, 1, i - 1) <=> DigitsIn(u, 1, i - 1)
          /\ DigitsIn(v, i + 1, m) <=> DigitsIn(u, i + 1, m)
    BY <1>1, <1>3
  <2> QED BY <2>1, <2>2 DEF Loose
<1>5. ASSUME NEW a \in Nat, a >= 1, DigitsIn(v, a, n), c \in Digits PROVE DigitsIn(v, a, n + 1)
  BY <1>1, <1>5 DEF DigitsIn
<1>6. ASSUME Broken(u) PROVE Broken(v)
  <2>1. 1 .. n \subseteq 1 .. Len(v)
    BY <1>1
  <2>2. CASE \E i \in 1 .. n : u[i] \in Signs /\ (i = 1 \/ u[i - 1] \notin Exponent)
    BY <1>1, <2>1, <2>2 DEF Broken
  <2>3. CASE \E i, j \in 1 .. n : i < j /\ u[i] = "." /\ u[j] = "."
    BY <1>1, <2>1, <2>3 DEF Broken
  <2>4. CASE \E i, j \in 1 .. n : i < j /\ u[i] \in Exponent /\ u[j] \in Exponent \cup {"."}
    BY <1>1, <2>1, <2>4 DEF Broken
  <2>5. CASE \E i \in 1 .. n : u[i] \in Exponent /\ \A k \in 1 .. i - 1 : u[k] = "."
    BY <1>1, <2>1, <2>5 DEF Broken
  <2> QED BY <1>6, <2>2, <2>3, <2>4, <2>5 DEF Broken
\* The ways to break a text.
<1>7. ASSUME c \in Signs, n = 0 \/ u[n] \notin Exponent PROVE Broken(v)
  <2>1. n + 1 \in 1 .. Len(v) /\ v[n + 1] \in Signs /\ (n + 1 = 1 \/ v[n + 1 - 1] \notin Exponent)
    BY <1>1, <1>7
  <2> QED BY <2>1 DEF Broken
<1>8. ASSUME c = ".", NEW i \in 1 .. n, u[i] = "." PROVE Broken(v)
  <2>1. i \in 1 .. Len(v) /\ n + 1 \in 1 .. Len(v) /\ i < n + 1 /\ v[i] = "." /\ v[n + 1] = "."
    BY <1>1, <1>8
  <2> QED BY <2>1 DEF Broken
<1>9. ASSUME c \in Exponent \cup {"."}, NEW i \in 1 .. n, u[i] \in Exponent PROVE Broken(v)
  <2>1. /\ i \in 1 .. Len(v) /\ n + 1 \in 1 .. Len(v) /\ i < n + 1
        /\ v[i] \in Exponent /\ v[n + 1] \in Exponent \cup {"."}
    BY <1>1, <1>9
  <2> QED BY <2>1 DEF Broken
<1>10. ASSUME c \in Exponent, \A k \in 1 .. n : u[k] = "." PROVE Broken(v)
  <2>1. n + 1 \in 1 .. Len(v) /\ v[n + 1] \in Exponent /\ \A k \in 1 .. n + 1 - 1 : v[k] = "."
    BY <1>1, <1>10
  <2> QED BY <2>1 DEF Broken
<1>11. c \in Digits <=> c = "0" \/ c \in Digits19
  BY DEF Digits
<1>12. CASE kind = "minus"
  <2>1. n = 0
    BY <1>12 DEF Shape
  <2>2. CASE c \in Digits
    <3>1. Extended(kind, c) \in {"zero", "int"}
      BY <1>11, <1>12, <2>2, Arcing, ArcsByKind DEF Arc
    <3>2. DigitsIn(v, 1, 1)
      BY <1>1, <2>1, <2>2 DEF DigitsIn
    <3>3. IsInteger(v)
      BY <1>1, <2>1, <3>2 DEF IsInteger
    <3> QED BY <3>1, <3>3, ShapeIs
  <2>3. CASE c = "."
    <3>1. Extended(kind, c) = "point"
      BY <1>12, <2>3, Arcing, ArcsByKind DEF Arc
    <3>2. IsPoint(v)
      BY <1>1, <2>1, <2>3 DEF IsPoint
    <3> QED BY <3>1, <3>2, ShapeIs
  <2>4. CASE c \in Exponent \cup Signs
    <3>1. Extended(kind, c) = "bad"
      BY <1>12, <2>4, Arcing, ArcsByKind DEF Arc
    <3>2. Broken(v)
      BY <1>7, <1>10, <2>1, <2>4
    <3> QED BY <3>1, <3>2, ShapeIs
  <2> QED BY <1>2, <2>2, <2>3, <2>4
<1>13. CASE kind \in {"zero", "int"}
  <2>1. n >= 1 /\ DigitsIn(u, 1, n)
    BY <1>13 DEF Shape, IsInteger
  <2>2. u[n] \in Digits /\ u[n] \notin Exponent
    BY <1>1, <2>1, Kinds DEF DigitsIn
  <2>3. DigitsIn(v, 1, n) /\ Loose(v, n)
    BY <1>1, <1>3, <2>1 DEF Loose
  <2>4. CASE c \in Digits
    <3>1. Extended(kind, c) = "int"
      BY <1>11, <1>13, <2>4, Arcing, ArcsByKind DEF Arc
    <3>2. DigitsIn(v, 1, n + 1)
      BY <1>5, <2>3, <2>4
    <3>3. IsInteger(v)
      BY <1>1, <3>2 DEF IsInteger
    <3> QED BY <3>1, <3>3, ShapeIs
  <2>5. CASE c = "."
    <3>1. Extended(kind, c) = "frac"
      BY <1>13, <2>5, Arcing, ArcsByKind DEF Arc
    <3>2. n + 1 \in 1 .. n + 1 /\ v[n + 1] = "." /\ DigitsIn(v, 1, n + 1 - 1) /\ DigitsIn(v, n + 2, n + 1)
      BY <1>1, <2>3, <2>5 DEF DigitsIn
    <3>3. IsFraction(v)
      BY <1>1, <2>1, <3>2 DEF IsFraction
    <3> QED BY <3>1, <3>3, ShapeIs
  <2>6. CASE c \in Exponent
    <3>1. Extended(kind, c) = "exp"
      BY <1>13, <2>6, Arcing, ArcsByKind DEF Arc
    <3>2. EndsInLetter(v)
      BY <1>1, <2>1, <2>3, <2>6 DEF EndsInLetter
    <3> QED BY <3>1, <3>2, ShapeIs
  <2>7. CASE c \in Signs
    <3>1. Extended(kind, c) = "bad"
      BY <1>13, <2>7, Arcing, ArcsByKind DEF Arc
    <3>2. Broken(v)
      BY <1>7, <2>2, <2>7
    <3> QED BY <3>1, <3>2, ShapeIs
  <2> QED BY <1>2, <2>4, <2>5, <2>6, <2>7
<1>14. CASE kind = "point"
  <2>1. n = 1 /\ u[1] = "."
    BY <1>14 DEF Shape, IsPoint
  <2>2. CASE c \in Digits
    <3>1. Extended(kind, c) = "frac"
      BY <1>11, <1>14, <2>2, Arcing, ArcsByKind DEF Arc
    <3>2. /\ Len(v) = 2 /\ 1 \in 1 .. Len(v) /\ v[1] = "."
          /\ DigitsIn(v, 1, 1 - 1) /\ DigitsIn(v, 1 + 1, Len(v))
      BY <1>1, <2>1, <2>2 DEF DigitsIn
    <3>3. IsFraction(v)
      BY <3>2 DEF IsFraction
    <3> QED BY <3>1, <3>3, ShapeIs
  <2>3. CASE c \notin Digits
    <3>1. Extended(kind, c) = "bad"
      BY <1>2, <1>14, <2>3, Arcing, ArcsByKind DEF Arc
    <3>2. 1 \in 1 .. n /\ \A k \in 1 .. n : u[k] = "."
      BY <2>1
    <3>3. u[n] \notin Exponent
      BY <2>1, Kinds
    <3>4. Broken(v)
      BY <1>2, <1>7, <1>8, <1>10, <2>3, <3>2, <3>3
    <3> QED BY <3>1, <3>4, ShapeIs
  <2> QED BY <2>2, <2>3
<1>15. CASE kind = "frac"
  <2>1. PICK i \in 1 .. n : n > 1 /\ u[i] = "." /\ DigitsIn(u, 1, i - 1) /\ DigitsIn(u, i + 1, n)
    BY <1>15 DEF Shape, IsFraction
  <2>2. u[n] \notin Exponent
    BY <2>1, Kinds DEF DigitsIn
  <2>3. v[i] = "." /\ DigitsIn(v, 1, i - 1) /\ DigitsIn(v, i + 1, n)
    BY <1>1, <1>3, <2>1
  <2>4. CASE c \in Digits
    <3>1. Extended(kind, c) = "frac"
      BY <1>11, <1>15, <2>4, Arcing, ArcsByKind DEF Arc
    <3>2. DigitsIn(v, i + 1, n + 1)
      BY <1>5, <2>3, <2>4
    <3>3. i \in 1 .. Len(v) /\ Len(v) > 1
      BY <1>1, <2>1
    <3>4. IsFraction(v)
      BY <1>1, <2>3, <3>2, <3>3 DEF IsFraction
    <3> QED BY <3>1, <3>4, ShapeIs
  <2>5. CASE c = "."
    <3>1. Extended(kind, c) = "bad"
      BY <1>15, <2>5, Arcing, ArcsByKind DEF Arc
    <3>2. Broken(v)
      BY <1>8, <2>1, <2>5
    <3> QED BY <3>1, <3>2, ShapeIs
  <2>6. CASE c \in Exponent
    <3>1. Extended(kind, c) = "exp"
      BY <1>15, <2>6, Arcing, ArcsByKind DEF Arc
    <3>2. Loose(v, n)
      BY <2>1, <2>3 DEF Loose
    <3>3. EndsInLetter(v)
      BY <1>1, <2>1, <2>6, <3>2 DEF EndsInLetter
    <3> QED BY <3>1, <3>3, ShapeIs
  <2>7. CASE c \in Signs
    <3>1. Extended(kind, c) = "bad"
      BY <1>15, <2>7, Arcing, ArcsByKind DEF Arc
    <3>2. Broken(v)
      BY <1>7, <2>2, <2>7
    <3> QED BY <3>1, <3>2, ShapeIs
  <2> QED BY <1>2, <2>4, <2>5, <2>6, <2>7
<1>16. CASE kind = "exp"
  <2>1. n >= 2 /\ u[n] \in Exponent /\ Loose(u, n - 1)
    BY <1>16 DEF Shape, EndsInLetter
  <2>2. v[n] \in Exponent /\ Loose(v, n - 1) /\ n \in 1 .. n
    BY <1>1, <1>4, <2>1
  <2>3. CASE c \in Digits
    <3>1. Extended(kind, c) = "expdigits"
      BY <1>11, <1>16, <2>3, Arcing, ArcsByKind DEF Arc
    <3>2. ExponentFrom(v, n + 1)
      BY <1>1, <2>3 DEF ExponentFrom, DigitsIn
    <3>3. n \in 1 .. Len(v)
      BY <1>1, <2>1
    <3>4. HasExponent(v)
      BY <2>2, <3>2, <3>3 DEF HasExponent
    <3> QED BY <3>1, <3>4, ShapeIs
  <2>4. CASE c \in Exponent \cup {"."}
    <3>1. Extended(kind, c) = "bad"
      BY <1>16, <2>4, Arcing, ArcsByKind DEF Arc
    <3>2. Broken(v)
      BY <1>9, <2>1, <2>2, <2>4
    <3> QED BY <3>1, <3>2, ShapeIs
  <2>5. CASE c \in Signs
    <3>1. Extended(kind, c) = "expsign"
      BY <1>16, <2>5, Arcing, ArcsByKind DEF Arc
    <3>2. Len(v) >= 3 /\ v[Len(v)] \in Signs /\ v[Len(v) - 1] \in Exponent /\ Loose(v, Len(v) - 2)
      BY <1>1, <2>1, <2>2, <2>5
    <3>3. EndsInSign(v)
      BY <3>2 DEF EndsInSign
    <3> QED BY <3>1, <3>3, ShapeIs
  <2> QED BY <1>2, <2>3, <2>4, <2>5
<1>17. CASE kind = "expsign"
  <2>1. n >= 3 /\ u[n] \in Signs /\ u[n - 1] \in Exponent /\ Loose(u, n - 2)
    BY <1>17 DEF Shape, EndsInSign
  <2>2. n - 1 \in 1 .. n /\ v[n - 1] \in Exponent /\ v[n] \in Signs /\ Loose(v, n - 2)
    BY <1>1, <1>4, <2>1
  <2>3. CASE c \in Digits
    <3>1. Extended(kind, c) = "expdigits"
      BY <1>11, <1>17, <2>3, Arcing, ArcsByKind DEF Arc
    <3>2. ExponentFrom(v, n)
      BY <1>1, <2>2, <2>3 DEF ExponentFrom, DigitsIn
    <3>3. n - 1 \in 1 .. Len(v) /\ n - 1 - 1 = n - 2 /\ n - 1 + 1 = n
      BY <1>1, <2>1
    <3>4. v[n - 1] \in Exponent /\ Loose(v, n - 1 - 1) /\ ExponentFrom(v, n - 1 + 1)
      BY <2>2, <3>2, <3>3
    <3>5. HasExponent(v)
      BY <3>3, <3>4 DEF HasExponent
    <3> QED BY <3>1, <3>5, ShapeIs
  <2>4. CASE c \notin Digits
    <3>1. Extended(kind, c) = "bad"
      BY <1>2, <1>17, <2>4, Arcing, ArcsByKind DEF Arc
    <3>2. u[n] \notin Exponent
      BY <2>1, Kinds
    <3>3. Broken(v)
      BY <1>2, <1>7, <1>9, <2>1, <2>2, <2>4, <3>2
    <3> QED BY <3>1, <3>3, ShapeIs
  <2> QED BY <2>3, <2>4
<1>18. CASE kind = "expdigits"
  <2>1. PICK i \in 1 .. n : u[i] \in Exponent /\ Loose(u, i - 1) /\ ExponentFrom(u, i + 1)
    BY <1>18 DEF Shape, HasExponent
  <2>2. u[n] \in Digits
    BY <1>1, <2>1 DEF ExponentFrom, DigitsIn
  <2>3. CASE c \in Digits
    <3>1. Extended(kind, c) = "expdigits"
      BY <1>11, <1>18, <2>3, Arcing, ArcsByKind DEF Arc
    <3>2. v[i] \in Exponent /\ Loose(v, i - 1) /\ i \in 1 .. Len(v)
      BY <1>1, <1>4, <2>1
    <3>3. ExponentFrom(v, i + 1)
      <4>1. CASE i + 1 <= n /\ DigitsIn(u, i + 1, n)
        BY <1>1, <1>3, <1>5, <2>3, <4>1 DEF ExponentFrom
      <4>2. CASE i + 1 < n /\ u[i + 1] \in Signs /\ DigitsIn(u, i + 1 + 1, n)
        BY <1>1, <1>3, <1>5, <2>3, <4>2 DEF ExponentFrom
      <4> QED BY <2>1, <4>1, <4>2 DEF ExponentFrom
    <3>4. HasExponent(v)
      BY <3>2, <3>3 DEF HasExponent
    <3> QED BY <3>1, <3>4, ShapeIs
  <2>4. CASE c \notin Digits
    <3>1. Extended(kind, c) = "bad"
      BY <1>2, <1>18, <2>4, Arcing, ArcsByKind DEF Arc
    <3>2. u[n] \notin Exponent
      BY <2>2, Kinds
    <3>3. Broken(v)
      BY <1>2, <1>7, <1>9, <2>1, <2>4, <3>2
    <3> QED BY <3>1, <3>3, ShapeIs
  <2> QED BY <2>3, <2>4
<1>19. CASE kind = "bad"
  <2>1. Extended(kind, c) = "bad"
    BY <1>2, <1>11, <1>19, Arcing, ArcsByKind DEF Arc
  <2>2. Broken(v)
    BY <1>6, <1>19 DEF Shape
  <2> QED BY <2>1, <2>2, ShapeIs
<1> QED BY <1>0, <1>12, <1>13, <1>14, <1>15, <1>16, <1>17, <1>18, <1>19

-----------------------------------------------------------------------------
(* The specification.                                                      *)

IInv ==
  /\ text \in Seq(NumberChars) /\ class \in Classes
  /\ cp = -1 \/ cp \in CodePoints
  /\ text # << >> => Shape(class, Unsigned(text))

LEMMA FirstShape ==
  ASSUME NEW c \in NumberChars, c \notin {"."} \cup Exponent \cup {"+"}
  PROVE  FirstClass(c) \in Classes /\ Shape(FirstClass(c), Unsigned(<< c >>))
<1>1. CASE c = "-"
  <2>1. Unsigned(<< c >>) = From(<< c >>, 2)
    BY <1>1 DEF Unsigned
  <2>2. From(<< c >>, 2) = << >>
    BY SubSeqEmpty DEF From
  <2>3. FirstClass(c) = "minus"
    BY <1>1 DEF FirstClass
  <2> QED BY <2>1, <2>2, <2>3 DEF Shape, Classes, Arcs
<1>2. CASE c # "-"
  <2>1. Unsigned(<< c >>) = << c >>
    BY <1>2 DEF Unsigned
  <2>2. FirstClass(c) \in {"zero", "int"}
    BY <1>2 DEF FirstClass
  <2>3. c \in Digits
    BY <1>2 DEF NumberChars, Signs, Digits
  <2>4. IsInteger(<< c >>)
    BY <2>3 DEF IsInteger, DigitsIn
  <2> QED BY <2>1, <2>2, <2>4, ShapeIs
<1> QED BY <1>1, <1>2

LEMMA UnsignedType ==
  ASSUME NEW t \in Seq(NumberChars), t # << >>
  PROVE  Unsigned(t) \in Seq(NumberChars)
BY SubSeqProperties DEF Unsigned, From

LEMMA UnsignedAppend ==
  ASSUME NEW t \in Seq(NumberChars), t # << >>, NEW c \in NumberChars
  PROVE  Unsigned(Append(t, c)) = Append(Unsigned(t), c)
<1>1. /\ Append(t, c)[1] = t[1] /\ Len(Append(t, c)) = Len(t) + 1 /\ Len(t) >= 1
      /\ Append(t, c) \in Seq(NumberChars)
      /\ \A i \in 1 .. Len(t) : Append(t, c)[i] = t[i]
      /\ Append(t, c)[Len(t) + 1] = c
  BY AppendProperties
<1>2. CASE t[1] = "-"
  <2> DEFINE a == SubSeq(Append(t, c), 2, Len(t) + 1)
             b == SubSeq(t, 2, Len(t))
  <2>1. /\ a \in Seq(NumberChars) /\ Len(a) = Len(t)
        /\ \A i \in 1 .. Len(t) : a[i] = Append(t, c)[i + 1]
    BY <1>1, SubSeqProperties
  <2>2. /\ b \in Seq(NumberChars) /\ Len(b) = Len(t) - 1
        /\ \A i \in 1 .. Len(t) - 1 : b[i] = t[i + 1]
    <3>1. Len(t) \in Nat /\ \A i \in 2 .. Len(t) : t[i] \in NumberChars
      OBVIOUS
    <3>2. Len(t) - 2 + 1 = Len(t) - 1
      BY <3>1
    <3>3. /\ b \in Seq(NumberChars)
          /\ Len(b) = IF 2 <= Len(t) THEN Len(t) - 2 + 1 ELSE 0
          /\ \A i \in 1 .. Len(t) - 2 + 1 : b[i] = t[2 + i - 1]
      BY <3>1, SubSeqProperties
    <3> HIDE DEF b
    <3>4. Len(b) = Len(t) - 1
      <4>1. PICK n \in Nat : n = Len(t) /\ n >= 1
        BY <1>1
      <4>2. Len(b) = IF 2 <= n THEN n - 2 + 1 ELSE 0
        BY <3>3, <4>1
      <4>3. Len(b) = n - 1
        BY <4>1, <4>2
      <4> QED BY <4>1, <4>3
    <3>5. ASSUME NEW i \in 1 .. Len(t) - 1 PROVE b[i] = t[i + 1]
      <4>1. i \in 1 .. Len(t) - 2 + 1 /\ 2 + i - 1 = i + 1
        BY <3>1
      <4> QED BY <3>3, <4>1
    <3> QED BY <3>3, <3>4, <3>5 DEF b
  <2> HIDE DEF a, b
  <2>3. /\ Append(b, c) \in Seq(NumberChars) /\ Len(Append(b, c)) = Len(t)
        /\ \A i \in 1 .. Len(t) - 1 : Append(b, c)[i] = b[i]
        /\ Append(b, c)[Len(t)] = c
    BY <1>1, <2>2, AppendProperties
  <2>4. \A i \in 1 .. Len(t) : a[i] = Append(b, c)[i]
    <3> SUFFICES ASSUME NEW i \in 1 .. Len(t) PROVE a[i] = Append(b, c)[i]
      OBVIOUS
    <3>1. CASE i = Len(t)
      BY <1>1, <2>1, <2>3, <3>1
    <3>2. CASE i < Len(t)
      <4>1. i \in 1 .. Len(t) - 1 /\ i + 1 \in 1 .. Len(t)
        BY <1>1, <3>2
      <4> QED BY <1>1, <2>1, <2>2, <2>3, <4>1
    <3>3. i = Len(t) \/ i < Len(t)
      OBVIOUS
    <3> QED BY <3>1, <3>2, <3>3
  <2>5. a = Append(b, c)
    BY <2>1, <2>3, <2>4, SeqEqual
  <2> QED BY <1>1, <1>2, <2>5 DEF Unsigned, From, a, b
<1>3. CASE t[1] # "-"
  BY <1>1, <1>3 DEF Unsigned
<1> QED BY <1>2, <1>3

LEMMA InitInvariant ==
  ASSUME Init
  PROVE  IInv
<1>1. CASE text = << >> /\ class = "bad" /\ \E r \in Ranges : cp = r[1]
  <2>1. cp \in CodePoints
    BY <1>1, RangesAssumption
  <2>2. "bad" \in Classes
    BY DEF Classes, Arcs
  <2> QED BY <1>1, <2>1, <2>2, EmptySeq DEF IInv
<1>2. ASSUME NEW c \in Alphabet \ ({"."} \cup Exponent \cup {"+"}),
             text = << c >>, class = FirstClass(c), cp = -1
      PROVE  IInv
  <2>1. c \in NumberChars
    BY <1>2, AlphabetAssumption
  <2>2. text \in Seq(NumberChars)
    BY <1>2, <2>1
  <2> QED BY <1>2, <2>1, <2>2, FirstShape DEF IInv
<1> QED BY <1>1, <1>2 DEF Init

LEMMA NextInvariant ==
  ASSUME IInv, [Next]_vars
  PROVE  IInv'
<1>1. ASSUME NEW c \in Alphabet, Len(text) \in 1 .. MaxText - 1,
             text' = Append(text, c), class' = Extended(class, c), cp' = cp
      PROVE  IInv'
  <2>1. text \in Seq(NumberChars) /\ text # << >> /\ c \in NumberChars /\ class \in Classes
    BY <1>1, AlphabetAssumption DEF IInv
  <2>2. Shape(class, Unsigned(text)) /\ Unsigned(text) \in Seq(NumberChars)
    BY <2>1, UnsignedType DEF IInv
  <2>3. class' \in Classes /\ Shape(class', Append(Unsigned(text), c))
    BY <1>1, <2>1, <2>2, ShapeGoesOn
  <2>4. Unsigned(text') = Append(Unsigned(text), c)
    BY <1>1, <2>1, UnsignedAppend
  <2>5. text' \in Seq(NumberChars)
    BY <1>1, <2>1, AppendProperties
  <2>6. (cp = -1 \/ cp \in CodePoints)'
    BY <1>1 DEF IInv
  <2> QED BY <2>3, <2>4, <2>5, <2>6 DEF IInv
<1>2. ASSUME NEW r \in Ranges, cp \in r[1] .. r[2] - 1, cp' = cp + 1,
             UNCHANGED << text, class >>
      PROVE  IInv'
  <2>1. r[1] \in CodePoints /\ r[2] \in CodePoints
    BY <1>2, RangesAssumption
  <2>2. LastCodePoint \in Nat
    BY SMT DEF LastCodePoint
  <2>3. cp' \in CodePoints
    BY <1>2, <2>1, <2>2 DEF CodePoints
  <2> QED BY <1>2, <2>3 DEF IInv
<1>3. ASSUME UNCHANGED vars PROVE IInv'
  BY <1>3 DEF IInv, vars
<1> QED BY <1>1, <1>2, <1>3 DEF Next, NextText, NextCodePoint

THEOREM Inductive == Spec => []IInv
BY InitInvariant, NextInvariant, PTL DEF Spec

\* For number texts of every length: string_to_double takes the text the parser
\* collected exactly when its class says that strtod reads it to the end.
THEOREM ClassesRight == Spec => []ClassTellsStrtod
<1>1. IInv => ClassTellsStrtod
  <2> SUFFICES ASSUME IInv, text # << >>
               PROVE  class \in StrtodReadsAll <=> IsRead(Unsigned(text))
    BY DEF ClassTellsStrtod
  <2>1. Unsigned(text) \in Seq(NumberChars) /\ class \in Classes /\ Shape(class, Unsigned(text))
    BY UnsignedType DEF IInv
  <2> QED BY <2>1, ShapeTells, ReadIs
<1> QED BY <1>1, Inductive, PTL

\* For every code point of Unicode: the bytes append_code_point writes decode to it, and
\* they are well-formed UTF-8 unless it is a surrogate or U+07FF; for those they are not.
THEOREM CodePointsWritten == Spec => []DecodesBack
<1>1. IInv => DecodesBack
  <2> SUFFICES ASSUME IInv, cp >= 0
               PROVE  /\ Decoded(append_code_point(cp)) = cp
                      /\ WellFormed(append_code_point(cp)) <=> cp \notin Misspelt
    BY DEF DecodesBack
  <2>1. cp \in CodePoints
    BY SMT DEF IInv
  <2> QED BY <2>1, Decodes
<1> QED BY <1>1, Inductive, PTL

\* For every code point that takes more than a byte: what char_to_tmp writes for its
\* bytes, the parser's escape consumers read back as that code point.
THEOREM EscapesRead == Spec => []EscapesReadBack
<1>1. IInv => EscapesReadBack
  <2> SUFFICES ASSUME IInv, cp >= 128, cp \notin HighSurrogate \cup LowSurrogate
               PROVE  LET units == Read(escaped_units(append_code_point(cp)))
                      IN  \/ Len(units) = 1 /\ ~StartsPair(units[1]) /\ units[1] = cp
                          \/ /\ Len(units) = 2 /\ StartsPair(units[1]) /\ EndsPair(units[2])
                             /\ PairValue(units[1], units[2]) = cp
    BY DEF EscapesReadBack
  <2>1. cp \in CodePoints
    BY SMT DEF IInv
  <2> QED BY <2>1, ReadsBack
<1> QED BY <1>1, Inductive, PTL

\* Every control character is read back from the digits written for it, but for U+0010,
\* which is not.
THEOREM ControlsRead == Spec => []ControlsReadBack
<1>1. ControlsReadBack
  <2> SUFFICES ASSUME cp \in 0 .. 31
               PROVE  UnitOf(control_digits(cp)) = cp <=> cp # 16
    BY DEF ControlsReadBack
  <2>1. CASE cp = 16
    BY <2>1, SixteenLost
  <2>2. CASE cp # 16
    <3>1. cp \in 0 .. 31 \ {16}
      BY <2>2
    <3> QED BY <2>2, <3>1, ControlReadsBack
  <2> QED BY <2>1, <2>2
<1> QED BY <1>1, PTL
=============================================================================
