------------------------------ MODULE Grammar ------------------------------
(***************************************************************************)
(* ParserBits against the grammar of JSON: the characters fed so far are   *)
(* kept in text, also those after an error, so that a document refused at  *)
(* its first character is noticed when it is complete.                     *)
(*                                                                         *)
(* A language is a set of texts.  The grammar is written with operations   *)
(* on languages, one definition for each rule of RFC 8259 (json.org), and  *)
(* twice where the parser differs from the RFC: it reads more numbers and  *)
(* more \u escapes, and fewer values as the root of a document.            *)
(***************************************************************************)
EXTENDS ParserBits

CONSTANT Shapes  \* the texts sent: at each place, the characters it may hold

\* No handler refuses a document, and each number fits a double.
ASSUME AcceptingAssumption == MayReject = {} /\ ~RangeErrors
ASSUME ShapesAssumption == \A shape \in Shapes : shape \in Seq(SUBSET Chars)

VARIABLES text, shape

grammarVars == << vars, text, shape >>

GrammarInit == Init /\ text = << >> /\ shape \in Shapes

GrammarNext ==
  /\ UNCHANGED shape
  /\ \/ \E c \in Chars :
          /\ Len(text) < Len(shape) /\ c \in shape[Len(text) + 1]
          /\ Read(c)
          /\ text' = Append(text, c)
     \/ /\ \/ Len(text) < Len(shape) /\ \E kind \in {"char", "range"} : StartCall(kind)
           \/ Flush \/ ReturnFalse \/ end \/ Done
        /\ UNCHANGED text

GrammarSpec == GrammarInit /\ [][GrammarNext]_grammarVars

-----------------------------------------------------------------------------
(* Languages.                                                              *)

Text == Seq(AllChars)

OneOf(cs) == {<< c >> : c \in cs}

Then(A, B) ==
  {t \in Text : \E i \in 0 .. Len(t) :
                  SubSeq(t, 1, i) \in A /\ SubSeq(t, i + 1, Len(t)) \in B}

Optional(A) == {<< >>} \cup A

Star(A) ==
  LET many[t \in Text] ==
        \/ t = << >>
        \/ \E i \in 1 .. Len(t) : SubSeq(t, 1, i) \in A /\ many[SubSeq(t, i + 1, Len(t))]
  IN  {t \in Text : many[t]}

Only(cs) == {t \in Text : \A i \in 1 .. Len(t) : t[i] \in cs}

Enclosed(open, A, close) ==
  {t \in Text : /\ Len(t) >= 2 /\ t[1] = open /\ t[Len(t)] = close
                /\ SubSeq(t, 2, Len(t) - 1) \in A}

-----------------------------------------------------------------------------
(* Numbers, as RFC 8259 has them and as the parser takes them: a minus and *)
(* then all that strtod reads, or a number of the RFC that may lack the    *)
(* digits after its point.                                                 *)

Digits == Digits19 \cup {"0"}
SomeDigits == Only(Digits) \ {<< >>}
Integers == {t \in SomeDigits : t[1] = "0" => Len(t) = 1}

Fraction == Then(OneOf({"."}), SomeDigits)
ExponentPart == Then(OneOf(Exponent), Then(Optional(OneOf(Signs)), SomeDigits))

JsonNumber ==
  Then(Optional(OneOf({"-"})),
       Then(Integers, Then(Optional(Fraction), Optional(ExponentPart))))

Point == Then(OneOf({"."}), Only(Digits))
StrtodMantissa == Then(SomeDigits, Optional(Point)) \cup Then(OneOf({"."}), SomeDigits)

ReadNumber ==
  Then(Then(OneOf({"-"}), StrtodMantissa) \cup Then(Integers, Optional(Point)),
       Optional(ExponentPart))

-----------------------------------------------------------------------------
(* Strings.  The parser takes any unit from D800 to DFFE for the first one *)
(* of a pair and any from DC00 on for its second.                          *)

EscapedUnit(units) ==
  {t \in Text : /\ Len(t) = 6 /\ t[1] = Backslash /\ t[2] = "u"
                /\ \A i \in 3 .. 6 : hexdigit_val(t[i]) >= 0
                /\ UnitOf(SubSeq(t, 3, 6)) \in units}

Character(single, high, low) ==
  OneOf(AllChars \ {Quote, Backslash, "ctrl"})
    \cup {<< Backslash, c >> : c \in {Backslash, Quote, "/", "b", "f", "n", "r", "t"}}
    \cup EscapedUnit(single)
    \cup Then(EscapedUnit(high), EscapedUnit(low))

Strings(characters) == Enclosed(Quote, Star(characters), Quote)

JsonString ==
  Strings(Character(Unit \ (HighSurrogate \cup LowSurrogate), HighSurrogate, LowSurrogate))

ReadString ==
  Strings(Character(Unit \ (55296 .. 57342), 55296 .. 57342, 56320 .. 65535))

-----------------------------------------------------------------------------
(* Values and documents, over a language N of numbers and one S of strings. *)

Spaces == Only({"sp"})
Padded(A) == Then(Spaces, Then(A, Spaces))
Listed(A) == Then(A, Star(Then(OneOf({","}), A)))

Arrays(V) == Enclosed("[", Spaces \cup Listed(Padded(V)), "]")

Member(S, V) == Then(Padded(S), Then(OneOf({":"}), Padded(V)))
Objects(S, V) == Enclosed("{", Spaces \cup Listed(Member(S, V)), "}")

LiteralNames ==
  {<< "t", "r", "u", "e" >>, << "f", "a", "l", "s", "e" >>, << "n", "u", "l", "l" >>}

Values(N, S) ==
  LET value[t \in Text] ==
        LET V == {u \in Text : value[u]}
        IN  t \in LiteralNames \cup N \cup S \cup Arrays(V) \cup Objects(S, V)
  IN  {t \in Text : value[t]}

\* The texts of RFC 8259, section 2: any value, with spaces around it.
JsonText == Padded(Values(JsonNumber, JsonString))

\* Those of them whose root is a number, true, false or null.
RootScalars == Padded(LiteralNames \cup JsonNumber)

\* What the parser reads as a document: an array, an object or a string, the three values
\* that consume_initial_ (parser_bits.h:155-194) begins.
ReadDocuments ==
  LET V == Values(ReadNumber, ReadString)
  IN  Padded(ReadString \cup Arrays(V) \cup Objects(ReadString, V))

-----------------------------------------------------------------------------
\* Of the JSON texts of RFC 8259 (its \u escapes well-formed UTF-16) the parser accepts
\* those whose root is an array, an object or a string, however they are cut into calls,
\* and it refuses those whose root is a number, true, false or null: for these
\* consume_initial_ has no case.  complete_without_error() tells, when the last character
\* was read.
AcceptsAllButScalars ==
  call = "none" /\ text \in JsonText => (complete_without_error <=> text \notin RootScalars)

\* A text that is accepted is a JSON document, but for its numbers, of which
\* consume_number_ takes all that strtod reads: -00, 1. and -.1 as well, which RFC 8259
\* does not allow, and for its \u escapes, whose pairs are not all surrogate pairs.
AcceptsOnlyDocuments ==
  call = "none" /\ complete_without_error => text \in ReadDocuments
=============================================================================
