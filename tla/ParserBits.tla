----------------------------- MODULE ParserBits -----------------------------
(***************************************************************************)
(* The incremental parser (parser_bits.h): a stack of consumers that reads *)
(* one character at a time and calls the handlers of parser_callbacks.     *)
(* The environment chooses how a document is cut into calls of             *)
(* consume(char) and consume(begin, end), which characters come, when      *)
(* end() is called and, for the handlers in MayReject, what they answer.   *)
(*                                                                         *)
(* A character is a one-character string; "sp" is a space, "ctrl" a control *)
(* character and "x" any character without a meaning of its own.  Tab and  *)
(* the ends of line behave as "sp" outside strings and as "ctrl" in them.  *)
(***************************************************************************)
EXTENDS Integers, Sequences, SequencesExt, Numeral, CodePoint, SourceStates

CONSTANTS
  Chars,       \* the characters the documents are made of
  StringRoot,  \* may the document be a string
  MayReject,   \* the handlers that may answer false
  RangeErrors, \* may strtod find a number out of the range of a double
  MaxStack,    \* bound: consumers on the stack
  MaxChunk     \* bound: characters in one call of consume(begin, end)

Quote == "\""
Backslash == "\\"

AllChars ==
  {"{", "}", "[", "]", ",", ":", "sp", "ctrl", "x", "/", Quote, Backslash}
    \cup NumberChars
    \cup {"a", "b", "c", "d", "f", "l", "n", "r", "s", "t", "u",
          "A", "B", "C", "D", "F"}

ASSUME CharsAssumption == Chars \subseteq AllChars
ASSUME FlagsAssumption == StringRoot \in BOOLEAN /\ RangeErrors \in BOOLEAN
ASSUME BoundsAssumption == MaxStack \in Nat \ {0} /\ MaxChunk \in Nat

Literals == {"falsef", "falsea", "falsel", "falses", "truet", "truer", "trueu",
             "nulln", "nullu", "nulll"}
Numbers == {"number", "numberstarting0"}
Escapes == {"stringescape", "stringuvalue", "stringuvalue1", "stringuvalue2",
            "stringuvalue3", "stringuvalue4", "stringuvalue5", "stringuvalue6",
            "stringuvalue7", "stringuvalue8", "stringuvalue9"}

\* The consume_..._ members a stack may hold.
Consumers ==
  {"initial", "arraystart", "array", "arrayseparator", "objectstart",
   "objectbetween", "objectkey", "objectseparator", "objectvalue",
   "string", "stringkey", "inerror"} \cup Literals \cup Numbers \cup Escapes

\* The handlers of parser_callbacks.
Handlers ==
  {"begin_object", "end_object", "begin_array", "end_array",
   "begin_string", "string_content", "end_string",
   "begin_key", "key_content", "end_key", "double", "boolean", "null"}

ASSUME RejectAssumption == MayReject \subseteq Handlers

VARIABLES
  consumer_stack_,  \* sequence of consumers, the current one last
  begin_,           \* no document has been started
  end_,             \* the document is complete, or end() was called
  error_,           \* make_error was called, or end() found the input incomplete
  inside_key_,      \* which content handler an escape calls
  lastValue_,       \* class of the number collected; "text" after a \u escape
  lastCodePoint,    \* <<high, low>> halves of the 32 bit word
  first_,           \* index in the current chunk of the first character not
                    \* handed over yet, 0 for nullptr
  end_buf_,         \* index of the last one
  call,             \* the call in progress: "none", "char", "range"
  pos,              \* characters of the current call read so far
  good,             \* the result of the call
  ended,            \* end() was called
  calls,            \* history: the handlers called by the last step
  rejected,         \* history: a handler answered false during the call
  owed              \* history: characters of the string read and not handed over

textVars == << first_, end_buf_, owed >>
valueVars == << inside_key_, lastValue_, lastCodePoint >>
vars == << consumer_stack_, begin_, end_, error_, inside_key_, lastValue_,
           lastCodePoint, first_, end_buf_, call, pos, good, ended, calls,
           rejected, owed >>

Init ==
  /\ consumer_stack_ = << "initial" >>
  /\ begin_ = TRUE
  /\ end_ = FALSE
  /\ error_ = FALSE
  /\ inside_key_ = FALSE
  /\ lastValue_ = "text"
  /\ lastCodePoint = << 0, 0 >>
  /\ first_ = 0
  /\ end_buf_ = 0
  /\ call = "none"
  /\ pos = 0
  /\ good = TRUE
  /\ ended = FALSE
  /\ calls = << >>
  /\ rejected = FALSE
  /\ owed = 0

-----------------------------------------------------------------------------
(* What a handler changes on its way: the stack, end_ and the calls made.  *)

Here == [stack |-> consumer_stack_, end |-> end_, calls |-> << >>]

\* push_consumer_
Push(s, consumer) == [s EXCEPT !.stack = Append(s.stack, consumer)]

\* consumer_stack_.back() = ...
Become(s, consumer) ==
  [s EXCEPT !.stack = [s.stack EXCEPT ![Len(s.stack)] = consumer]]

\* consumer_stack_.pop_back(), which leaves end_ alone
PopBack(s) == [s EXCEPT !.stack = Front(s.stack)]

\* When only the initial consumer is left the document is complete.
pop_state(s) ==
  [s EXCEPT !.stack = Front(s.stack), !.end = s.end \/ Len(s.stack) = 2]

Called(s, handler, ok) ==
  [s EXCEPT !.calls = Append(s.calls, [handler |-> handler, ok |-> ok])]

Answers(handler) == IF handler \in MayReject THEN BOOLEAN ELSE {TRUE}

SomeRejected(cs) == \E i \in 1 .. Len(cs) : ~cs[i].ok

Leave(s) ==
  /\ end_' = s.end
  /\ calls' = s.calls
  /\ rejected' = (rejected \/ SomeRejected(s.calls))

\* The handler returns ok and the parser goes on from s.
Return(s, ok) ==
  /\ Leave(s)
  /\ consumer_stack_' = s.stack
  /\ good' = ok
  /\ UNCHANGED error_

make_error(s) ==
  /\ Leave(s)
  /\ consumer_stack_' = << "inerror" >>
  /\ good' = FALSE
  /\ error_' = TRUE

\* return handler();
CallOnly(s, handler) ==
  \E ok \in Answers(handler) : Return(Called(s, handler, ok), ok)

\* return handler() || make_error(...);
CallOrError(s, handler) ==
  \/ Return(Called(s, handler, TRUE), TRUE)
  \/ FALSE \in Answers(handler) /\ make_error(Called(s, handler, FALSE))

-----------------------------------------------------------------------------
(* Documents, arrays and objects.  s is the parser as the consumer finds   *)
(* it, c the character read.                                               *)

\* Nothing but the stack, the flags and the calls.
Structural == UNCHANGED << begin_, textVars, valueVars >>

consume_initial_(s, c) ==
  \/ /\ c = "{" /\ begin_
     /\ begin_' = FALSE
     /\ CallOrError(Push(s, "objectstart"), "begin_object")
     /\ UNCHANGED << textVars, valueVars >>
  \/ /\ c = "[" /\ begin_
     /\ begin_' = FALSE
     /\ CallOrError(Push(s, "arraystart"), "begin_array")
     /\ UNCHANGED << textVars, valueVars >>
  \/ /\ c = Quote /\ begin_
     /\ begin_' = FALSE
     /\ first_' = pos + 2        \* char_ + 1; char_ is the character pos + 1
     /\ end_buf_' = pos + 2
     /\ CallOrError(Push(s, "string"), "begin_string")
     /\ UNCHANGED << owed, valueVars >>
  \/ c = "sp" /\ Return(s, TRUE) /\ Structural
  \/ /\ c # "sp" /\ (c \notin {"{", "[", Quote} \/ ~begin_)
     /\ make_error(s)
     /\ Structural

\* An item of an array whose first character needs no call.
ItemStart(c) ==
  CASE c = "0" -> "numberstarting0"
    [] c \in Digits19 \cup {"-"} -> "number"
    [] c = "n" -> "nulln"
    [] c = "t" -> "truet"
    [] c = "f" -> "falsef"

CallFree == Digits19 \cup {"0", "-", "n", "t", "f"}

\* A number is collected from its first character on.
StartItem(s, c) ==
  /\ c \in CallFree
  /\ Return(Push(s, ItemStart(c)), TRUE)
  /\ lastValue_' = IF c \in NumberChars THEN FirstClass(c) ELSE lastValue_
  /\ UNCHANGED << begin_, textVars, inside_key_, lastCodePoint >>

\* After a failed begin_array or begin_object the array consumer finds err_ set
\* and returns true: the error shows with the next character or flush.
CallOrLateError(s, handler) ==
  \/ Return(Called(s, handler, TRUE), TRUE)
  \/ /\ FALSE \in Answers(handler)
     /\ Leave(Called(s, handler, FALSE))
     /\ consumer_stack_' = << "inerror" >>
     /\ good' = TRUE
     /\ error_' = TRUE

consume_array_itembegin_(s, c) ==
  \/ c = Quote /\ CallOrError(Push(s, "string"), "begin_string") /\ Structural
  \/ c = "{" /\ CallOrLateError(Push(s, "objectstart"), "begin_object") /\ Structural
  \/ c = "[" /\ CallOrLateError(Push(s, "arraystart"), "begin_array") /\ Structural
  \/ StartItem(s, c)
  \/ c \notin CallFree \cup {Quote, "{", "["} /\ make_error(s) /\ Structural

consume_arraystart_(s, c) ==
  \/ c = "sp" /\ Return(s, TRUE) /\ Structural
  \/ c = "]" /\ CallOrError(pop_state(s), "end_array") /\ Structural
  \/ c \notin {"sp", "]"} /\ consume_array_itembegin_(Become(s, "array"), c)

consume_arrayseparator_(s, c) ==
  \/ c = "sp" /\ Return(s, TRUE) /\ Structural
  \/ c # "sp" /\ consume_array_itembegin_(Become(s, "array"), c)

consume_array_(s, c) ==
  /\ \/ c = "sp" /\ Return(s, TRUE)
     \/ c = "]" /\ CallOrError(pop_state(s), "end_array")
     \/ c = "," /\ Return(Become(s, "arrayseparator"), TRUE)
     \/ c \notin {"sp", "]", ","} /\ make_error(s)
  /\ Structural

consume_objectstart_(s, c) ==
  /\ \/ c = "sp" /\ Return(s, TRUE)
     \/ c = "}" /\ CallOrError(pop_state(s), "end_object")
     \/ c = Quote /\ CallOnly(Push(Become(s, "objectkey"), "stringkey"), "begin_key")
     \/ c \notin {"sp", "}", Quote} /\ make_error(s)
  /\ Structural

consume_objectbetween_(s, c) ==
  /\ \/ c = "sp" /\ Return(s, TRUE)
     \/ c = Quote /\ CallOnly(Push(Become(s, "objectkey"), "stringkey"), "begin_key")
     \/ c \notin {"sp", Quote} /\ make_error(s)
  /\ Structural

consume_objectkey_(s, c) ==
  /\ \/ c = "sp" /\ Return(s, TRUE)
     \/ c = ":" /\ Return(Become(s, "objectseparator"), TRUE)
     \/ c \notin {"sp", ":"} /\ make_error(s)
  /\ Structural

consume_objectseparator_(s, c) ==
  LET v == Become(s, "objectvalue")
  IN  \/ c = "sp" /\ Return(s, TRUE) /\ Structural
      \/ c = Quote /\ CallOnly(Push(v, "string"), "begin_string") /\ Structural
      \/ c = "{" /\ CallOrError(Push(v, "objectstart"), "begin_object") /\ Structural
      \/ c = "[" /\ CallOrError(Push(v, "arraystart"), "begin_array") /\ Structural
      \/ StartItem(v, c)
      \/ /\ c \notin CallFree \cup {"sp", Quote, "{", "["}
         /\ make_error(s)
         /\ Structural

consume_objectvalue_(s, c) ==
  /\ \/ c = "sp" /\ Return(s, TRUE)
     \/ c = "}" /\ CallOrError(pop_state(s), "end_object")
     \/ c = "," /\ Return(Become(s, "objectbetween"), TRUE)
     \/ c \notin {"sp", "}", ","} /\ make_error(s)
  /\ Structural

-----------------------------------------------------------------------------
(* Literals and numbers.                                                   *)

\* What each literal consumer waits for and which one follows it.
LiteralArcs ==
  [falsef |-> << "a", "falsea" >>, falsea |-> << "l", "falsel" >>,
   falsel |-> << "s", "falses" >>, truet |-> << "r", "truer" >>,
   truer |-> << "u", "trueu" >>, nulln |-> << "u", "nullu" >>,
   nullu |-> << "l", "nulll" >>]

\* What the last consumer of a literal waits for and the handler it calls.
LiteralEnds ==
  [falses |-> << "e", "boolean" >>, trueu |-> << "e", "boolean" >>,
   nulll |-> << "l", "null" >>]

consume_literal_(s, c) ==
  LET f == Last(s.stack)
  IN  /\ \/ /\ f \in DOMAIN LiteralArcs
            /\ IF c = LiteralArcs[f][1]
                 THEN Return(Become(s, LiteralArcs[f][2]), TRUE)
                 ELSE make_error(s)
         \/ /\ f \in DOMAIN LiteralEnds
            /\ IF c = LiteralEnds[f][1]
                 THEN CallOrError(pop_state(s), LiteralEnds[f][2])
                 ELSE make_error(s)
      /\ Structural

\* The character after a number is read again by the consumer below, which is
\* consume_array_ or consume_objectvalue_: a number is never the whole document.
Reconsume(s, c) ==
  \/ Last(s.stack) = "array" /\ consume_array_(s, c)
  \/ Last(s.stack) = "objectvalue" /\ consume_objectvalue_(s, c)

\* string_to_double, then return double_handler(...) && consume_(char_);
EndNumber(s, c) ==
  \/ /\ lastValue_ \in StrtodReadsAll
     /\ Reconsume(Called(pop_state(s), "double", TRUE), c)
  \/ /\ lastValue_ \in StrtodReadsAll
     /\ FALSE \in Answers("double")
     /\ Return(Called(pop_state(s), "double", FALSE), FALSE)
     /\ Structural
  \/ /\ lastValue_ \notin StrtodReadsAll \/ (RangeErrors /\ MayOverflow(lastValue_))
     /\ make_error(pop_state(s))
     /\ Structural

AppendDigit(s, c) ==
  /\ Return(Become(s, "number"), TRUE)
  /\ lastValue_' = Extended(lastValue_, c)
  /\ UNCHANGED << begin_, textVars, inside_key_, lastCodePoint >>

consume_numberstarting0_(s, c) ==
  \/ c \in {"."} \cup Exponent /\ AppendDigit(s, c)
  \/ c \in Digits19 \cup Signs /\ make_error(s) /\ Structural
  \/ c \notin {"."} \cup Exponent \cup Digits19 \cup Signs /\ EndNumber(s, c)

consume_number_(s, c) ==
  \/ c \in NumberChars /\ AppendDigit(s, c)
  \/ c \notin NumberChars /\ EndNumber(s, c)

-----------------------------------------------------------------------------
(* Strings and keys.  Their characters are not copied: a handler gets a    *)
(* view that starts at first_.                                             *)

\* A view of the characters first_ .. past - 1 is handed over, if first_ is set.
HandedOver(past) ==
  /\ first_' = 0
  /\ owed' = IF first_ = 0 THEN owed ELSE owed - (past - first_)
  /\ UNCHANGED end_buf_

ContentAnswers(content) == IF first_ = 0 THEN {TRUE} ELSE Answers(content)
ContentCalled(s, content, ok) == IF first_ = 0 THEN s ELSE Called(s, content, ok)

\* Mutant of BeginEscape: first_ is reset only when the handler accepted.
BeginEscapeKeepsFirst(s, content) ==
  /\ inside_key_' = (content = "key_content")
  /\ UNCHANGED << begin_, lastValue_, lastCodePoint >>
  /\ \/ /\ Return(ContentCalled(Push(s, "stringescape"), content, TRUE), TRUE)
        /\ HandedOver(pos + 1)
     \/ /\ FALSE \in ContentAnswers(content)
        /\ Return(ContentCalled(Push(s, "stringescape"), content, FALSE), FALSE)
        /\ UNCHANGED textVars

\* An escape begins: what came before it is handed over.
BeginEscape(s, content) ==
  /\ \E ok \in ContentAnswers(content) :
        Return(ContentCalled(Push(s, "stringescape"), content, ok), ok)
  /\ inside_key_' = (content = "key_content")
  /\ HandedOver(pos + 1)
  /\ UNCHANGED << begin_, lastValue_, lastCodePoint >>

\* The closing quote: the rest is handed over, then the string is ended.
CloseText(s, content, closing) ==
  /\ \/ CallOrError(ContentCalled(pop_state(s), content, TRUE), closing)
     \/ /\ FALSE \in ContentAnswers(content)
        /\ make_error(Called(pop_state(s), content, FALSE))
  /\ HandedOver(pos + 1)
  /\ UNCHANGED << begin_, valueVars >>

\* Mutant of OrdinaryCharacter: end_buf_ is forgotten.
OrdinaryCharacterNoEnd(s) ==
  /\ Return(s, TRUE)
  /\ first_' = IF first_ = 0 THEN pos + 1 ELSE first_
  /\ end_buf_' = IF first_ = 0 THEN pos + 1 ELSE end_buf_
  /\ owed' = owed + 1
  /\ UNCHANGED << begin_, valueVars >>

OrdinaryCharacter(s) ==
  /\ Return(s, TRUE)
  /\ first_' = IF first_ = 0 THEN pos + 1 ELSE first_
  /\ end_buf_' = IF first_ = 0 THEN pos + 1 ELSE end_buf_ + 1
  /\ owed' = owed + 1
  /\ UNCHANGED << begin_, valueVars >>

consume_text_(s, c, content, closing) ==
  \/ c = Backslash /\ BeginEscape(s, content)
  \/ c = Quote /\ CloseText(s, content, closing)
  \/ c = "ctrl" /\ make_error(s) /\ Structural
  \/ c \notin {Backslash, Quote, "ctrl"} /\ OrdinaryCharacter(s)

consume_string_(s, c) == consume_text_(s, c, "string_content", "end_string")
consume_stringkey_(s, c) == consume_text_(s, c, "key_content", "end_key")

\* Mutant of Content: the flag is read the wrong way round.
ContentInverted == IF inside_key_ THEN "string_content" ELSE "key_content"

\* The content handler an escape calls.
Content == IF inside_key_ THEN "key_content" ELSE "string_content"

OneCharEscapes == {Backslash, Quote, "/", "b", "f", "n", "r", "t"}

consume_stringescape_(s, c) ==
  \/ /\ c = "u"
     /\ Return(Become(s, "stringuvalue"), TRUE)
     /\ lastCodePoint' = << 0, 0 >>
     /\ UNCHANGED << begin_, textVars, inside_key_, lastValue_ >>
  \/ c \in OneCharEscapes /\ CallOnly(PopBack(s), Content) /\ Structural
  \/ c \notin {"u"} \cup OneCharEscapes /\ make_error(s) /\ Structural

\* The digits of a unit but the last: their weight and the next consumer.
UnicodeArcs ==
  [stringuvalue  |-> << 4096, "stringuvalue1" >>,
   stringuvalue1 |-> << 256, "stringuvalue2" >>,
   stringuvalue2 |-> << 16, "stringuvalue3" >>,
   stringuvalue6 |-> << 4096, "stringuvalue7" >>,
   stringuvalue7 |-> << 256, "stringuvalue8" >>,
   stringuvalue8 |-> << 16, "stringuvalue9" >>]

\* lastCodePoint += val * weight; consume_stringuvalue_ assigns to what is 0.
UnitWith(c, weight) == lastCodePoint[2] + hexdigit_val(c) * weight

consume_stringuvalue_(s, c) ==
  LET arc == UnicodeArcs[Last(s.stack)]
  IN  /\ Last(s.stack) \in DOMAIN UnicodeArcs
      /\ \/ /\ hexdigit_val(c) # -1
            /\ Return(Become(s, arc[2]), TRUE)
            /\ lastCodePoint' = << lastCodePoint[1], UnitWith(c, arc[1]) >>
            /\ UNCHANGED << begin_, textVars, inside_key_, lastValue_ >>
         \/ hexdigit_val(c) = -1 /\ make_error(s) /\ Structural

\* lastCodePoint << 16
ShiftedUnit(unit) == << unit, 0 >>

\* The last digit of the first unit: a pair goes on, anything else is handed over.
consume_stringuvalue3_(s, c) ==
  LET unit == UnitWith(c, 1)
  IN  \/ /\ hexdigit_val(c) # -1 /\ StartsPair(unit)
         /\ Return(Become(s, "stringuvalue4"), TRUE)
         /\ lastCodePoint' = ShiftedUnit(unit)
         /\ UNCHANGED << begin_, textVars, inside_key_, lastValue_ >>
      \/ /\ hexdigit_val(c) # -1 /\ ~StartsPair(unit)
         /\ CallOnly(PopBack(s), Content)
         /\ lastCodePoint' = << lastCodePoint[1], unit >>
         /\ lastValue_' = "text"
         /\ UNCHANGED << begin_, textVars, inside_key_ >>
      \/ hexdigit_val(c) = -1 /\ make_error(s) /\ Structural

\* The backslash and the u of the second unit.
PairArcs == [stringuvalue4 |-> << Backslash, "stringuvalue5" >>,
             stringuvalue5 |-> << "u", "stringuvalue6" >>]

consume_stringuvalue4_(s, c) ==
  LET f == Last(s.stack)
  IN  /\ f \in DOMAIN PairArcs
      /\ IF c = PairArcs[f][1] THEN Return(Become(s, PairArcs[f][2]), TRUE)
                               ELSE make_error(s)
      /\ Structural

\* The last digit of the second unit.  The pair always goes to the handler for
\* the content of strings.
consume_stringuvalue9_(s, c) ==
  LET unit == UnitWith(c, 1)
  IN  \/ /\ hexdigit_val(c) # -1
         /\ lastCodePoint' = << lastCodePoint[1], unit >>
         /\ \/ /\ EndsPair(unit)
               /\ CallOnly(PopBack(s), "string_content")
               /\ lastValue_' = "text"
            \/ /\ ~EndsPair(unit)
               /\ make_error(PopBack(s))
               /\ UNCHANGED lastValue_
         /\ UNCHANGED << begin_, textVars, inside_key_ >>
      \/ hexdigit_val(c) = -1 /\ make_error(s) /\ Structural

-----------------------------------------------------------------------------
(* consume_: the current consumer reads a character.                       *)

consume_inerror_(s, c) == Return(s, FALSE) /\ Structural

consume_(s, c) ==
  LET f == Last(s.stack)
  IN  \/ f = "initial" /\ consume_initial_(s, c)
      \/ f = "arraystart" /\ consume_arraystart_(s, c)
      \/ f = "array" /\ consume_array_(s, c)
      \/ f = "arrayseparator" /\ consume_arrayseparator_(s, c)
      \/ f = "objectstart" /\ consume_objectstart_(s, c)
      \/ f = "objectbetween" /\ consume_objectbetween_(s, c)
      \/ f = "objectkey" /\ consume_objectkey_(s, c)
      \/ f = "objectseparator" /\ consume_objectseparator_(s, c)
      \/ f = "objectvalue" /\ consume_objectvalue_(s, c)
      \/ f \in Literals /\ consume_literal_(s, c)
      \/ f = "number" /\ consume_number_(s, c)
      \/ f = "numberstarting0" /\ consume_numberstarting0_(s, c)
      \/ f = "string" /\ consume_string_(s, c)
      \/ f = "stringkey" /\ consume_stringkey_(s, c)
      \/ f = "stringescape" /\ consume_stringescape_(s, c)
      \/ f \in DOMAIN UnicodeArcs /\ consume_stringuvalue_(s, c)
      \/ f = "stringuvalue3" /\ consume_stringuvalue3_(s, c)
      \/ f \in DOMAIN PairArcs /\ consume_stringuvalue4_(s, c)
      \/ f = "stringuvalue9" /\ consume_stringuvalue9_(s, c)
      \/ f = "inerror" /\ consume_inerror_(s, c)

\* Mutant of FlushText: first_ is kept for the next chunk.
FlushTextKeepsFirst(s, content) ==
  /\ \E ok \in ContentAnswers(content) : Return(ContentCalled(s, content, ok), ok)
  /\ UNCHANGED << begin_, textVars, valueVars >>

\* consume_(nullptr) in consume_string_ and consume_stringkey_: the end of the
\* chunk, the view must not outlive it.
FlushText(s, content) ==
  /\ \E ok \in ContentAnswers(content) : Return(ContentCalled(s, content, ok), ok)
  /\ HandedOver(end_buf_ + 1)
  /\ UNCHANGED << begin_, valueVars >>

\* Mutant of FlushConsumer: consume_inerror_ takes a flush for a success.
FlushIgnoresError(s) ==
  LET f == Last(s.stack)
  IN  \/ f = "string" /\ FlushText(s, "string_content")
      \/ f = "stringkey" /\ FlushText(s, "key_content")
      \/ f \notin {"string", "stringkey"} /\ Return(s, TRUE) /\ Structural

\* consume_(nullptr)
FlushConsumer(s) ==
  LET f == Last(s.stack)
  IN  \/ f = "string" /\ FlushText(s, "string_content")
      \/ f = "stringkey" /\ FlushText(s, "key_content")
      \/ f \in Literals \ {"falsef"} /\ Return(s, TRUE) /\ Structural
      \/ f = "inerror" /\ Return(s, FALSE) /\ Structural
      \/ /\ f \notin {"string", "stringkey", "inerror"} \cup (Literals \ {"falsef"})
         /\ Return(s, ~error_)
         /\ Structural

-----------------------------------------------------------------------------
(* The calls of the owner of the parser.                                   *)

\* consume(char) or consume(begin, end) is called.
StartCall(kind) ==
  /\ call = "none" /\ ~ended
  /\ call' = kind
  /\ good' = TRUE
  /\ calls' = << >>
  /\ rejected' = FALSE
  /\ UNCHANGED << consumer_stack_, begin_, end_, error_, valueVars, textVars,
                  pos, ended >>

\* A document the environment sends, see StringRoot.
Sends(c) == c = Quote /\ begin_ => StringRoot

\* One character of the call.
Read(c) ==
  /\ call # "none" /\ good
  /\ pos < IF call = "char" THEN 1 ELSE MaxChunk
  /\ Sends(c)
  /\ consume_(Here, c)
  /\ Len(consumer_stack_') <= MaxStack
  /\ pos' = pos + 1
  /\ UNCHANGED << call, ended >>

\* The last step of consume(begin, end): its result replaces good.  In
\* consume(char) it is taken only when the character was accepted.
Flush ==
  /\ \/ call = "range"
     \/ call = "char" /\ pos = 1 /\ good
  /\ FlushConsumer(Here)
  /\ call' = "none"
  /\ pos' = 0
  /\ UNCHANGED ended

\* consume(char) returns false without a flush.
ReturnFalse ==
  /\ call = "char" /\ pos = 1 /\ ~good
  /\ call' = "none"
  /\ pos' = 0
  /\ calls' = << >>
  /\ UNCHANGED << consumer_stack_, begin_, end_, error_, valueVars, textVars,
                  good, ended, rejected >>

end ==
  /\ call = "none" /\ ~ended
  /\ error_' = (error_ \/ Len(consumer_stack_) # 1 \/ begin_)
  /\ end_' = TRUE
  /\ good' = ~error_'
  /\ ended' = TRUE
  /\ calls' = << >>
  /\ rejected' = FALSE
  /\ UNCHANGED << consumer_stack_, begin_, valueVars, textVars, call, pos >>

\* After end() the parser is not used any more.
Done == ended /\ UNCHANGED vars

Next ==
  \/ \E kind \in {"char", "range"} : StartCall(kind)
  \/ \E c \in Chars : Read(c)
  \/ Flush
  \/ ReturnFalse
  \/ end
  \/ Done

Spec == Init /\ [][Next]_vars

complete_without_error == end_ /\ ~begin_ /\ ~error_

-----------------------------------------------------------------------------
(* Properties.                                                             *)

\* Every variable keeps its type and the bounds hold.
TypeOK ==
  /\ consumer_stack_ \in Seq(Consumers) /\ Len(consumer_stack_) \in 1 .. MaxStack
  /\ begin_ \in BOOLEAN /\ end_ \in BOOLEAN /\ error_ \in BOOLEAN
  /\ inside_key_ \in BOOLEAN
  /\ lastValue_ \in Classes \cup {"text"}
  /\ lastCodePoint \in Unit \X Unit
  /\ first_ \in 0 .. MaxChunk + 2 /\ end_buf_ \in 0 .. MaxChunk + 2
  /\ call \in {"none", "char", "range"}
  /\ pos \in 0 .. MaxChunk + 1
  /\ good \in BOOLEAN /\ ended \in BOOLEAN /\ rejected \in BOOLEAN
  /\ calls \in Seq([handler : Handlers, ok : BOOLEAN])
  /\ owed \in Int

Containers == {"arraystart", "array", "arrayseparator", "objectstart",
               "objectbetween", "objectkey", "objectseparator", "objectvalue"}

\* Which consumer may stand above which.
Fits(below, f) ==
  \/ f \in Containers \cup {"string"} /\ below \in {"initial", "array", "objectvalue"}
  \/ f \in Literals \cup Numbers /\ below \in {"array", "objectvalue"}
  \/ f = "stringkey" /\ below = "objectkey"
  \/ f \in Escapes /\ below \in {"string", "stringkey"}

\* The stack is a path of the JSON grammar, whatever was fed and however it was
\* cut: consume_initial_ at the bottom and nowhere else, a value only in a
\* container that waits for one, a key only in an object, an escape only in a
\* text; or the single consume_inerror_ that make_error leaves.
StackShape ==
  \/ consumer_stack_ = << "inerror" >> /\ error_
  \/ /\ consumer_stack_[1] = "initial"
     /\ \A i \in 2 .. Len(consumer_stack_) :
          Fits(consumer_stack_[i - 1], consumer_stack_[i])
     /\ begin_ => Len(consumer_stack_) = 1
     /\ ~ended => ~error_

\* complete_without_error(), which the owner may ask instead of calling end(),
\* is true exactly when a document was started, every consumer but the initial
\* one is gone and no error was made: end_ is set by whichever pop_state() comes
\* to that point and by no other.
CompleteExactly ==
  complete_without_error
    <=> Len(consumer_stack_) = 1 /\ ~begin_ /\ ~error_

\* inside_key_ is stored when the escape begins and used up to eleven characters
\* and several calls later: it still tells the text the escape stands in.
EscapeKnowsItsText ==
  Last(consumer_stack_) \in Escapes =>
    (inside_key_ <=> consumer_stack_[Len(consumer_stack_) - 1] = "stringkey")

\* The views handed to the content handlers cover the characters of a text, each
\* once: the characters read and not handed over are those from first_ to end_buf_.
ContentAccounted ==
  ~error_ => owed = IF first_ = 0 THEN 0 ELSE end_buf_ + 1 - first_

\* Between two calls no pointer into the characters of the last call is kept by a
\* parser that may still use it.
NoDanglingView ==
  call = "none" /\ first_ # 0 => Last(consumer_stack_) = "inerror"

\* consume() and end() are documented to return true if the parser did not make
\* any error: they return false from the first error on.
ErrorReported == call = "none" /\ error_ => ~good

\* ... and when a handler rejected something during the call.
RejectionReported == call = "none" /\ rejected => ~good

\* A parser in error stays in error and calls no handler.
ErrorIsFinal == [][error_ => error_' /\ calls' = << >>]_vars

\* What its owner is told of the parser.
ParserState ==
  CASE error_ -> "error"
    [] complete_without_error -> "complete"
    [] ~error_ /\ begin_ -> "begin"
    [] OTHER -> "inside"

\* With handlers that reject nothing, the parser is what the drivers take it for: a
\* character leads from each state to one of the next, the flush at the end of a call
\* to no other; a call answers whether there is an error, and end() whether the
\* document was complete.
ActsAsSource ==
  [][/\ ParserState' \in StatesAfter(ParserState) \cup {ParserState}
     /\ call' = "none" /\ ~ended' => ParserState' = ParserState
     /\ call' = "none" => good' = (ParserState' # "error")
     /\ ended' => good' = (ParserState = "complete")]_vars

-----------------------------------------------------------------------------
(* The calls the handlers see, see SaxProtocol.                            *)

\* A value that begins nothing, and an escape, are no frames of their own.
IsFrame(f) == f \notin Literals \cup Numbers \cup Escapes

\* The frame of the consumer at i of a stack; a consumer below another one may be
\* waiting for less than when it is on top.
FrameOf(stack, begin, i) ==
  LET f == stack[i]
      covered == i < Len(stack)
  IN  CASE f = "initial" -> IF begin THEN "root" ELSE "done"
        [] f \in {"arraystart", "array", "arrayseparator"} -> "array"
        [] f \in {"objectstart", "objectbetween"} -> "object"
        [] f = "objectkey" -> IF covered THEN "object" ELSE "property"
        [] f = "objectseparator" -> "property"
        [] f = "objectvalue" -> IF covered /\ stack[i + 1] \in Literals \cup Numbers
                                  THEN "property" ELSE "object"
        [] f = "string" -> "string"
        [] f = "stringkey" -> "key"
        [] f = "inerror" -> "stopped"

FramesOf(stack, begin) ==
  [i \in 1 .. IF IsFrame(Last(stack)) THEN Len(stack) ELSE Len(stack) - 1
     |-> FrameOf(stack, begin, i)]

framesOfStack == FramesOf(consumer_stack_, begin_)

\* The handlers whose answer consume(begin, end) may overwrite, see RejectionReported.
Unreported == {"begin_string", "string_content", "begin_key", "key_content", "double"}

Sax == INSTANCE SaxProtocol WITH frames <- framesOfStack, MayBeLost <- Unreported

\* The handlers are called as SaxProtocol promises them to be.
FollowsProtocol == Sax!Spec

\* The end of a surrogate pair in a key: the pair goes to the handler of strings.
KeyPairToString ==
  /\ Last(consumer_stack_) = "stringuvalue9" /\ inside_key_
  /\ framesOfStack' = framesOfStack
  /\ \E ok \in Answers("string_content") :
        calls' = << [handler |-> "string_content", ok |-> ok] >>

\* The handlers are called in the order of a document, each content by the handler of
\* its text, and none after a rejection that is not lost: with no other exception than
\* the surrogate pairs of keys.
FollowsProtocolButKeyPairs == Sax!Init /\ [][Sax!Next \/ KeyPairToString]_(Sax!vars)
=============================================================================
