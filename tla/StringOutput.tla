---------------------------- MODULE StringOutput ----------------------------
(***************************************************************************)
(* output::string and output::string_content (output.h): a UTF-8 string is *)
(* written between quotes, with escapes, into buffers that may end         *)
(* anywhere; basic_locator remembers where.  The caller calls again with a *)
(* new buffer until the function returns true.                             *)
(*                                                                         *)
(* A byte of the string is the kind of text it takes part in:              *)
(*   basic    copied as it is            short    two bytes, as \n         *)
(*   control  six bytes, as \u0001       lead2, lead3, lead4, cont         *)
(*                                                the bytes of UTF-8       *)
(* A byte written is [of |-> positions, part |-> k]: the k-th byte of what *)
(* is computed from the bytes at these positions of the string; position 0 *)
(* is the opening quote and the one after the string the closing quote.    *)
(***************************************************************************)
EXTENDS Integers, Sequences, SequencesExt

CONSTANTS
  Values,  \* the strings
  Rooms    \* what a call may find left in the buffer

ASSUME RoomsAssumption == Rooms \subseteq Nat

Kinds == {"basic", "short", "control", "lead2", "lead3", "lead4", "cont"}

ASSUME ValuesAssumption == Values \subseteq Seq(Kinds)

\* How many continuation bytes UTF-8 has after a byte.
Continuations(k) ==
  CASE k = "lead2" -> 1 [] k = "lead3" -> 2 [] k = "lead4" -> 3 [] OTHER -> 0

\* Every leading byte is followed by its continuation bytes, and they follow nothing else.
IsUTF8(v) ==
  \A n \in 1 .. Len(v) :
    /\ n + Continuations(v[n]) <= Len(v)
    /\ \A m \in n + 1 .. n + Continuations(v[n]) : v[m] = "cont"
    /\ v[n] = "cont" => \E lead \in 1 .. n - 1 : n <= lead + Continuations(v[lead])

\* Other strings are left out.  char_to_tmp asserts on a byte that is neither basic nor
\* leads a character; a string that ends inside a character is cut off there without a
\* word, and its last bytes stay in codepointByte1 to 3, also after reset().
ASSUME UTF8Assumption == \A v \in Values : IsUTF8(v)

VARIABLES
  value,         \* the string
  position,      \* loc.position: 0 before the opening quote, then the next byte
  sub_position,  \* loc.sub_position: bytes of the next character written
  codepoint,     \* positions of the bytes in loc.codepointByte1 .. 3
  next,          \* i + 1, the byte the loop reads
  pending,       \* needToCopyBasicData
  out,           \* what was written
  room,          \* buf.size() - offset, -1 between two calls
  phase,         \* where the call is, see Phases
  result,        \* what the last call returned: "none", "more" or "done"
  split          \* history: a leading byte was read with one byte of room

locator == << position, sub_position, codepoint >>
loop == << next, pending >>
vars == << value, locator, loop, out, room, phase, result, split >>

Init ==
  /\ value \in Values
  /\ position = 0 /\ sub_position = 0 /\ codepoint = << >>
  /\ next = 0 /\ pending = FALSE
  /\ out = << >>
  /\ room = -1
  /\ phase = "idle"
  /\ result = "none"
  /\ split = FALSE

\* Between two calls; in string before and in string_content; at the closing quote;
\* about to return false or true; after a failed assertion.
Phases == {"idle", "called", "content", "quote", "full", "complete", "aborted"}

-----------------------------------------------------------------------------
\* Mutant of DelimiterFits: the last byte of the buffer is never used.
DelimiterFitsLoosely == room > 1

\* Whether string_delimiter writes its quote.
DelimiterFits == room > 0

\* What is_basic_printed says of a byte.
Basic(k) == k = "basic"

\* How many bytes a character written as an escape takes.
Width(k) == CASE k = "short" -> 2
              [] k \in {"control", "lead2", "lead3"} -> 6
              [] k = "lead4" -> 12

\* Mutant of Bytes: a code point above the basic plane has three bytes.
BytesThree(k) == CASE k = "lead2" -> 2 [] k \in {"lead3", "lead4"} -> 3 [] OTHER -> 1

\* The bytes a code point consists of.
Bytes(k) == CASE k = "lead2" -> 2 [] k = "lead3" -> 3 [] k = "lead4" -> 4 [] OTHER -> 1

Leads == {"lead2", "lead3", "lead4"}

Written(of, width) == [k \in 1 .. width |-> [of |-> of, part |-> k]]
Copied(first, past) == [k \in 1 .. past - first |-> [of |-> << first + k - 1 >>, part |-> 1]]
OpeningQuote == Written(<< 0 >>, 1)
ClosingQuote == Written(<< Len(value) + 1 >>, 1)

\* Mutant of NeedsMore: one byte more is waited for.
NeedsOneMore(n) ==
  IF codepoint = << >> THEN value[n] \in Leads
                       ELSE Len(codepoint) + 1 <= Bytes(value[codepoint[1]])

\* char_to_tmp, given the bytes of the code point read before and a byte at
\* position n: either more bytes are needed ...
NeedsMore(n) ==
  IF codepoint = << >> THEN value[n] \in Leads
                       ELSE Len(codepoint) + 1 < Bytes(value[codepoint[1]])

\* Mutant of Tmp: what was written before of the character is written again.
TmpFromStart(n) ==
  LET lead == IF codepoint = << >> THEN n ELSE codepoint[1]
  IN  Written(Append(codepoint, n), Width(value[lead]))

\* ... or this is what is left to be written of the character.
Tmp(n) ==
  LET lead == IF codepoint = << >> THEN n ELSE codepoint[1]
      all == Written(Append(codepoint, n), Width(value[lead]))
  IN  SubSeq(all, sub_position + 1, Len(all))

\* The assertion in char_to_tmp: a byte that begins no character.
Stray(n) == codepoint = << >> /\ value[n] = "cont"

-----------------------------------------------------------------------------
\* output::string is called with r bytes of room in the buffer.  Only the first
\* call may come without room: the later ones get a new buffer.
Call(r) ==
  /\ phase = "idle" /\ result # "done"
  /\ r = 0 => result = "none"
  /\ room' = r
  /\ phase' = "called"
  /\ UNCHANGED << value, locator, loop, out, result, split >>

\* The opening quote, unless it was written by an earlier call.
OpenQuote ==
  /\ phase = "called" /\ position = 0
  /\ \/ /\ DelimiterFits
        /\ out' = out \o OpeningQuote
        /\ room' = room - 1
        /\ position' = 1
        /\ UNCHANGED phase
     \/ /\ ~DelimiterFits
        /\ phase' = "full"
        /\ UNCHANGED << out, room, position >>
  /\ UNCHANGED << value, sub_position, codepoint, loop, result, split >>

\* string_content is called, unless the closing quote only is left to be written.
EnterContent ==
  /\ phase = "called" /\ position > 0
  /\ phase' = IF position = Len(value) + 1 THEN "quote" ELSE "content"
  /\ next' = position
  /\ pending' = FALSE
  /\ UNCHANGED << value, locator, out, room, result, split >>

InLoop == phase = "content" /\ next - position < room /\ next <= Len(value)

\* A byte that is copied later.
BasicByte ==
  /\ InLoop
  /\ Basic(value[next]) /\ codepoint = << >>
  /\ pending' = TRUE
  /\ next' = next + 1
  /\ UNCHANGED << value, locator, out, room, phase, result, split >>

\* The bytes that wait to be copied.
Waiting == IF pending THEN Copied(position, next) ELSE << >>

\* Any other byte: what waits is copied, then it goes through char_to_tmp.
SpecialByte ==
  /\ InLoop
  /\ ~Basic(value[next]) \/ codepoint # << >>
  /\ ~Stray(next)
  /\ LET left == room - Len(Waiting)
         tmp == Tmp(next)
     IN  \/ /\ NeedsMore(next)
            /\ codepoint' = Append(codepoint, next)
            /\ position' = next
            /\ next' = next + 1
            /\ out' = out \o Waiting
            /\ room' = left
            /\ split' = (split \/ (left = 1 /\ codepoint = << >>))
            /\ UNCHANGED << sub_position, phase >>
         \/ /\ ~NeedsMore(next) /\ left >= Len(tmp)
            /\ out' = out \o Waiting \o tmp
            /\ room' = left - Len(tmp)
            /\ position' = next + 1
            /\ next' = next + 1
            /\ sub_position' = 0
            /\ codepoint' = << >>
            /\ UNCHANGED << phase, split >>
         \/ /\ ~NeedsMore(next) /\ left < Len(tmp)
            /\ out' = out \o Waiting \o SubSeq(tmp, 1, left)
            /\ room' = 0
            /\ position' = next
            /\ sub_position' = sub_position + left
            /\ phase' = "full"
            /\ UNCHANGED << next, codepoint, split >>
  /\ pending' = FALSE
  /\ UNCHANGED << value, result >>

\* assert(false) in char_to_tmp
StrayByte ==
  /\ InLoop
  /\ Stray(next)
  /\ phase' = "aborted"
  /\ UNCHANGED << value, locator, loop, out, room, result, split >>

\* Mutant of EndOfLoop: the locator stays before what was copied.
EndOfLoopKeepsPosition ==
  /\ phase = "content" /\ ~InLoop
  /\ out' = out \o Waiting
  /\ room' = room - Len(Waiting)
  /\ pending' = FALSE
  /\ phase' = IF next - position < room THEN "quote" ELSE "full"
  /\ UNCHANGED << value, locator, next, result, split >>

\* After the loop: what waits is copied; the string was ended unless the buffer is
\* full.
EndOfLoop ==
  /\ phase = "content" /\ ~InLoop
  /\ out' = out \o Waiting
  /\ room' = room - Len(Waiting)
  /\ position' = IF pending THEN next ELSE position
  /\ pending' = FALSE
  /\ phase' = IF next - position < room THEN "quote" ELSE "full"
  /\ UNCHANGED << value, sub_position, codepoint, next, result, split >>

\* The closing quote; all but the codepoint of the locator is reset.
CloseQuote ==
  /\ phase = "quote" /\ DelimiterFits
  /\ out' = out \o ClosingQuote
  /\ room' = room - 1
  /\ position' = 0 /\ sub_position' = 0
  /\ phase' = "complete"
  /\ UNCHANGED << value, codepoint, loop, result, split >>

\* The locals of string_content are gone after a return.
LeaveLoop == next' = 0 /\ pending' = FALSE

ReturnTrue ==
  /\ phase = "complete"
  /\ room' = -1
  /\ phase' = "idle"
  /\ result' = "done"
  /\ LeaveLoop
  /\ UNCHANGED << value, locator, out, split >>

\* output::string returns false.
ReturnFalse ==
  /\ phase = "full" \/ (phase = "quote" /\ ~DelimiterFits)
  /\ room' = -1
  /\ phase' = "idle"
  /\ result' = "more"
  /\ LeaveLoop
  /\ UNCHANGED << value, locator, out, split >>

\* Nothing is called after true was returned, nor after the abort.
Finished == (result = "done" \/ phase = "aborted") /\ UNCHANGED vars

Advance ==
  \/ OpenQuote \/ EnterContent
  \/ BasicByte \/ SpecialByte \/ StrayByte \/ EndOfLoop
  \/ CloseQuote \/ ReturnTrue \/ ReturnFalse

Next == (\E r \in Rooms : Call(r)) \/ Advance \/ Finished

Spec == Init /\ [][Next]_vars

\* A call runs to its return, and output_json and its like call again until true
\* is returned.
FairSpec == Spec /\ WF_vars(\E r \in Rooms \ {0} : Call(r)) /\ WF_vars(Advance)

-----------------------------------------------------------------------------
(* Properties.                                                             *)

\* What is to be written for the character that begins at the n-th byte of a string;
\* the bytes after its first one add nothing.
Character(v, n) ==
  CASE v[n] = "cont" -> << >>
    [] Basic(v[n]) -> Copied(n, n + 1)
    [] OTHER -> Written([k \in 1 .. Bytes(v[n]) |-> n + k - 1], Width(v[n]))

\* What is to be written before and for the first n bytes of a string.
TextUpTo(v) ==
  LET Text[n \in 0 .. Len(v)] ==
        IF n = 0 THEN OpeningQuote ELSE Text[n - 1] \o Character(v, n)
  IN  Text

\* The string as it is to be written.
Serialisation == TextUpTo(value)[Len(value)] \o ClosingQuote

\* Every variable keeps its type; the positions stay in the string.
TypeOK ==
  /\ value \in Values
  /\ position \in 0 .. Len(value) + 1
  /\ sub_position \in 0 .. 11
  /\ codepoint \in BoundedSeq(1 .. Len(value), 3)
  /\ next \in 0 .. Len(value) + 1
  /\ pending \in BOOLEAN
  /\ room \in Nat \cup {-1}
  /\ phase \in Phases
  /\ result \in {"none", "more", "done"}
  /\ split \in BOOLEAN

\* The assertion in char_to_tmp holds for every well-formed string however it is cut
\* by the ends of the buffers, unless a buffer had a single byte left when the
\* leading byte of a character was read.
NeverAborts == ~split => phase # "aborted"

\* The locator alone, without what was written, tells how far the text has come:
\* after a return it stands for exactly the bytes in the buffers.
LocatorTellsHowFar ==
  ~split /\ phase = "idle" /\ result = "more" =>
    /\ position = 0 <=> out = << >>
    /\ position > 0 =>
         LET first == IF codepoint = << >> THEN position ELSE codepoint[1]
         IN  Len(out) = Len(TextUpTo(value)[first - 1]) + sub_position

W == INSTANCE Writer WITH text <- Serialisation

\* string() is a Writer: in whatever pieces, nothing is written twice, left out or
\* out of order, false means that the buffer is full and true that all is written.
IsWriter == W!Spec

\* The same but for the steps after a leading byte was read with one byte of room.
IsWriterUnlessSplit == W!Init /\ [][W!Next \/ split']_(W!vars)

\* Called often enough with any room, string() returns true at last.
EventuallyDone == <>(result = "done" \/ split)
=============================================================================
