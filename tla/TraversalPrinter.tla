-------------------------- MODULE TraversalPrinter --------------------------
(***************************************************************************)
(* ItemBuilderPrinter (jsonprint.cpp): the handlers that print a document  *)
(* while it is parsed, through a buffer.  Of where they are in it they     *)
(* know one bit.                                                           *)
(*                                                                         *)
(* A byte printed is << text, i >>, the i-th byte of that text: a value, a *)
(* piece of a string with its escapes, or one character of JSON.           *)
(***************************************************************************)
EXTENDS Integers, Sequences

CONSTANTS
  Width,      \* how many bytes the values and the pieces of strings take
  BufferSize

ASSUME BufferSizeAssumption == BufferSize \in Nat /\ BufferSize > 0
ASSUME WidthAssumption == \A v \in DOMAIN Width : Width[v] \in Nat

VARIABLES
  previous_is_key,  \* what is printed next needs no separator before it
  buf,              \* what the buffer holds
  out               \* what was given to std::cout

printerVars == << previous_is_key, buf, out >>

PrinterInit ==
  /\ previous_is_key = TRUE
  /\ buf = << >>
  /\ out = << >>

-----------------------------------------------------------------------------
Char(c) == << << c, 1 >> >>
TextOf(v) == [i \in 1 .. Width[v] |-> << v, i >>]

Separator == IF previous_is_key THEN << >> ELSE Char(",")

\* The functions of output are called until they return true, with a buffer that is
\* flushed whenever it is full and there is more to write.  Each of them is taken for a
\* Writer in any room, and each piece of a string for whole characters: the character
\* that is split when its leading byte meets a single byte of room (output.h:365, see
\* StringOutput) and the piece that ends inside a character, whose first bytes the
\* locator made for each piece forgets (jsonprint.cpp:142), are left out.
Put(text) ==
  LET all == buf \o text
      n == IF all = << >> THEN 0 ELSE BufferSize * ((Len(all) - 1) \div BufferSize)
  IN  /\ out' = out \o SubSeq(all, 1, n)
      /\ buf' = SubSeq(all, n + 1, Len(all))

\* Mutant of flushbuffer: only a full buffer is given on.
flushbufferIfFull ==
  /\ out' = IF Len(buf) = BufferSize THEN out \o buf ELSE out
  /\ buf' = << >>
  /\ UNCHANGED previous_is_key

flushbuffer ==
  /\ out' = out \o buf
  /\ buf' = << >>
  /\ UNCHANGED previous_is_key

\* begin_array_handler and begin_object_handler
print_begin(bracket) ==
  /\ Put(Separator \o Char(bracket))
  /\ previous_is_key' = TRUE

\* end_array_handler and end_object_handler
print_end(bracket) ==
  /\ Put(Char(bracket))
  /\ previous_is_key' = FALSE

\* boolean_handler, double_handler and null_handler
print_scalar(v) ==
  /\ Put(Separator \o TextOf(v))
  /\ previous_is_key' = FALSE

print_begin_string ==
  /\ Put(Separator \o Char("quote"))
  /\ previous_is_key' = FALSE

\* string_content_handler and key_content_handler.  Every piece has a locator of its own:
\* the pieces are of whole characters.
print_content(piece) ==
  /\ Put(TextOf(piece))
  /\ UNCHANGED previous_is_key

print_end_string ==
  /\ Put(Char("quote"))
  /\ UNCHANGED previous_is_key

\* begin_key_handler
print_begin_key ==
  /\ Put(Separator \o Char("quote"))
  /\ UNCHANGED previous_is_key

\* Mutant of print_end_key: a key needs a separator after it like anything else.
print_end_keyAsString ==
  /\ Put(Char("quote") \o Char(":"))
  /\ previous_is_key' = FALSE

\* end_key_handler
print_end_key ==
  /\ Put(Char("quote") \o Char(":"))
  /\ previous_is_key' = TRUE
=============================================================================
