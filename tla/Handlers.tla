------------------------------ MODULE Handlers ------------------------------
(***************************************************************************)
(* What the handlers of item_builder and of jsonprint make of the calls of *)
(* a parser, any that SaxProtocol allows: ParserBits makes no others but   *)
(* for surrogate pairs in keys.  jsonprint has either, and prints a        *)
(* document by either; here both are given the same calls.                 *)
(***************************************************************************)
EXTENDS ItemBuilder, TraversalPrinter

CONSTANTS
  Booleans, Numbers,  \* their values
  Pieces,             \* the pieces that strings and names are handed over in
  MaxCalls            \* how long a document goes on

VARIABLES
  frames,  \* what is begun and not ended, see SaxProtocol
  calls    \* the calls made

vars == << frames, calls, builderVars, printerVars >>

P == INSTANCE SaxProtocol WITH MayReject <- {}, MayBeLost <- {}

Texts == Booleans \cup Numbers \cup Pieces

ASSUME TextsAssumption == Texts \cup {"null"} \subseteq DOMAIN Width

Init ==
  /\ frames = << "root" >>
  /\ calls = << >>
  /\ BuilderInit
  /\ PrinterInit

-----------------------------------------------------------------------------
\* The parser calls handler h with value v.
Call(h, v) ==
  /\ Last(frames) \in P!Taken(h)
  /\ Len(calls) < MaxCalls
  /\ frames' = P!After(frames, h)
  /\ calls' = Append(calls, << h, v >>)

BeginArray == Call("begin_array", "") /\ begin_array_handler /\ print_begin("[")
BeginObject == Call("begin_object", "") /\ begin_object_handler /\ print_begin("{")
BeginString == Call("begin_string", "") /\ begin_string_handler /\ print_begin_string
BeginKey == Call("begin_key", "") /\ begin_key_handler /\ print_begin_key

StringContent(s) ==
  Call("string_content", s) /\ string_content_handler(s) /\ print_content(s)
KeyContent(s) == Call("key_content", s) /\ key_content_handler(s) /\ print_content(s)

Boolean(v) == Call("boolean", v) /\ boolean_handler(v) /\ print_scalar(v)
Double(v) == Call("double", v) /\ double_handler(v) /\ print_scalar(v)
Null == Call("null", "") /\ null_handler /\ print_scalar("null")

EndArray == Call("end_array", "") /\ end_current /\ print_end("]")
EndObject == Call("end_object", "") /\ end_current /\ print_end("}")
EndString == Call("end_string", "") /\ end_string_handler /\ print_end_string
EndKey == Call("end_key", "") /\ end_key_handler /\ print_end_key

Begins == BeginArray \/ BeginObject \/ BeginString \/ BeginKey
Ends == EndArray \/ EndObject \/ EndString \/ EndKey
Contents == \E s \in Pieces : StringContent(s) \/ KeyContent(s)
Scalars == (\E v \in Booleans : Boolean(v)) \/ (\E v \in Numbers : Double(v)) \/ Null

\* The document was complete: main flushes what is left.
Finish ==
  /\ frames = << "done" >> /\ buf # << >>
  /\ flushbuffer
  /\ UNCHANGED << frames, calls, builderVars >>

\* The parser finds an error, or its source ends before the document does.
GiveUp ==
  /\ frames \notin {<< "done" >>, P!Stopped}
  /\ frames' = P!Stopped
  /\ UNCHANGED << calls, builderVars, printerVars >>

Over ==
  \/ frames = P!Stopped
  \/ frames = << "done" >> /\ buf = << >>

Finished == Over /\ UNCHANGED vars

Next == Begins \/ Ends \/ Contents \/ Scalars \/ Finish \/ GiveUp \/ Finished

Spec == Init /\ [][Next]_vars

-----------------------------------------------------------------------------
(* Properties.                                                             *)

IsNode(n) ==
  /\ DOMAIN n = {"type", "value", "names"}
  /\ n.type \in Types /\ n.value \in Seq(Texts) /\ n.names \in Seq(Seq(Pieces))

\* Every variable keeps its type, and a pointer on the stack points into the item: none
\* is left to a member of an array or object that grew.
TypeOK ==
  /\ calls \in Seq(P!ProtocolHandlers \X (Texts \cup {""}))
  /\ DOMAIN item_ = {<< >>} \cup UNION {MembersOf(item_, p) : p \in DOMAIN item_}
  /\ \A p \in DOMAIN item_ : IsNode(item_[p])
  /\ current_item_ \in Seq(DOMAIN item_)
  /\ lastString_ \in Seq(Pieces)
  /\ previous_is_key \in BOOLEAN
  /\ Len(buf) <= BufferSize

\* The types of current item that the handlers of each frame have contracts for or tell
\* apart (REQUIRE in basic_item.h).
Expected(frame) ==
  CASE frame = "root" -> {"Null"}
    [] frame = "array" -> {"Array"}
    [] frame = "object" -> {"Object"}
    [] frame = "property" -> {"Null"}
    [] frame = "string" -> {"String"}
    [] frame = "key" -> {"Object"}
    [] frame = "done" -> Types \ {"Null"}

\* The stack of the builder keeps step with the parser: whatever the parser may call
\* next finds a current item that it can be called on, so no contract is ever broken.
ContractsMet == frames # P!Stopped => BackIs(Expected(Last(frames)))

\* How many pointers there are at these frames: the parser has pushed "key" where the
\* builder waits for the name, and the builder the value where the parser has "property".
PointersAt(fs) ==
  CASE Last(fs) = "key" -> Len(fs) - 1
    [] Last(fs) = "property" -> Len(fs) + 1
    [] OTHER -> Len(fs)

\* The stack is as deep as what was begun and not ended.  Under the pointer to the item
\* itself that the constructor has pushed it leads from the document inwards: each
\* pointer is to the last member of the one before.
StackLeadsInwards ==
  frames # P!Stopped =>
    /\ Len(current_item_) = PointersAt(frames)
    /\ \A i \in DOMAIN current_item_ :
         current_item_[i] =
           IF i <= 2 THEN << >>
           ELSE Append(current_item_[i - 1], Len(item_[current_item_[i - 1]].names))

\* What is printed for a call alone.
TextOfCall(call) ==
  LET h == call[1]
  IN  CASE h = "begin_array" -> Char("[") [] h = "end_array" -> Char("]")
        [] h = "begin_object" -> Char("{") [] h = "end_object" -> Char("}")
        [] h \in {"begin_string", "end_string", "begin_key"} -> Char("quote")
        [] h = "end_key" -> Char("quote") \o Char(":")
        [] h = "null" -> TextOf("null")
        [] OTHER -> TextOf(call[2])

\* The calls that end a value, and those that begin one or a member.
Ending == {"end_array", "end_object", "end_string", "boolean", "double", "null"}
Beginning == {"begin_array", "begin_object", "begin_string", "begin_key",
              "boolean", "double", "null"}

\* What the n-th call adds to the text, as ECMA-404 has it: a comma is where an element
\* or a member follows another.
Follows(cs, n) ==
  (IF n > 1 /\ cs[n - 1][1] \in Ending /\ cs[n][1] \in Beginning THEN Char(",") ELSE << >>)
    \o TextOfCall(cs[n])

\* The text of the first n calls of a sequence.
PrintUpTo(cs) ==
  LET Text[n \in 0 .. Len(cs)] == IF n = 0 THEN << >> ELSE Text[n - 1] \o Follows(cs, n)
  IN  Text

PrintOf(cs) == PrintUpTo(cs)[Len(cs)]

Made == frames # << "root" >> /\ frames # P!Stopped

\* What jsonprint prints while it parses is, byte by byte and through a buffer of any
\* size, the text of the calls it was given, although one bit alone decides about the
\* comma before a value or a key.
PrintsWhatWasGiven == Made => out \o buf = PrintOf(calls)

-----------------------------------------------------------------------------
(* What an item tells: the calls it was made of, each at its place.  A     *)
(* place is a path into a node: 0 is where the node begins, the pieces of  *)
(* a text and the members follow by their numbers, then the end; the name  *)
(* of a member is before it, at -1.                                        *)

Opening == [Null |-> "null", Boolean |-> "boolean", Double |-> "double",
            String |-> "begin_string", Array |-> "begin_array", Object |-> "begin_object"]

Closing == [String |-> "end_string", Array |-> "end_array", Object |-> "end_object"]

ValueOf(n) == IF n.type \in {"Boolean", "Double"} THEN n.value[1] ELSE ""

\* The parts a node consists of.
Parts(n) == IF n.type = "String" THEN n.value ELSE n.names

NameAt(p, i) == Append(Append(p, i), -1)

PiecesAt(p, h, pieces) == {<< Append(p, i), << h, pieces[i] >> >> : i \in DOMAIN pieces}

\* A name that may go on, and one that is complete.
BegunName(p, name) ==
  {<< Append(p, 0), << "begin_key", "" >> >>} \cup PiecesAt(p, "key_content", name)

WholeName(p, name) ==
  BegunName(p, name) \cup {<< Append(p, Len(name) + 1), << "end_key", "" >> >>}

\* What a node tells but for its members, given the paths of those under construction.
\* A property whose value is to come is a null item under construction.
ToldBy(p, n, open) ==
  (IF n.type = "Null" /\ p \in open THEN {}
     ELSE {<< Append(p, 0), << Opening[n.type], ValueOf(n) >> >>})
    \cup (IF n.type = "String" THEN PiecesAt(p, "string_content", n.value) ELSE {})
    \cup (IF n.type = "Object" THEN UNION {WholeName(NameAt(p, i), n.names[i]) : i \in DOMAIN n.names}
            ELSE {})
    \cup (IF n.type \in DOMAIN Closing /\ p \notin open
            THEN {<< Append(p, Len(Parts(n)) + 1), << Closing[n.type], "" >> >>} ELSE {})

Told(tree, open) == UNION {ToldBy(p, tree[p], open) : p \in DOMAIN tree}

\* A place is before another in the document.
Precedes(a, b) ==
  \E i \in DOMAIN a : i \in DOMAIN b /\ a[i] < b[i] /\ \A j \in 1 .. i - 1 : a[j] = b[j]

\* How many calls told of are before a place.
Rank(told, place) == Cardinality({t \in told : Precedes(t[1], place)})

\* The calls told of, in the order of the document.
InOrder(told) ==
  LET ranked == {<< Rank(told, t[1]) + 1, t[2] >> : t \in told}
  IN  [n \in 1 .. Cardinality(told) |-> (CHOOSE r \in ranked : r[1] = n)[2]]

UnderConstruction(pointers) == {pointers[i] : i \in 2 .. Len(pointers)}

\* What is known of a name whose property is not created yet.
ToldByName(tree, pointers, fs, name) ==
  IF Last(fs) = "key"
    THEN BegunName(NameAt(Last(pointers), Len(tree[Last(pointers)].names) + 1), name)
    ELSE {}

ToldByBuilder(tree, pointers, fs, name) ==
  Told(tree, UnderConstruction(pointers)) \cup ToldByName(tree, pointers, fs, name)

\* The item is the document: at every moment it tells of the calls made, in their order
\* and with their values, and of nothing else.  Those that the builder still points to
\* are the ones that were not ended.
ItemTellsCalls ==
  Made => calls = InOrder(ToldByBuilder(item_, current_item_, frames, lastString_))

\* What jsonprint leaves when the document ends is the text of the item.
PrintsItem == frames = << "done" >> /\ buf = << >> => out = PrintOf(InOrder(Told(item_, {})))
=============================================================================
