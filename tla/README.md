# Specifications of JBCJson

TLA+ modules, model-checking runs and machine-checked proofs about JBCJson, the C++
template library for parsing and producing JSON in `src/`. They are kept beside the
code: a change of `parser_bits.h`, `output.h`, `item_builder.h`, `basic_item.h`,
`stl_json.h` or of the two tools should be made here too, and the runs and proofs
repeated.

## The system and its parts

| Part | State it keeps | Operations | Correct when |
|---|---|---|---|
| parser (`parser_bits.h`) | stack of consumers (member functions), flags `begin_ end_ error_ inside_key_`, number text `lastValue_`, `lastCodePoint`, view `first_`..`end_buf_` into the current chunk | `consume(char)`, `consume(begin, end)`, `end()`, `complete_without_error()` | accepts the JSON documents that are an array, an object or a string, and no others, calls the handlers in a document's order, hands over every character once, reports every error, wherever the input is cut |
| handlers (`parser_callbacks`, a template parameter and base class of the parser) | their own | 13 handlers that answer true or false | — (they may rely on the order of the calls) |
| helper functions (`helper_functions.h`) | none | numbers from text, hexadecimal digits, UTF-8 from code points, token classes | agree with strtod, UTF-16 and UTF-8 |
| item builder (`item_builder.h`) | stack of pointers to the items under construction, current property name | one per handler | builds the item of the document; never uses a pointer to a member that moved |
| items (`basic_item.h`) | tagged union of null, boolean, number, string, array, object | accessors, property and item changes | a property name leads to one value |
| string output (`output.h`) | `basic_locator`: position, piece of an escape already written, bytes of an unfinished code point | `string`, `string_content`, `string_delimiter` | in whatever buffers, writes the text once, in order |
| item output (`output.h`) | locators nested in each other | `number`, `boolean`, `null`, `array`, `object`, `output_visitor`, `output_json` | the same for whole items; true only if the stream took them |
| drivers (`stl_json.h`, `qt_json.h`, `jsonlint`) | a file or stream and a parser | `parse_from_file`, `parse_from_stream`, `parse_one_document`, `lint` | true exactly for a source that is a document; terminate |
| jsonprint (`tools/jsonprint`) | parser on a fixed stack, output buffer, one bit about separators | handlers that write, a reading loop | reprints the document it reads |

The parser inherits from its handlers and calls them while it reads a character; a
handler's answer comes back into the parser's result. `item_builder` and jsonprint's
`ItemBuilderPrinter` are handlers. `output_visitor` calls the output function of each
item's type, with a locator that lives between two calls. Everything is sequential: the
hard part is not threads but **resumption**. A caller may cut a document anywhere,
stop, ask for the state and go on; an output buffer may end between any two bytes. What
goes wrong here goes wrong at one cut in a thousand, or when a handler rejects, and the
tests feed whole documents to accepting handlers.

## Modules

| Module | What it models |
|---|---|
| `ParserBits` | the parser. One operator per consumer (`consume_array_`, ...), named as in the code; `Read(c)` is one turn of the loop in `consume`, `Flush` its final `consume_(nullptr)`, `ReturnFalse` the early return of `consume(char)`, `end` is `end()`. |
| `SaxProtocol` | what handlers may rely on: the calls that may come, given what was begun and not ended. Abstract; `ParserBits` implements it by a refinement mapping of the stack (`framesOfStack`). |
| `Grammar` | which texts are documents: the grammar of RFC 8259 as languages (sets of texts), once as the RFC has it (`JsonText`) and once as the parser reads it (`ReadDocuments`), and `ParserBits` with the text fed so far |
| `Numeral` | number texts, up to what strtod tells apart |
| `CodePoint` | `\u` units, pairs, the UTF-8 bytes of a code point, and the escapes the output writes for them |
| `Conversions` | both against their references (what strtod reads, the decoders of UTF-8 and UTF-16), for every text and code point of its constants |
| `BasicItem` | an item as a tree, pointers into it, and what growing a vector does to them |
| `ItemBuilder` | the handlers of `item_builder`, with the contracts of `basic_item` as guards |
| `TraversalPrinter` | the handlers of jsonprint and their buffer |
| `Handlers` | both sets of handlers given the same calls, with `SaxProtocol` in the place of the parser; what calls an item tells of (`Told`), in what order (`InOrder`) |
| `SourceStates` | what the drivers know of a parser: which of its states a character leads to. Abstract; `ParserBits` follows it (`ActsAsSource`). |
| `Drivers` | the five loops that read a source and feed a parser, with read errors |
| `Properties` | the properties of an object as its owner changes them |
| `PropertyMap` | what an object is taken for, a map from names to items. Abstract; `Properties` implements it until a name is added twice. |
| `StringOutput` | `output::string` with `string_content` and `char_to_tmp`, one action per turn of the loop |
| `ItemOutput` | arrays, objects and scalars written with nested locators, and `output_json` with its stream |
| `Writer` | what each output function promises (the comments of `output.h`, lines 104 to 123 and 191 to 195). Abstract; `StringOutput` and `ItemOutput` implement it. |
| `MCParser`, `MCAlphabets`, `MCGrammar`, `MCConversions`, `MCStringOutput`, `MCItemOutput`, `MCHandlers` | constants for TLC; `MCItemOutput` computes the text of an item that is compared with |
| `ParserProofs` | theorems about `ParserBits`: its control (the stack, the flags), the data it keeps (types, numbers, code points, views, results), that it implements `SaxProtocol`, and that it is what the drivers take it for |
| `GrammarProofs` | theorems about `Grammar`: the parser accepts exactly `ReadDocuments`, and what the RFC has of them |
| `ConversionsProofs`, `DriverProofs`, `HandlersProofs`, `ItemOutputProofs`, `StringOutputProofs`, `PropertiesProofs` | theorems about the module each is named for |

How they compose: `ParserBits` is checked and proved against `SaxProtocol`, and the
handlers are run against `SaxProtocol` alone, so what `Handlers` shows holds for the
handlers under the parser (but for the pair in a key, below). `ItemOutput` takes strings
and names to behave as `Writer`, which `StringOutput` is proved to do until `split`. `Drivers` knows
of the parser only what `SourceStates` says and that its answers tell the state, which is
`ActsAsSource` of `ParserBits` for handlers that reject nothing, as those of the drivers;
and a source that is complete is one of the `ReadDocuments` of `Grammar`.

### How ParserBits corresponds to the code

- `consumer_stack_`, `begin_`, `end_`, `error_`, `inside_key_`, `first_`, `end_buf_` are
  the members of that name. `error_` stands also for `err_`: both are set by `make_error`
  and by `end()`. `first_` and `end_buf_` are indices into the current chunk, 0 is
  `nullptr`.
- `lastValue_` is a class of `Numeral`, or "text" after a `\u` escape, which uses it as a
  buffer. `lastCodePoint` is the pair of its 16 bit halves: the code shifts the first
  unit up and adds to the low half, which never carries.
- A character is a one-character string. "x" is any character that means nothing, "sp"
  white space, "ctrl" a character that is forbidden in texts.
- `call`, `pos` and `good` are the call in progress and its locals. `calls` holds the
  handlers the last step called with their answers, `rejected` whether one answered false
  in this call, `owed` how many characters of a text were read and not handed over: these
  three are history and no guard reads them.
- The environment chooses the characters, the cuts, the handlers' answers (`MayReject`)
  and the moment of `end()`. What the code does after `end()` is not modelled: the
  owner does not use the parser any more.
- `consume_literal_`, `consume_text_`, `consume_stringuvalue_` and `ItemStart` stand for
  several consumers of the same form, told apart by a table.

### How Grammar corresponds to the code

`text` is every character fed since the start, also those after an error; the rest is
`ParserBits`, whose `Read`, `StartCall`, `Flush`, `ReturnFalse` and `end` it composes.
`Shapes` only chooses the texts. A rule of the grammar is an operation on languages
(`Then`, `Star`, `Enclosed`, ...). `Values` is recursive in the text: the members of an
array or object are shorter than it. `JsonNumber` and `JsonString` are the RFC's;
`ReadNumber` and `ReadString` are what `consume_number_` with strtod and the `\u` consumers
take. `JsonText` is the RFC's document: any value, with spaces around it. `RootScalars`
are those whose value is a number, `true`, `false` or `null`, for which
`consume_initial_` has no case; `ReadDocuments` are the arrays, objects and strings that
it begins. `JsonString` has only escapes that are well-formed UTF-16; the RFC's syntax
allows others as well, of which the parser takes some (below). The properties are about handlers that accept everything and numbers a double can hold
(`AcceptingAssumption`): what a rejection does is the business of `structure`.

### How the handlers correspond to the code

- An item is a function from paths to nodes, and a pointer in `current_item_` is a path.
  `emplace_back` of a vector may move its members, so a pointer on the stack to one of
  them becomes `Dangling`; the type invariant asks that none ever is.
- A `REQUIRE` of `basic_item` is a guard (`BackIs`). If a contract could be broken, the
  handler's action would be disabled where the parser may call it: `ContractsMet` says
  that it never is.
- The pieces of strings are model values; a number or boolean is its value's name.
- `previous_is_key`, `buf` and `out` are the printer's bit, its buffer and what it gave to
  `std::cout`. `Put` is a loop `while(!output...) flushbuffer()` over an output function,
  by what `Writer` promises in any room, with pieces of whole characters. Left out are
  therefore the character that is split when its leading byte meets a single byte of
  room (`output.h`:365, the run `split_code_point`), and a piece that ends inside a
  character.
- `PrintOf` is the text of a sequence of calls; `Width` of a value how many bytes it has.
- `frames` is the parser; `GiveUp` its error or the end of the source, `Finish` the flush
  in `main`.

### How StringOutput corresponds to the code

`position`, `sub_position` and `codepoint` are the members of `basic_locator`, the last
one as the positions of the bytes in `codepointByte1` to `3`; `next` is `i + 1` and
`pending` is `needToCopyBasicData`; `room` is `buf.size() - offset`. A byte written
names the bytes of the string it was computed from and its number in the escape, so that
a byte written twice, left out or computed from the wrong bytes is seen; the arithmetic
itself is in `CodePoint`. `split` is history. Strings are well-formed UTF-8. Of others
the code asserts on stray bytes only (`output.h`:565-568); a string that ends inside a
character is cut off there without an assertion, and its bytes stay in `codepointByte1`
to `3`. The build of the repository leaves assertions on (`-O3` replaces
CMake's release flags), so a failed one ends the run (`aborted`).

### How ItemOutput corresponds to the code

`locs` is the locator of the outermost function, the one it owns in
`position_in_subitem`, and so on inwards; `depth` is how many functions are active, each
in the one before, and `phase` where the innermost of them is. `Begin`, `Descend`,
`ArrayNext`, `WriteKey`, `WriteColon`, `ObjectNext` and `End` are the statements between
two looks at the buffer; `ReturnTrue` and `ReturnFalse` are the two ways back from the
visitor into the loop of the caller. A separator of an object is written if it fits and
the answer is dropped, as in the code. `WriteBuffer` and `ReturnVerdict` are the rest of
the loop of `output_json`. A byte names the item it belongs to by its path.

### How Drivers and Properties correspond to the code

A source is what the parser makes of it, character by character: nothing begun, inside
the document, complete, or an error. `taken` and `fed` are the positions of the source
and of the parser; `ReadChunk` and `ReadCharacter` are the read, `Consume` the call of the
parser, `Return` what the loop is followed by. Only stream loops look at `bad`: `feof` is
what a FILE is asked.

An object is its vector of pairs. The operations that look for a name find the first pair
of it; `slot` is the pair an item is moved from, which is left null, or 0 for a new item.
`duplicated` is history.

## Runs

All bounds are constants of the cfg files.

| Run | Checks | Shows |
|---|---|---|
| structure | `TypeOK`, `StackShape`, `CompleteExactly`, `EscapeKnowsItsText`, `ContentAccounted`, `NoDanglingView`, `ErrorReported`, `FollowsProtocolButKeyPairs`, `ErrorIsFinal` | whatever is fed, cut and answered, the stack is a path of the grammar, the flags are right, no character of a text is lost, and the handlers are called as `SaxProtocol` says |
| grammar | `AcceptsAllButScalars`, `AcceptsOnlyDocuments`, `ActsAsSource` | of the texts of RFC 8259 the parser accepts those whose root is an array, an object or a string and refuses those whose root is a number, `true`, `false` or `null`; it accepts no others but for some numbers and pairs of escapes; its answers are what the drivers take them for |
| conversions | `ClassTellsStrtod`, `DecodesBack`, `EscapesReadBack`, `ControlsReadBack` | the conversions agree with their references and with each other, for all but the code points that the properties name: the surrogates and U+07FF are not written as UTF-8, U+0010 is not read back |
| string_output | `TypeOK`, `LocatorTellsHowFar`, `NeverAborts`, `IsWriterUnlessSplit`, `EventuallyDone` | a string written in pieces is the string |
| item_output | `TypeOK`, `LocatorsFollowItem`, `UncheckedSeparatorsFit`, `TrueOnlyIfDelivered`, `IsWriter`, `EventuallyReturns` | so is an item; `output_json` returns, and true only for what the stream took |
| handlers | `TypeOK`, `ContractsMet`, `StackLeadsInwards`, `ItemTellsCalls`, `PrintsWhatWasGiven`, `PrintsItem` | the item built tells of the calls made and of nothing else, no contract is broken, and jsonprint prints the text of that item |
| drivers | `TypeOK`, `AnswerIsRight`, `StopsAfterDocument`, `StopsAtError`, `EventuallyReturns` | the answer tells whether the source is a document, but after some failed reads; reading stops where it must; the driver returns, unless reads of a FILE fail again and again |
| properties | `NamesOnce`, `IsMapUnlessDuplicated` | an object is a map, also when items are moved within it, until a name is added that is there |

Runs that TLC finds violated, each a deviation of the code from what a comment, the
readme or a test of the repository says:

| Run | Property | What happens |
|---|---|---|
| root_string | `ContentAccounted` | `consume_initial_` sets `first_` and `end_buf_` to `char_ + 1`; a string that is the whole document, cut inside, is handed over with one character too many |
| key_pair | `FollowsProtocol` | `consume_stringuvalue9_` does not look at `inside_key_`: a pair in a key goes to `string_content_handler` |
| lost_rejection | `RejectionReported` | `consume(begin, end)` overwrites the result of a rejecting handler with that of the flush |
| split_code_point | `IsWriter` | a leading byte met with one byte of room: `string()` returns with room left and then decodes the leading byte as a continuation |

The passing runs leave these cases out where they must and nowhere else: `structure`
has no string as the document (`StringRoot`), `FollowsProtocolButKeyPairs` allows the one
step of a pair in a key, `SaxProtocol` the rejections that are lost (`MayBeLost`), and
`IsWriterUnlessSplit`, `NeverAborts`, `LocatorTellsHowFar` and `EventuallyDone` stop
promising once `split` is true. `NamesOnce` and `IsMapUnlessDuplicated` promise nothing
once `duplicated` is true. `AnswerIsRight` is about every driver but
`parse_one_document`, which `StopsAfterDocument` is about; after a failed read it lets
`lint` say true of a source of which it saw no error and `parse_from_stream` say false of
any, and `EventuallyReturns` lets the drivers of a FILE go on while reads fail again
and again. Others state the deviation itself: `AcceptsAllButScalars` which texts of the
RFC are refused, `DecodesBack` which code points are not written as UTF-8 (`Misspelt`),
`ControlsReadBack` that U+0010 alone is not read back.

Deviations that were met and have no run of their own:

- A number, `true`, `false` or `null` is a document for RFC 8259 (section 2) and is refused
  by the parser: `consume_initial_` (`parser_bits.h`:155-194) begins arrays, objects and
  strings only (`AcceptsAllButScalars`).
- `-00`, `1.` and `-.1` are numbers for `consume_number_` and strtod: a minus and all that
  strtod takes, or an integer whose point may have no digits behind it (`ReadNumber`).
- U+0010 is written as `\u000?` (`output.h`:541, `>` for `>=`).
- `consume_stringuvalue9_` combines units that are no surrogates of their kind
  (`\uDC00\uDC00`), and takes U+DFFF for a unit of its own; `ReadString` says which. It
  refuses a surrogate that stands alone (U+D800 to U+DFFE), which the syntax of the RFC
  allows. In its roots, numbers and escapes, as these entries say, `ReadDocuments` differs
  from the RFC, and the parser in no text from `ReadDocuments` (`AcceptsExactly`).
- `append_code_point` writes U+07FF in three bytes (`helper_functions.h`:335, `<` for
  `<=`), E0 9F BF, which decode to it but are ill-formed in UTF-8, as overlong forms are;
  and U+DFFF, given as an escape, in the three bytes of a surrogate, which UTF-8 has not.
  `DecodesBack` says that of the code points of Unicode no others than U+07FF and the
  surrogates are misspelt (`Misspelt`).
- `add_property` and `create_property` do not look for the name, and `item_builder` uses
  the latter: a document with a key twice is an object with two pairs, of which
  `remove_property` removes one (its comment, `basic_item.h`:301, speaks of the property
  of the given name).
- After a failed read `parse_from_file` and jsonprint's traversal go on until `feof`, which
  never holds on a directory, and so may never return (`EventuallyReturns` lets them);
  `lint` reports a success in the middle of a document, and `parse_from_stream` a
  failure also when the whole document was read (`AnswerIsRight` lets them).
  `parse_from_file` never closes its FILE.
- jsonprint makes a locator for every piece of a string, where the comment of `reset()`
  (`output.h`:59) has the bytes of a code point kept from piece to piece: of a piece that
  ends inside a character the last bytes are lost without an assertion, and
  `char_to_tmp` asserts on the first byte of the next piece. jsonprint exits with 0
  whatever `output_json` answered.

### Bounds, and why they are enough

- `MaxStack` 5 in `structure`: a document, a container, a value in it, a text and an
  escape; every pair of neighbours on a stack (`Fits`) appears, and no consumer looks
  deeper than one below itself. The proofs remove this bound for what they prove.
- `MaxChunk` 3: a view begins, goes on and ends inside one chunk, and texts span
  chunks of every length. Characters past the bound come in the next call.
- Alphabets: one representative of each class of characters a consumer tells apart.
  A document is over one of four alphabets (arrays and objects with texts and escapes;
  literals, a number and texts; `\u` escapes in strings; and in keys), which together have
  every consumer. The digits of escapes are D, C and 8 (and letters that are both digits
  and literals): units below 0xD800, high and low surrogates, above 0xDFFF, and values at
  the bounds.
- Texts of seven shapes in `grammar`: containers nested two deep, two items or properties,
  a whole escape, numbers of four characters between brackets, pairs of escapes of units
  on both sides of each bound, literals with letters of other literals in them, and
  numbers and literals as the root, with spaces around them. The
  proofs remove these bounds.
- Code points: ranges of thousands around 0x80, 0x7FF, 0x800, 0xD800 to 0xDFFF, 0xFFFF,
  0x10000 and 0x10FFFF.
- `Rooms` of strings 0, 1, 2, 5, 13: none, one, the width of the short escapes, less than
  six and more than twelve; calls combine them in every order.
- Items three levels deep with up to two members each, and one of five levels: a locator
  owns one that owns one, and there is a first, a last and an only member. Rooms 0, 1, 3
  and 6 end a buffer inside and after each kind of text.
- Nine calls of handlers: a container in a container with a member behind it, a property
  with a name in two pieces and a string value, and containers of several scalars. A
  buffer of 3 bytes is filled within a token, at its end, and by a separator.
- Sources of six characters read two at a time: the end of the document, the first error
  and the end of the source fall before, at and after the end of a buffer, with characters
  behind them.
- Four properties of three names: a name twice with pairs before, between and behind.

Deadlock is checked except in `conversions`, which counts to the end of finite ranges.

### Fairness

`ParserBits`, `Handlers` and `Properties` have none: a caller may stop at any time, and
nothing is promised about that. `StringOutput` and `ItemOutput` have weak fairness of
their steps, for a function that was called runs on, and of calls with room: `output_json`
and the tests call until true is returned, each time with an empty buffer. With it
strings and items are finished (`EventuallyDone`, `EventuallyReturns`) even through
buffers of one byte. `Drivers` has weak fairness of its steps: the loops are sequential
code, and a read returns. That a read fails again and again is a choice of the
environment that fairness does not exclude; `EventuallyReturns` shows that only loops
on a FILE can go on for ever, and only so.

## Proofs

TLAPS checks these for every value of the constants:

| Module | Theorem | States |
|---|---|---|
| `ParserProofs` | `StackSound` | `Spec => []StackShape` |
| | `CompletionExact` | `Spec => []CompleteExactly` |
| | `ErrorFinal` | `Spec => ErrorIsFinal` |
| | `TypesKept` | `Spec => []TypeOK` |
| | `EscapeFlagRight` | `Spec => []EscapeKnowsItsText` |
| | `NoViewLeft` | `Spec => []NoDanglingView` |
| | `ErrorsReported` | `Spec => []ErrorReported` |
| | `EveryCharacterOnce` | `Spec => []ContentAccounted`, if `StringRoot = FALSE` |
| | `CallsInOrder` | `Spec => FollowsProtocolButKeyPairs` |
| | `ActsForDrivers` | `Spec => ActsAsSource`, if `MayReject = {}` |
| `GrammarProofs` | `AcceptsExactly` | `GrammarSpec => [](complete_without_error <=> text \in ReadDocuments)` |
| | `AcceptedIsDocument` | `GrammarSpec => []AcceptsOnlyDocuments` |
| | `JsonTextAccepted` | `GrammarSpec => []AcceptsAllButScalars` |
| `HandlersProofs` | `NoContractBroken` | `Spec => []ContractsMet` |
| | `AlwaysInwards` | `Spec => []StackLeadsInwards` |
| | `TypeCorrect` | `Spec => []TypeOK` |
| | `PrintsRight` | `Spec => []PrintsWhatWasGiven` |
| | `ItemTells` | `Spec => []ItemTellsCalls` |
| | `ItemIsPrinted` | `Spec => []PrintsItem` |
| `ConversionsProofs` | `ClassesRight` | `Spec => []ClassTellsStrtod` |
| | `CodePointsWritten` | `Spec => []DecodesBack` |
| | `EscapesRead` | `Spec => []EscapesReadBack` |
| | `ControlsRead` | `Spec => []ControlsReadBack` |
| `DriverProofs` | `TypeCorrect` | `Spec => []TypeOK` |
| | `RightAnswer` | `Spec => []AnswerIsRight` |
| | `OneDocument` | `Spec => []StopsAfterDocument` |
| | `FirstError` | `Spec => []StopsAtError` |
| `PropertiesProofs` | `ObjectIsMap` | `Spec => IsMapUnlessDuplicated` |
| | `NamesDistinct` | `Spec => []NamesOnce` |
| `ItemOutputProofs` | `TypeCorrect` | `Spec => []TypeOK` |
| | `LocatorsRight` | `Spec => []LocatorsFollowItem` |
| | `SeparatorsFit` | `Spec => []UncheckedSeparatorsFit` |
| | `TruthfulVerdict` | `Spec => []TrueOnlyIfDelivered` |
| | `RefinesWriter` | `Spec => IsWriter` |
| `StringOutputProofs` | `TypeCorrect` | `Spec => []TypeOK` |
| | `NoAbort` | `Spec => []NeverAborts` |
| | `HowFar` | `Spec => []LocatorTellsHowFar` |
| | `WritesInOrder` | `Spec => IsWriterUnlessSplit` |

The assumptions are those on the constants: characters of `AllChars`, number
characters of `NumberChars` and code points of Unicode (`Conversions`), handlers of
`Handlers` that may reject, bounds that are natural numbers, strings that are UTF-8
(`UTF8Assumption`), items whose children are nodes (`ItemsAssumption`) and whose texts
are theirs (`TextsAssumption` of `ItemOutput`, below), handed over values that have a
width when printed (`TextsAssumption` of `Handlers`), rooms that are natural numbers,
buffers that are not empty. `GrammarProofs` has handlers that accept and numbers that
fit a double (`AcceptingAssumption`), and any `Shapes`. `EveryCharacterOnce` needs that no document
is a string, and `root_string` shows why; `ActsForDrivers` that no handler rejects, and
`lost_rejection` shows why. TLC evaluates each of them in the runs.

**Control of the parser.** None of the invariants is inductive by itself.
`CompleteExactly` says when `end_` is set, but that a `pop_state()` sets it depends on the
shape of the stack below, that `pop_back()` of an escape must not set it depends on an
escape never standing on `consume_initial_`, and that a handler's late error
(`CallOrLateError`) cannot leave a half-popped stack depends on `make_error` clearing it.
`IInv` is therefore `Control` (the stack is a sequence of consumers, it has the shape,
`begin_`, `end_` and `error_` agree with it, no error without an inerror stack until
`end()`) with the fact that `end()` comes between calls. The proof goes through one lemma
per kind of change of the stack (`Push`, `Become`, `PopBack`, `pop_state`), one per way to
leave a step (`Return`, `make_error`, the calls of handlers), and one per consumer;
`Invariance` puts them together by cases of `Next`. `ErrorFinal` needs that after an error
the stack is the single `consume_inerror_`, which is a conjunct of `IInv`.

**Data of the parser.** `DInv` adds to `IInv` what the members beside the stack hold,
given the consumer on top of it (`TopMatches`): while a number is on top `lastValue_` is a
class of `Numeral`; the low half of `lastCodePoint` is at most what the digits read so far
can make it (`LowBound`: 0, F000, FF00, FFF0), which is why adding a digit never carries;
`inside_key_` tells the text below an escape. `View` says that `first_` is set only
inside a text, within a call whose last character was accepted, and that the view then
ends with the last character read. None of this is part of a property, but
`consume(char)` returns false without a flush, so `NoDanglingView` needs that no view is
open then, and the sum in `ContentAccounted` needs the end of the view. The proof has a
lemma for each consumer again: those outside texts (`Calm`), those of escapes
(`EscapeGoesOn`), and what a character does to the view (`ReadView`, four cases).

**Protocol.** `CallsInOrder` is the refinement: every step of the parser is one of
`SaxProtocol`, or none, on the frames its stack stands for. `DInv` is the invariant: that
an escape in a key calls `key_content` is `inside_key_` telling the text below, and the
one consumer that does not ask it is the exception of the theorem. A stack is split into
what is below and its top (`FramesBelow`, `TopFrame`, `CoveredFrame`); lemmas say what each
stack operation does to the frames, `Told` and `Move` what a step is after no or one
accepted call, and one lemma per consumer joins them.

**The parser as the drivers see it.** `ActsForDrivers` needs that a call is refused only
in a parser in error (`RefusesErrors`, inductive with `IInv`, `CompleteExactly` and
`TypeOK`), that no consumer but the initial one touches `begin_`, and that a document is
never begun and complete with the same character. `Settled` is what a consumer does that
is not the initial one; there is a lemma for each group of them.

**Grammar.** The argument is by derivatives: `Deriv(c, A)` is what may follow c in the
texts of a language A. To every consumer belongs the language of the rests it waits for,
given what it has read (`Awaits`; `NumberTail` of each class of numbers, `UnitTail0` to
`UnitTail4` of the digits of an escape, given the sum so far and whether a second unit
must follow), and to every consumer below the top the language of what follows when the
one above is popped (`Resumes`). `Rests` joins them along the stack, and `Expects` gives
the language that completes the document. The invariant `GInv` is that this language is
`Residual(text)`, the rests that make the text a document; and that a refused text is
none and, until `end()`, begins none. Reading a character must take the language of the
stack to its derivative: one lemma for each consumer, about `Reads`, over lemmas about
derivatives of the operations on languages (`Then`, `Star`, `Only`) and about each rule
of the grammar; where the parser makes an error, the derivative is empty. A complete stack
is one whose language has the empty text, which none that is waited for on a deeper stack
has (`TellsDocuments`); with `CompletesExactly` of `ParserProofs` that is
`AcceptsExactly`. That
`Star` and `Values` satisfy the equations they are written with is a recursion over
texts; it and the inductions over lengths are done with sets and well-founded relations
(`AllNumbers`, `WFMin`), for the provers cannot instantiate the theorems that take an
operator. `JsonTextAccepted` then has two halves. The RFC's arrays, objects and strings
are among those read, for the operations are monotone and the RFC's numbers and strings
are among those read (`DocumentsRead`). A number or a literal name is none of them, for it
begins with another character, and the spaces in front can be taken off both
(`PaddedDisjoint`, `ScalarsRefused`).

**Handlers.** The builder knows where it is only from types of items. `IInv` is `Sound`
(the item is a tree, the pointers are paths in it) and `InStep`: the frames are nested
properly (`Nested`), the pointers form a chain in which each is the last member of the
one before (`Leads`), and each item has the type of its frame (`TypesMatch`). That the
chain leads to last members is what makes growing a vector harmless: the only pointers
invalidated would be to members of the current item, and there are none.

**Conversions.** The constants `Ranges` and `Alphabet` are any code points and number
characters, so the theorems speak of all of Unicode and of texts of every length. A code
point is split into the six bits of each byte (`InTwo`, `InThree`, `InFour`) and a unit
into four digits; what is read is the sum of the same parts. Which leading and second
bytes these parts can be tells the code points that are `Misspelt` from the others. For numbers, `Shape` says of
each class what the text is by positions in it: a class that can go on says which parts
are there, and `bad` is `Broken`, one of four faults that no continuation repairs and each
of which strtod stops at. Each character takes a shape to that of the next class
(`ShapeGoesOn`), and a shape tells whether strtod reads it all (`ShapeTells`).

**Drivers.** `IInv` adds to the types that `good` is the parser's answer and that between
reads all that was taken was fed (`GoodIsParser`), and that `parse_one_document` has
one character in hand (`OneAtATime`). The answers follow from what a source is: that
errors stay, and that a complete document is not followed by an unfinished one, are
inductions over the source. They are done by least elements (`LeastElement`, `UpTo`),
for the provers cannot instantiate the induction theorems of the library.

**Properties.** `IInv` says that names are distinct until `duplicated`. Each operation is
one of three changes of a vector of distinct names (`ItemChanged`, `PairAdded`,
`PairRemoved`), whose effect on what `property()` finds is the action of `PropertyMap`; an
item moved within the object is two of them (`MoveIs`).

**Printing.** What jsonprint prints depends on one bit and on what is on the parser's
stack, the text it should print on the two last calls. `Printed` joins them: outside of
texts the bit is set exactly until a value has ended since the last begin (`BitKnows`),
and what was written is the text of the calls so far (`Buffered`). Each handler then adds
`Follows` of its call; `Put` is a loop over a buffer, and its lemmas say that it adds its
token to the output with the buffer together and never exceeds the buffer. `Closed` (a path of the
item is the root or a member of a node in it) is what `TypeOK` needs besides `IInv`.

**What the item tells.** The calls an item stands for would be computed by recursion over
the item, which the provers cannot follow. They are characterised instead: a node at
path p tells of each of its calls at a place, a path that goes on from p (0 its begin,
1, 2, ... its pieces or members, the length plus one its end, -1 under a member its
name), and `Precedes` orders places as the document does. A call stands in the document
where as many calls as `Rank` says are before it. `Telling` is the invariant: what is
told of so far (`ToldByBuilder`; containers under construction tell of no end) has as
many elements as calls were made, each is the call of its rank, and all are at places
before the one where the next call will be told of. Each handler adds one element, at
that place, and changes no other (`OneMore`); that needs `Leads`, for only last members
are changed and nothing behind them is told of, and `Closed`. So ranks stay, the new
call has the highest, and `InOrder` is the sequence of the calls. At the end nothing is
under construction, and `ItemIsPrinted` follows with `Printed`.

**String output.** Until `split` the locator is `Aligned` with characters: at rest it
stands before one or on the last byte of one that was begun, with the bytes before it
collected; in the loop there are two bytes of room or more while a code point is
incomplete. `NoAbort` follows. For `LocatorTellsHowFar` and the steps of `Writer` the
invariant also has what was written: the text is the concatenation of what each
character stands for, defined by a recursive function of the position, and the output is
the text up to `position` with `sub_position` bytes of the next piece. A turn of the
loop then writes the next bytes, whether the piece fits or not.

**Item output.** `IInv` is the types, `BufferInCalls`, `LocatorsFollowItem`,
`LoopHasRoom` and `StreamFollows`: an object has room at every step of its loop, because
it looks for some after each thing it writes, which is why it may ignore the answers
of its separators. That the bytes are those of the item is a second invariant,
`Written`. Induction over an item is out of reach, so the text of an item is not computed
but characterised: it starts with the first byte of the item, `Following` says which byte
of which node comes after each, and it ends with the last byte of the root (`IsText`; TLC
evaluates `TextsAssumption` with the texts that `MCItemOutput` computes by recursion).
`Written` says that the output is a prefix of the text and that the byte after it is the
one the locators point at: `Due`, by the phase of the innermost function, from the
position it has reached in its item. A function that returns has written the last byte
of its item, which is what its caller, one level out, goes on from. The proof has one
lemma for each action of the loops, about what it writes and what is due then.

Every safety property that a run checks is proved. Only model-checked is liveness under
fairness (`EventuallyDone`, `EventuallyReturns`), out of the prover's reach. That the
operators TLC computes texts with in `MCItemOutput` satisfy `TextsAssumption` is checked
for its items only.

## Not modelled

- `qt_json.h`: the templates over Qt's containers, with a `char_to_tmp` for UTF-16 that
  needs no state. Its drivers have the shape of those in `stl_json.h`.
- `printer.h`, `utf8_printer.h`, `parser.h`, `customizable_parser_policy.h`,
  `item_locator.h`, `object_iterator.h`: included by nothing that is built.
- `static_json.h` with boost's `static_vector`, whose depth of 30 jsonprint's parser
  uses; `contracts.h`, `output_utilities.h` but for `hexchar`: types, macros.
- Of items: `clone`, iterators and `item(index)`. `create_property` with a const name and
  `remove_property` with a char pointer do not compile if they are used, nor does
  `JSON_USE_LONG_INTEGERS`.
- Strings that end inside a character: the code cuts them off without an assertion, and
  `basic_locator::reset()` leaves their bytes in `codepointByte1` to `3` for the next
  string (`output.h`:56).
- The locale that strtod depends on, memory exhaustion, what a handler that throws
  leaves behind, messages and exit codes of the tools.

## Plan

1. *(done)* The parser, its protocol, its conversions, string output.
2. *(done)* Items: output on nested locators, the builder, the traversal of jsonprint, the
   drivers, the properties of objects; that the parser implements its protocol.
3. *(done)* Proofs that `StringOutput` and `ItemOutput` implement `Writer`, that
   jsonprint prints the calls it is given within its buffer, and that the item built
   tells of the calls, without recursion over items.
4. *(done)* Proofs that the conversions agree with their references for every code point
   and for numbers of every length.
5. *(done)* Proofs that the parser accepts exactly the documents of its grammar, which has
   every array, object and string of RFC 8259 and none of its other documents.
6. Items: `clone` and the iterators, if they come to be used.
