------------------------------ MODULE MCParser ------------------------------
(***************************************************************************)
(* Alphabets and sets of rejecting handlers for model checking ParserBits. *)
(***************************************************************************)
EXTENDS ParserBits

\* Arrays, objects, keys, strings, escapes, literals and a number.
StructureChars ==
  {"{", "}", "[", "]", ",", ":", "sp", "ctrl", "x", "1", "n", "u", "l", Quote, Backslash}

\* Every literal to its last letter, texts and a number.
LiteralChars ==
  {"{", "}", "[", "]", ",", ":", "sp", Quote,
   "f", "a", "l", "s", "e", "t", "r", "u", "n", "0"}

\* \u escapes: units below the surrogates, high ones and low ones.
UnicodeArrayChars == {"[", "]", ",", Quote, Backslash, "u", "D", "8", "x"}
UnicodeKeyChars == {"{", "}", ":", Quote, Backslash, "u", "D", "8", "x"}

NumberTextChars == {"[", "]", "{", "}", ":", ",", Quote, "sp", "-", "+", "0", "1", ".", "e"}

RootStringChars == {Quote, Backslash, "n", "x", "sp"}

NoHandler == {}
AllHandlers == Handlers
=============================================================================
