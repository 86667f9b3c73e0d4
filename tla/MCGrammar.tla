----------------------------- MODULE MCGrammar -----------------------------
(***************************************************************************)
(* Constants of the run that checks ParserBits against the grammar.        *)
(***************************************************************************)
EXTENDS Grammar

NoHandler == {}
EveryChar == AllChars

\* Every text of an alphabet up to a length.
Over(first, chars, max) == [i \in 1 .. max |-> IF i = 1 THEN first ELSE chars]

NumberArrays == Over({"["}, {"[", "]", "-", "0", "1", ".", "e"}, 6)
SpacedArrays == Over({"[", "sp"}, {"[", "]", ",", "sp", "1", "0"}, 6)
SmallObjects == Over({"{"}, {"{", "}", Quote, ":", ",", "x", "1"}, 7)
EscapedTexts == Over({Quote}, {Quote, Backslash, "u", "n", "0"}, 8)

\* Pairs of units on the borders of the surrogates, some of them broken.
UnitPairs ==
  << {Quote}, {Backslash}, {"u"}, {"D", "E"}, {"8", "F"}, {"F"}, {"E", "F", "0"},
     {Backslash, Quote}, {"u"}, {"D"}, {"B", "C"}, {"0", "F"}, {"0"}, {Quote} >>

\* The names of the literals, in arrays and mixed up.
MixedNames ==
  << {"["}, {"t", "f", "n"}, {"r", "a", "u"}, {"u", "l"}, {"e", "s", "l"}, {"]", "e", "r"},
     {"]"} >>

\* Numbers and names of literals as the root, with spaces around them.
RootValues ==
  << {"t", "f", "n", "-", "1", "sp"}, {"r", "a", "u", "1", "."}, {"u", "l", "1", "sp"},
     {"e", "l", "s", "sp"}, {"e", "sp"} >>

SomeShapes ==
  {NumberArrays, SpacedArrays, SmallObjects, EscapedTexts, UnitPairs, MixedNames, RootValues}
=============================================================================
