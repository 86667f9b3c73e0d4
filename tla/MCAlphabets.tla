---------------------------- MODULE MCAlphabets -----------------------------
(***************************************************************************)
(* ParserBits on documents of one of several alphabets each, which together *)
(* have every character without multiplying their states.                  *)
(***************************************************************************)
EXTENDS MCParser

VARIABLE alphabet

Alphabets == {StructureChars, LiteralChars, UnicodeArrayChars, UnicodeKeyChars}

AlphabetInit == Init /\ alphabet \in Alphabets

AlphabetNext ==
  /\ \/ \E kind \in {"char", "range"} : StartCall(kind)
     \/ \E c \in alphabet : Read(c)
     \/ Flush \/ ReturnFalse \/ end \/ Done
  /\ UNCHANGED alphabet

AlphabetSpec == AlphabetInit /\ [][AlphabetNext]_<< vars, alphabet >>

AllAlphabets == UNION Alphabets
=============================================================================
