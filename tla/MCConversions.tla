--------------------------- MODULE MCConversions ---------------------------
(***************************************************************************)
(* Short numbers, and the code points around every boundary, for           *)
(* Conversions.                                                            *)
(***************************************************************************)
EXTENDS Conversions

NumberAlphabet == {"-", "+", "0", "1", ".", "e"}
Boundaries == { << 0, 2100 >>, << 55200, 57400 >>, << 65000, 66700 >>,
                << 1113000, 1114111 >> }
=============================================================================
