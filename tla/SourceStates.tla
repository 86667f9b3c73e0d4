---------------------------- MODULE SourceStates ----------------------------
(***************************************************************************)
(* What a source makes of a parser, character by character: all that the   *)
(* loops of Drivers know of ParserBits, and all that ParserBits promises   *)
(* them (ActsAsSource).                                                    *)
(*   begin     nothing but white space      inside  in the document        *)
(*   complete  after the document           error   there is an error      *)
(***************************************************************************)

ParserStates == {"begin", "inside", "complete", "error"}

\* What the next character may make of the parser.
StatesAfter(state) ==
  CASE state = "begin" -> {"begin", "inside", "error"}
    [] state = "inside" -> {"inside", "complete", "error"}
    [] state = "complete" -> {"complete", "error"}
    [] state = "error" -> {"error"}
=============================================================================
