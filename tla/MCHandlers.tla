----------------------------- MODULE MCHandlers -----------------------------
(***************************************************************************)
(* Short documents for Handlers.                                           *)
(***************************************************************************)
EXTENDS Handlers

Widths == [x \in {"true", "1", "a", "b", "null"} |-> IF x \in {"1", "a"} THEN 1 ELSE 2]
=============================================================================
