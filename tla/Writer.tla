------------------------------- MODULE Writer -------------------------------
(***************************************************************************)
(* What every function of output.h promises to its caller ("If it does not *)
(* fit into buffer, will output what it can, and set the locator           *)
(* accordingly.  @return true if written completely, false otherwise"):    *)
(* called again and again with the room left in a buffer, it writes its    *)
(* text once, in order, returns false only when the buffer is full and     *)
(* true when the text is complete.                                         *)
(***************************************************************************)
EXTENDS Integers, Sequences

CONSTANT Rooms  \* what a call may find left in the buffer

VARIABLES
  text,   \* what is to be written
  out,    \* what was written
  room,   \* what is left in the buffer, -1 between two calls
  result  \* "none" before the first return, then "more" or "done"

vars == << text, out, room, result >>

Init ==
  /\ out = << >>
  /\ room = -1
  /\ result = "none"

Call ==
  /\ room = -1 /\ result # "done"
  /\ room' \in Rooms
  /\ UNCHANGED << text, out, result >>

Write ==
  /\ room > 0
  /\ \E n \in 1 .. room :
       /\ Len(out) + n <= Len(text)
       /\ out' = SubSeq(text, 1, Len(out) + n)
       /\ room' = room - n
  /\ UNCHANGED << text, result >>

ReturnMore ==
  /\ room = 0 /\ Len(out) < Len(text)
  /\ room' = -1
  /\ result' = "more"
  /\ UNCHANGED << text, out >>

ReturnDone ==
  /\ room >= 0 /\ out = text
  /\ room' = -1
  /\ result' = "done"
  /\ UNCHANGED << text, out >>

Next == Call \/ Write \/ ReturnMore \/ ReturnDone

Spec == Init /\ [][Next]_vars
=============================================================================
