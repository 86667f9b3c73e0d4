---------------------------- MODULE SaxProtocol ----------------------------
(***************************************************************************)
(* What a class of handlers (parser_callbacks) may rely on: the order in   *)
(* which begin_array_handler(), end_key_handler() and the others are       *)
(* called.  frames is what has been begun and not ended, the innermost     *)
(* last:                                                                   *)
(*   root      no document yet           done     the document was given   *)
(*   array     takes values or its end                                     *)
(*   object    takes a key or its end    property a key was given, takes   *)
(*                                                its value                *)
(*   string, key  take their content or their end                          *)
(*   stopped   after an error nothing is called                            *)
(* One character makes the parser call at most two handlers: the content   *)
(* of a text and its end, or a number and the end of what holds it.        *)
(***************************************************************************)
EXTENDS Sequences, SequencesExt, Naturals

CONSTANTS
  MayReject,  \* the handlers that may answer false
  MayBeLost   \* those whose answer may be lost, so that other calls follow

VARIABLES
  frames,
  calls   \* the handlers called by the last step, with their answers

vars == << frames, calls >>

Scalars == {"double", "boolean", "null"}
Begins == [begin_array |-> "array", begin_object |-> "object",
           begin_string |-> "string", begin_key |-> "key"]
Contents == [string_content |-> "string", key_content |-> "key"]
Ends == [end_array |-> "array", end_object |-> "object", end_string |-> "string",
         end_key |-> "key"]

ProtocolHandlers == Scalars \cup DOMAIN Begins \cup DOMAIN Contents \cup DOMAIN Ends

\* The frames that take each call.
Taken(h) ==
  CASE h \in Scalars -> {"array", "property"}
    [] h = "begin_key" -> {"object"}
    [] h \in DOMAIN Begins \ {"begin_key"} -> {"root", "array", "property"}
    [] h \in DOMAIN Contents -> {Contents[h]}
    [] h \in DOMAIN Ends -> {Ends[h]}

\* The innermost frame once it was given a value.
Valued(f) ==
  CASE f = "root" -> "done"
    [] f = "property" -> "object"
    [] OTHER -> f

WithLast(s, f) == [s EXCEPT ![Len(s)] = f]

\* The frames after the call of h.
After(s, h) ==
  CASE h \in Scalars -> WithLast(s, Valued(Last(s)))
    [] h = "begin_key" -> Append(s, "key")
    [] h \in DOMAIN Begins \ {"begin_key"} -> Append(WithLast(s, Valued(Last(s))), Begins[h])
    [] h \in DOMAIN Contents -> s
    [] h = "end_key" -> WithLast(Front(s), "property")
    [] h \in DOMAIN Ends \ {"end_key"} -> Front(s)

Stopped == << "stopped" >>

Init ==
  /\ frames = << "root" >>
  /\ calls = << >>

\* A step without a call; it may find an error in the document.
Silent ==
  /\ frames' \in {frames, Stopped}
  /\ calls' = << >>

\* A call that ends the step: answered false, or with an error after it, it is
\* the last call ever made, unless the answer is lost.
LastCall(before, from, h, ok) ==
  /\ ok \/ h \in MayReject
  /\ calls' = Append(before, [handler |-> h, ok |-> ok])
  /\ \/ frames' = Stopped
     \/ (ok \/ h \in MayBeLost) /\ frames' = After(from, h)

One(h, ok) == Last(frames) \in Taken(h) /\ LastCall(<< >>, frames, h, ok)

Two(g, h, ok) ==
  /\ Last(frames) \in Taken(g)
  /\ Last(After(frames, g)) \in Taken(h)
  /\ LastCall(<< [handler |-> g, ok |-> TRUE] >>, After(frames, g), h, ok)

Next ==
  \/ Silent
  \/ \E h \in ProtocolHandlers, ok \in BOOLEAN : One(h, ok)
  \/ \E g, h \in ProtocolHandlers, ok \in BOOLEAN : Two(g, h, ok)

Spec == Init /\ [][Next]_vars
=============================================================================
