----------------------------- MODULE ItemOutput -----------------------------
(***************************************************************************)
(* output::array, object, number, boolean and null with output_visitor and *)
(* output_json (output.h): an item is written into buffers that may end     *)
(* after any byte.  A function that meets the end of its buffer returns    *)
(* false and leaves in its locator where to go on; the locator of an array *)
(* or object owns the one of the member that was interrupted               *)
(* (position_in_subitem), to any depth.                                    *)
(*                                                                         *)
(* An item is a function from paths to nodes; << 2, 1 >> is the first child *)
(* of the second child of the item.  A number, boolean, null or string is a *)
(* leaf of some width in bytes: numbers, booleans and null are copied here, *)
(* strings behave as Writer says (see StringOutput).  A byte written is    *)
(* [of |-> path, what |-> kind of text, part |-> which byte or member].    *)
(***************************************************************************)
EXTENDS Integers, Sequences

CONSTANTS
  Items,  \* the items, by number
  Texts,  \* the text of each item
  Rooms   \* what a call may find left in the buffer

Leaf(width) == [kind |-> "leaf", width |-> width, children |-> 0, keys |-> << >>]
Array(n) == [kind |-> "array", width |-> 0, children |-> n, keys |-> << >>]
\* An object whose names have these widths, their quotes included.
Object(keys) == [kind |-> "object", width |-> 0, children |-> Len(keys), keys |-> keys]

IsNode(n) ==
  \/ n.width \in Nat /\ n.width > 0 /\ n = Leaf(n.width)
  \/ n.children \in Nat /\ n = Array(n.children)
  \/ n.keys \in Seq(Nat) /\ n = Object(n.keys) /\ \A i \in DOMAIN n.keys : n.keys[i] > 0

\* Every child of a node is a node.
IsItem(t) ==
  /\ << >> \in DOMAIN t
  /\ \A p \in DOMAIN t : IsNode(t[p])
  /\ \A p \in DOMAIN t : \A i \in 1 .. t[p].children : Append(p, i) \in DOMAIN t

At(p, what, member, k) == [of |-> p, what |-> what, part |-> << member, k >>]

\* What the text of the node at p begins with and ends with, what that of its i-th member
\* begins with, and what comes after the member.
FirstOf(t, p) == IF t[p].kind = "leaf" THEN At(p, "leaf", 0, 1) ELSE At(p, "begin", 0, 1)
LastOf(t, p) ==
  IF t[p].kind = "leaf" THEN At(p, "leaf", 0, t[p].width) ELSE At(p, "end", 0, 1)
MemberOf(t, p, i) ==
  IF t[p].kind = "object" THEN At(p, "key", i, 1) ELSE FirstOf(t, Append(p, i))
AfterMember(t, p, i) ==
  IF i < t[p].children THEN At(p, "separator", i, 1) ELSE At(p, "end", 0, 1)

\* The byte that comes after b in the text of an item, as ECMA-404 has it.
Following(t, b) ==
  LET p == b.of
      i == b.part[1]
      k == b.part[2]
  IN  CASE b = LastOf(t, p) -> AfterMember(t, SubSeq(p, 1, Len(p) - 1), p[Len(p)])
        [] b.what = "leaf" /\ k < t[p].width -> At(p, "leaf", 0, k + 1)
        [] b.what = "begin" -> IF t[p].children = 0 THEN At(p, "end", 0, 1) ELSE MemberOf(t, p, 1)
        [] b.what = "key" /\ k < t[p].keys[i] -> At(p, "key", i, k + 1)
        [] b.what = "key" /\ k = t[p].keys[i] -> At(p, "colon", i, 1)
        [] b.what = "colon" -> FirstOf(t, Append(p, i))
        [] b.what = "separator" -> MemberOf(t, p, i + 1)

Marks == [of : Seq(Nat), part : Nat \X Nat,
          what : {"leaf", "begin", "separator", "key", "colon", "end"}]

\* s is the text of an item: every byte but the last one is followed by the right one.
IsText(t, s) ==
  /\ s \in Seq(Marks) /\ s # << >> /\ s[1] = FirstOf(t, << >>)
  /\ \A m \in DOMAIN s : s[m] = LastOf(t, << >>) <=> m = Len(s)
  /\ \A m \in 1 .. Len(s) - 1 : s[m + 1] = Following(t, s[m])

ASSUME ItemsAssumption == \A i \in DOMAIN Items : IsItem(Items[i])
ASSUME TextsAssumption == \A i \in DOMAIN Items : IsText(Items[i], Texts[i])
ASSUME RoomsAssumption == Rooms \subseteq Nat

VARIABLES
  item,       \* the number of the item that is written
  locs,       \* the locator, the one it owns, and so on inwards
  depth,      \* how many functions are active, each in the one before
  phase,      \* where the innermost of them is, see Phases
  room,       \* buf.size() - offset, -1 between two calls
  out,        \* what was written into the buffers
  result,     \* what the last call returned: "none", "more" or "done"
  stream,     \* stream.good()
  delivered,  \* what the stream took
  verdict     \* what output_json returned: "none", "true" or "false"

vars == << item, locs, depth, phase, room, out, result, stream, delivered, verdict >>

Loc(position, sub_position) == [position |-> position, sub_position |-> sub_position]

\* A locator as it is constructed.
Fresh == Loc(0, 0)

Init ==
  /\ item \in DOMAIN Items
  /\ locs = << Fresh >>
  /\ depth = 0
  /\ phase = "idle"
  /\ room = -1
  /\ out = << >>
  /\ result = "none"
  /\ stream \in BOOLEAN
  /\ delivered = << >>
  /\ verdict = "none"

\* Between two calls; at the beginning of a function and in its loop; about to
\* return false or true; back in output_json, which writes the buffer.
Phases == {"idle", "called", "loop", "full", "complete", "returned"}

-----------------------------------------------------------------------------
(* The active function and its locator.                                    *)

\* The path of the item that the d-th active function writes.
PathTo(d) == [i \in 1 .. d - 1 |-> locs[i].position]

Tree == Items[item]

Here == PathTo(depth)
Node == Tree[Here]
Current == locs[depth]

Byte(what, part) == << [of |-> Here, what |-> what, part |-> part] >>
Bytes(what, member, first, n) ==
  [k \in 1 .. n |-> [of |-> Here, what |-> what, part |-> << member, first + k >>]]

Least(m, n) == IF m < n THEN m ELSE n

Write(bytes) ==
  /\ out' = out \o bytes
  /\ room' = room - Len(bytes)

WriteNothing == UNCHANGED << out, room >>

\* Mutant of MoveTo: the locator of the interrupted member is kept.
MoveToKeepsMember(position, sub_position) ==
  locs' = [locs EXCEPT ![depth] = Loc(position, sub_position)]

\* The locator of the active function is set and owns none.
MoveTo(position, sub_position) ==
  locs' = Append(SubSeq(locs, 1, depth - 1), Loc(position, sub_position))

\* A check that the buffer is full: the function returns false or goes on.
LeaveIfFull == phase' = IF room' = 0 THEN "full" ELSE "loop"

\* The function returns false as it is.
Interrupted == phase' = "full" /\ UNCHANGED locs

\* What neither a function of output nor its return touches.
Outside == UNCHANGED << item, result, stream, delivered, verdict >>

Inside == Outside /\ UNCHANGED depth

Working(kind, where) == depth > 0 /\ phase = where /\ Node.kind = kind

\* The member the loop has come to.
AtMember(sub_position) ==
  Current.position <= Node.children /\ Current.sub_position = sub_position
AfterMembers == Current.position > Node.children

-----------------------------------------------------------------------------
(* Numbers, booleans, null and strings.                                    *)

\* Mutant of WriteLeaf: a text is not begun in a buffer that cannot take all of it.
WriteLeafWhole ==
  /\ Working("leaf", "called")
  /\ IF room < Node.width
       THEN WriteNothing /\ Interrupted
       ELSE Write(Bytes("leaf", 0, 0, Node.width)) /\ MoveTo(0, 0) /\ phase' = "complete"
  /\ Inside

\* What is left of the text, or what fits.
WriteLeaf ==
  /\ Working("leaf", "called")
  /\ LET from == Current.position
         n == Least(room, Node.width - from)
     IN  /\ Write(Bytes("leaf", 0, from, n))
         /\ \/ from + n = Node.width /\ MoveTo(0, 0) /\ phase' = "complete"
            \/ from + n < Node.width /\ MoveTo(from + n, 0) /\ phase' = "full"
  /\ Inside

-----------------------------------------------------------------------------
(* output::array and output::object.                                       *)

\* array_start or object_start, unless an earlier call wrote it.
Begin ==
  /\ Working("array", "called") \/ Working("object", "called")
  /\ \/ /\ Current.position = 0 /\ room > 0
        /\ Write(Byte("begin", << 0, 1 >>))
        /\ MoveTo(1, 0)
        /\ LeaveIfFull
     \/ Current.position = 0 /\ room = 0 /\ WriteNothing /\ Interrupted
     \/ Current.position > 0 /\ WriteNothing /\ LeaveIfFull /\ UNCHANGED locs
  /\ Inside

\* The visitor is applied to the member, with the locator it was left with or a
\* fresh one.
Descend ==
  /\ \/ Working("array", "loop") /\ AtMember(0)
     \/ Working("object", "loop") /\ AtMember(2)
  /\ depth' = depth + 1
  /\ phase' = "called"
  /\ locs' = IF Len(locs) = depth THEN Append(locs, Fresh) ELSE locs
  /\ WriteNothing
  /\ Outside

\* Mutant of ArrayNext: after a separator the buffer could not take the loop goes on.
ArrayNextLosesSeparator ==
  /\ Working("array", "loop") /\ AtMember(1)
  /\ IF Current.position < Node.children /\ room > 0
       THEN Write(Byte("separator", << Current.position, 1 >>)) ELSE WriteNothing
  /\ MoveTo(Current.position + 1, 0)
  /\ Inside /\ UNCHANGED phase

\* After an element: array_separator, unless it was the last one.
ArrayNext ==
  /\ Working("array", "loop") /\ AtMember(1)
  /\ \/ /\ Current.position < Node.children /\ room > 0
        /\ Write(Byte("separator", << Current.position, 1 >>))
        /\ MoveTo(Current.position + 1, 0)
        /\ UNCHANGED phase
     \/ Current.position < Node.children /\ room = 0 /\ WriteNothing /\ Interrupted
     \/ /\ Current.position = Node.children
        /\ MoveTo(Current.position + 1, 0)
        /\ WriteNothing
        /\ UNCHANGED phase
  /\ Inside

\* The name of a property, by string().
WriteKey ==
  /\ Working("object", "loop") /\ AtMember(0)
  /\ LET member == Current.position
         from == IF Len(locs) > depth THEN locs[depth + 1].position ELSE 0
         n == Least(room, Node.keys[member] - from)
     IN  /\ Write(Bytes("key", member, from, n))
         /\ \/ from + n = Node.keys[member] /\ MoveTo(member, 1) /\ LeaveIfFull
            \/ /\ from + n < Node.keys[member]
               /\ locs' = Append(SubSeq(locs, 1, depth), Loc(from + n, 0))
               /\ phase' = "full"
  /\ Inside

\* A separator whose function's answer is not looked at.
WriteUnchecked(bytes) == IF room > 0 THEN Write(bytes) ELSE WriteNothing

\* object_keyvalueseparator
WriteColon ==
  /\ Working("object", "loop") /\ AtMember(1)
  /\ WriteUnchecked(Byte("colon", << Current.position, 1 >>))
  /\ MoveTo(Current.position, 2)
  /\ LeaveIfFull
  /\ Inside

\* After a property: object_separator, unless it was the last one.
ObjectNext ==
  /\ Working("object", "loop") /\ AtMember(3)
  /\ MoveTo(Current.position + 1, 0)
  /\ \/ /\ Current.position < Node.children
        /\ WriteUnchecked(Byte("separator", << Current.position, 1 >>))
        /\ LeaveIfFull
     \/ Current.position = Node.children /\ WriteNothing /\ UNCHANGED phase
  /\ Inside

\* array_end or object_end
End ==
  /\ Working("array", "loop") \/ Working("object", "loop")
  /\ AfterMembers
  /\ \/ /\ room > 0
        /\ Write(Byte("end", << 0, 1 >>))
        /\ MoveTo(0, 0)
        /\ phase' = "complete"
     \/ room = 0 /\ WriteNothing /\ Interrupted
  /\ Inside

\* Mutant of ReturnTrue: an object does not look at the room left.
ReturnTrueUnchecked ==
  /\ depth > 1 /\ phase = "complete"
  /\ LET parent == Tree[PathTo(depth - 1)].kind
     IN  locs' = Append(SubSeq(locs, 1, depth - 2),
                        Loc(locs[depth - 1].position, IF parent = "array" THEN 1 ELSE 3))
  /\ phase' = "loop"
  /\ depth' = depth - 1
  /\ WriteNothing
  /\ Outside

\* The visitor returns true to the array or object that called it.
ReturnTrue ==
  /\ depth > 1 /\ phase = "complete"
  /\ LET parent == Tree[PathTo(depth - 1)].kind
     IN  /\ locs' = Append(SubSeq(locs, 1, depth - 2),
                           Loc(locs[depth - 1].position, IF parent = "array" THEN 1 ELSE 3))
         /\ phase' = IF parent = "object" /\ room = 0 THEN "full" ELSE "loop"
  /\ depth' = depth - 1
  /\ WriteNothing
  /\ Outside

\* It returns false, and so does the caller, which keeps the locator.
ReturnFalse ==
  /\ depth > 1 /\ phase = "full"
  /\ depth' = depth - 1
  /\ WriteNothing
  /\ Outside /\ UNCHANGED << locs, phase >>

-----------------------------------------------------------------------------
(* output_json, and the tests that call with other buffers.                *)

\* The visitor is applied to the item, with r bytes of room in the buffer.  Only the
\* first call may come without room: the later ones get a new buffer.
Call(r) ==
  /\ phase = "idle" /\ verdict = "none" /\ stream /\ result # "done"
  /\ r = 0 => result = "none"
  /\ phase' = "called"
  /\ depth' = 1
  /\ room' = r
  /\ UNCHANGED << item, locs, out, result, stream, delivered, verdict >>

\* Mutant of Return: offset is not reset for the next call.
ReturnKeepsOffset ==
  /\ depth = 1 /\ phase \in {"full", "complete"}
  /\ result' = IF phase = "full" THEN "more" ELSE "done"
  /\ phase' = "returned"
  /\ depth' = 0
  /\ UNCHANGED << item, locs, room, out, stream, delivered, verdict >>

\* The function called from outside returns; output_json resets offset.
Return ==
  /\ depth = 1 /\ phase \in {"full", "complete"}
  /\ result' = IF phase = "full" THEN "more" ELSE "done"
  /\ phase' = "returned"
  /\ depth' = 0
  /\ room' = -1
  /\ UNCHANGED << item, locs, out, stream, delivered, verdict >>

\* stream.write: the stream may fail.
WriteBuffer ==
  /\ phase = "returned"
  /\ phase' = "idle"
  /\ \/ delivered' = out /\ UNCHANGED stream
     \/ stream' = FALSE /\ UNCHANGED delivered
  /\ UNCHANGED << item, locs, depth, room, out, result, verdict >>

\* Mutant of ReturnVerdict: the state of the stream is not asked at the end.
ReturnVerdictOfItem ==
  /\ phase = "idle" /\ verdict = "none"
  /\ result = "done" \/ ~stream
  /\ verdict' = IF result = "done" THEN "true" ELSE "false"
  /\ UNCHANGED << item, locs, depth, phase, room, out, result, stream, delivered >>

ReturnVerdict ==
  /\ phase = "idle" /\ verdict = "none"
  /\ result = "done" \/ ~stream
  /\ verdict' = IF result = "done" /\ stream THEN "true" ELSE "false"
  /\ UNCHANGED << item, locs, depth, phase, room, out, result, stream, delivered >>

Finished == verdict # "none" /\ UNCHANGED vars

Advance ==
  \/ WriteLeaf \/ Begin \/ Descend
  \/ ArrayNext \/ WriteKey \/ WriteColon \/ ObjectNext \/ End
  \/ ReturnTrue \/ ReturnFalse \/ Return
  \/ WriteBuffer \/ ReturnVerdict

Next == (\E r \in Rooms : Call(r)) \/ Advance \/ Finished

Spec == Init /\ [][Next]_vars

\* A function that was called runs to its return, and output_json calls again, with
\* an empty buffer, until it has its verdict.
FairSpec == Spec /\ WF_vars(\E r \in Rooms \ {0} : Call(r)) /\ WF_vars(Advance)

-----------------------------------------------------------------------------
(* Properties.                                                             *)

\* What sub_position counts in an array and in an object.
SubPositions(kind) == CASE kind = "array" -> {0, 1} [] kind = "object" -> 0 .. 3

\* Every variable keeps its type; outside of a call there is no buffer.
TypeOK ==
  /\ item \in DOMAIN Items
  /\ locs \in Seq([position : Nat, sub_position : 0 .. 3])
  /\ depth \in 0 .. Len(locs) /\ Len(locs) > 0
  /\ phase \in Phases
  /\ room \in Nat \cup {-1}
  /\ room = -1 <=> depth = 0
  /\ phase \in {"idle", "returned"} <=> depth = 0
  /\ result \in {"none", "more", "done"}
  /\ stream \in BOOLEAN
  /\ verdict \in {"none", "true", "false"}

\* The d-th locator belongs to the name of a property.
InName(d) == d > 1 /\ Tree[PathTo(d - 1)].kind = "object" /\ locs[d - 1].sub_position = 0

\* The d-th locator owns the next one: it stands at a member whose value is written
\* or whose name was interrupted, which has no locators in it.
Owns(d) ==
  LET n == Tree[PathTo(d)]
      l == locs[d]
  IN  /\ n.kind # "leaf" /\ l.position \in 1 .. n.children
      /\ \/ n.kind = "array" /\ l.sub_position = 0
         \/ n.kind = "object" /\ l.sub_position = 2
         \/ n.kind = "object" /\ l.sub_position = 0 /\ d = Len(locs) - 1 /\ depth <= d

\* Where a locator may stand in its item.
Within(l, n) ==
  \/ n.kind = "leaf" /\ l.position < n.width /\ l.sub_position = 0
  \/ /\ n.kind # "leaf" /\ l.position <= n.children + 1
     /\ l.sub_position \in SubPositions(n.kind)
     /\ l.sub_position > 0 => l.position \in 1 .. n.children

\* The locators, kept between two calls or in use within one, follow the item inwards:
\* each stands at a member that exists and is being written, so that a resumed call
\* finds it again; none is left over from a member that was finished.  The last one
\* stands inside a name, inside a text or among the members of an item.
LocatorsFollowItem ==
  /\ \A d \in 1 .. Len(locs) - 1 : PathTo(d) \in DOMAIN Tree /\ Owns(d)
  /\ LET d == Len(locs)
         name == Tree[PathTo(d - 1)].keys[locs[d - 1].position]
     IN  IF InName(d) THEN locs[d].position < name /\ locs[d].sub_position = 0
                      ELSE PathTo(d) \in DOMAIN Tree /\ Within(locs[d], Tree[PathTo(d)])

\* object() does not look at the answers of object_keyvalueseparator and
\* object_separator: there is always room when it calls them, in whatever state an
\* earlier call was interrupted.
UncheckedSeparatorsFit ==
  /\ Working("object", "loop") /\ AtMember(1) => room > 0
  /\ Working("object", "loop") /\ AtMember(3) => room > 0

\* output_json returns true only when the stream took the whole text, which was
\* written: false is returned with the buffer full.
TrueOnlyIfDelivered == verdict = "true" => result = "done" /\ delivered = out

W == INSTANCE Writer WITH text <- Texts[item]

\* output_visitor is a Writer: in whatever pieces and to any depth, nothing of the item
\* is written twice, left out or out of order; false means that the buffer is full and
\* true that all is written (the comments of output.h on each function).
IsWriter == W!Spec

\* output_json returns, also through buffers of one byte.
EventuallyReturns == <>(verdict # "none")
=============================================================================
