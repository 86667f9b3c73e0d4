-------------------------- MODULE ItemOutputProofs --------------------------
(***************************************************************************)
(* Proofs about ItemOutput, for items of every size and depth and buffers  *)
(* with any room: the locators always lead to where output has to go on,   *)
(* and what is written is the text of the item.                            *)
(***************************************************************************)
EXTENDS ItemOutput, SequenceTheorems, WellFoundedInduction, TLAPS

-----------------------------------------------------------------------------
(* The inductive invariant.                                                *)

Locators == [position : Nat, sub_position : 0 .. 3]

Typed ==
  /\ item \in DOMAIN Items
  /\ locs \in Seq(Locators)
  /\ depth \in 0 .. Len(locs) /\ Len(locs) > 0

BufferInCalls ==
  /\ phase \in Phases
  /\ room \in Nat \cup {-1}
  /\ room = -1 <=> depth = 0
  /\ phase \in {"idle", "returned"} <=> depth = 0

\* In the loop of an array or object the position counts members from 1, and an object
\* has looked for room at each of its steps.
LoopHasRoom ==
  phase = "loop" =>
    /\ Node.kind # "leaf"
    /\ Current.position > 0
    /\ Node.kind = "object" => room > 0

\* After each write of the buffer the stream has all of the text, or has failed.
StreamFollows ==
  /\ result \in {"none", "more", "done"}
  /\ stream \in BOOLEAN
  /\ verdict \in {"none", "true", "false"}
  /\ phase = "idle" /\ stream /\ result # "none" => delivered = out
  /\ verdict # "none" => phase = "idle"
  /\ verdict = "true" => result = "done" /\ stream

IInv ==
  /\ Typed
  /\ BufferInCalls
  /\ LocatorsFollowItem
  /\ LoopHasRoom
  /\ StreamFollows

-----------------------------------------------------------------------------
(* Items.                                                                  *)

LEMMA NodeShape ==
  ASSUME NEW n, IsNode(n)
  PROVE  /\ n.kind \in {"leaf", "array", "object"}
         /\ n.width \in Nat /\ n.children \in Nat
         /\ n.kind = "leaf" => n.width > 0
         /\ n.kind = "object" => /\ n.keys \in Seq(Nat)
                                 /\ Len(n.keys) = n.children
                                 /\ \A i \in 1 .. n.children : n.keys[i] \in Nat /\ n.keys[i] > 0
<1>1. CASE n.width \in Nat /\ n.width > 0 /\ n = Leaf(n.width)
  BY <1>1 DEF Leaf
<1>2. CASE n.children \in Nat /\ n = Array(n.children)
  BY <1>2 DEF Array
<1>3. CASE n.keys \in Seq(Nat) /\ n = Object(n.keys) /\ \A i \in DOMAIN n.keys : n.keys[i] > 0
  <2>1. n.kind = "object" /\ n.width = 0 /\ n.children = Len(n.keys)
    BY <1>3 DEF Object
  <2>2. \A i \in 1 .. Len(n.keys) : n.keys[i] \in Nat /\ n.keys[i] > 0
    BY <1>3
  <2> QED BY <1>3, <2>1, <2>2
<1> QED BY <1>1, <1>2, <1>3 DEF IsNode

LEMMA ItemNodes ==
  ASSUME item \in DOMAIN Items, NEW p \in DOMAIN Tree
  PROVE  IsNode(Tree[p]) /\ \A i \in 1 .. Tree[p].children : Append(p, i) \in DOMAIN Tree
BY ItemsAssumption DEF IsItem, Tree

LEMMA RootIsThere ==
  ASSUME item \in DOMAIN Items
  PROVE  << >> \in DOMAIN Tree
BY ItemsAssumption DEF IsItem, Tree

-----------------------------------------------------------------------------
(* Locators.                                                               *)

LEMMA RootPath == PathTo(1) = << >>
BY DEF PathTo

LEMMA NextPath ==
  ASSUME NEW d \in Nat \ {0}
  PROVE  PathTo(d + 1) = Append(PathTo(d), locs[d].position)
<1>1. PathTo(d) = [i \in 1 .. d - 1 |-> locs[i].position]
  BY DEF PathTo
<1>2. PathTo(d + 1) = [i \in 1 .. d |-> locs[i].position]
  BY DEF PathTo
<1> QED BY <1>1, <1>2

\* A locator that is passed on the way to an active function.
Passed(d) ==
  LET n == Tree[PathTo(d)]
      l == locs[d]
  IN  /\ PathTo(d) \in DOMAIN Tree
      /\ n.kind # "leaf" /\ l.position \in 1 .. n.children
      /\ \/ n.kind = "array" /\ l.sub_position = 0
         \/ n.kind = "object" /\ l.sub_position = 2

\* The innermost locator.
Innermost ==
  LET d == Len(locs)
      name == Tree[PathTo(d - 1)].keys[locs[d - 1].position]
  IN  IF InName(d) THEN locs[d].position < name /\ locs[d].sub_position = 0
                   ELSE PathTo(d) \in DOMAIN Tree /\ Within(locs[d], Tree[PathTo(d)])

LEMMA LocatorsSplit ==
  LocatorsFollowItem <=>
    (\A d \in 1 .. Len(locs) - 1 : PathTo(d) \in DOMAIN Tree /\ Owns(d)) /\ Innermost
BY DEF LocatorsFollowItem, Innermost

LEMMA ActiveArePassed ==
  ASSUME Typed, LocatorsFollowItem, NEW d \in 1 .. depth - 1
  PROVE  Passed(d)
<1>1. d \in 1 .. Len(locs) - 1 /\ ~(depth <= d)
  BY DEF Typed
<1>2. PathTo(d) \in DOMAIN Tree /\ Owns(d)
  BY <1>1, LocatorsSplit
<1> QED BY <1>1, <1>2 DEF Owns, Passed

LEMMA PassedIsNoName ==
  ASSUME NEW d \in Nat \ {0}, Passed(d)
  PROVE  ~InName(d + 1)
<1>1. (d + 1) - 1 = d
  OBVIOUS
<1>2. CASE Tree[PathTo(d)].kind = "array"
  BY <1>1, <1>2 DEF InName
<1>3. CASE locs[d].sub_position = 2
  BY <1>1, <1>3 DEF InName
<1> QED BY <1>2, <1>3 DEF Passed

\* The path of the active function is a path of the item.
LEMMA Active ==
  ASSUME Typed, LocatorsFollowItem, depth > 0
  PROVE  /\ Here \in DOMAIN Tree
         /\ IsNode(Node)
         /\ Current \in Locators
         /\ ~InName(depth)
         /\ depth = Len(locs) => Within(Current, Node)
         /\ depth < Len(locs) => Owns(depth)
<1>1. depth \in 1 .. Len(locs) /\ depth - 1 \in Nat
  BY DEF Typed
<1>2. ~InName(depth)
  <2>1. CASE depth = 1
    BY <2>1 DEF InName
  <2>2. CASE depth # 1
    <3>1. depth - 1 \in 1 .. depth - 1 /\ depth - 1 \in Nat \ {0} /\ (depth - 1) + 1 = depth
      BY <1>1, <2>2
    <3>2. Passed(depth - 1)
      BY <3>1, ActiveArePassed
    <3>3. ~InName((depth - 1) + 1)
      BY <3>1, <3>2, PassedIsNoName
    <3> QED BY <3>1, <3>3
  <2> QED BY <2>1, <2>2
<1>3. CASE depth = Len(locs)
  <2>1. PathTo(depth) \in DOMAIN Tree /\ Within(locs[depth], Tree[PathTo(depth)])
    BY <1>2, <1>3, LocatorsSplit DEF Innermost
  <2>2. IsNode(Tree[PathTo(depth)])
    BY <2>1, ItemNodes DEF Typed
  <2> QED BY <1>1, <1>2, <1>3, <2>1, <2>2 DEF Here, Node, Current, Typed
<1>4. CASE depth < Len(locs)
  <2>1. depth \in 1 .. Len(locs) - 1
    BY <1>1, <1>4 DEF Typed
  <2>2. PathTo(depth) \in DOMAIN Tree /\ Owns(depth)
    BY <2>1, LocatorsSplit
  <2>3. IsNode(Tree[PathTo(depth)])
    BY <2>2, ItemNodes DEF Typed
  <2> QED BY <1>1, <1>2, <1>4, <2>2, <2>3 DEF Here, Node, Current, Typed
<1> QED BY <1>1, <1>2, <1>3, <1>4 DEF Typed

\* A leaf owns no locator.
LEMMA LeafIsInnermost ==
  ASSUME Typed, LocatorsFollowItem, depth > 0, Node.kind = "leaf"
  PROVE  /\ depth = Len(locs) /\ Current.sub_position = 0
         /\ Current.position \in Nat /\ Node.width \in Nat /\ Current.position < Node.width
<1>1. ~Owns(depth)
  BY DEF Owns, Node, Here
<1>2. depth = Len(locs)
  BY <1>1, Active DEF Typed
<1>3. Within(Current, Node) /\ IsNode(Node) /\ Current \in Locators
  BY <1>2, Active
<1>4. Node.width \in Nat
  BY <1>3, NodeShape
<1> QED BY <1>2, <1>3, <1>4 DEF Within, Locators

-----------------------------------------------------------------------------
(* What the actions do to the locators.                                    *)

\* The locators are cut to the d-th one, which is set.
CutAt(d, l) == locs' = Append(SubSeq(locs, 1, d - 1), l)

SameUpTo(d) ==
  /\ Len(locs') = d
  /\ \A i \in 1 .. d - 1 : locs'[i] = locs[i]
  /\ \A i \in 1 .. d : PathTo(i)' = PathTo(i)

LEMMA Cut ==
  ASSUME locs \in Seq(Locators), NEW d \in 1 .. Len(locs), NEW l \in Locators, CutAt(d, l)
  PROVE  locs' \in Seq(Locators) /\ locs'[d] = l /\ SameUpTo(d)
<1> DEFINE s == SubSeq(locs, 1, d - 1)
<1>1. d - 1 \in 0 .. Len(locs) /\ d \in Nat
  OBVIOUS
<1>2. s \in Seq(Locators) /\ Len(s) = d - 1 /\ \A i \in 1 .. d - 1 : s[i] = locs[i]
  BY <1>1
<1>3. locs' = Append(s, l)
  BY DEF CutAt
<1> HIDE DEF s
<1>4. /\ locs' \in Seq(Locators) /\ Len(locs') = d /\ locs'[d] = l
      /\ \A i \in 1 .. d - 1 : locs'[i] = locs[i]
  BY <1>1, <1>2, <1>3
<1>5. ASSUME NEW i \in 1 .. d PROVE PathTo(i)' = PathTo(i)
  <2>1. \A j \in 1 .. i - 1 : locs'[j].position = locs[j].position
    BY <1>1, <1>4
  <2> QED BY <2>1 DEF PathTo
<1> QED BY <1>4, <1>5 DEF SameUpTo

\* What was passed stays so.
LEMMA PassedStays ==
  ASSUME item' = item, NEW d \in Nat, SameUpTo(d), NEW i \in 1 .. d - 1, Passed(i)
  PROVE  Passed(i)'
<1>1. locs'[i] = locs[i] /\ PathTo(i)' = PathTo(i) /\ Tree' = Tree
  BY DEF SameUpTo, Tree
<1> QED BY <1>1 DEF Passed

LEMMA PassedOwns ==
  ASSUME NEW d, Passed(d)
  PROVE  PathTo(d) \in DOMAIN Tree /\ Owns(d)
BY DEF Passed, Owns

\* Cutting the locators to one that stands within its item leaves them in order.
LEMMA Settle ==
  ASSUME Typed, LocatorsFollowItem, item' = item,
         NEW d \in 1 .. depth, NEW l \in Locators, CutAt(d, l), depth' = d,
         Within(l, Tree[PathTo(d)])
  PROVE  Typed' /\ LocatorsFollowItem'
<1>1. d \in 1 .. Len(locs) /\ d \in Nat
  BY DEF Typed
<1>2. locs' \in Seq(Locators) /\ locs'[d] = l /\ SameUpTo(d)
  BY <1>1, Cut DEF Typed
<1>3. Len(locs') = d /\ PathTo(d)' = PathTo(d) /\ Tree' = Tree
  BY <1>1, <1>2 DEF SameUpTo, Tree
<1>4. Typed'
  BY <1>1, <1>2, <1>3 DEF Typed
<1>5. \A i \in 1 .. d - 1 : Passed(i)'
  <2> TAKE i \in 1 .. d - 1
  <2>1. Passed(i)
    BY <1>1, ActiveArePassed DEF Typed
  <2> QED BY <1>1, <1>2, <2>1, PassedStays
<1>6. \A i \in 1 .. Len(locs') - 1 : PathTo(i)' \in DOMAIN Tree' /\ Owns(i)'
  <2> TAKE i \in 1 .. Len(locs') - 1
  <2>1. Passed(i)'
    BY <1>3, <1>5
  <2> QED BY <2>1 DEF Passed, Owns
<1>7. PathTo(d) \in DOMAIN Tree
  <2>1. CASE d = depth
    BY <1>1, <2>1, Active DEF Here
  <2>2. CASE d # depth
    <3>1. d \in 1 .. depth - 1
      BY <2>2 DEF Typed
    <3> QED BY <3>1, ActiveArePassed DEF Passed
  <2> QED BY <2>1, <2>2
<1>8. ~InName(d)'
  <2>1. CASE d = 1
    BY <2>1 DEF InName
  <2>2. CASE d # 1
    <3>1. d - 1 \in 1 .. d - 1 /\ d - 1 \in Nat \ {0}
      BY <1>1, <2>2
    <3>2. Passed(d - 1)'
      BY <1>5, <3>1
    <3> QED BY <3>2 DEF Passed, InName
  <2> QED BY <2>1, <2>2
<1>9. Innermost'
  <2>1. Within(locs'[d], Tree'[PathTo(d)'])
    BY <1>2, <1>3
  <2> QED BY <1>2, <1>3, <1>7, <1>8, <2>1 DEF Innermost, Within, SubPositions
<1> QED BY <1>4, <1>6, <1>9 DEF LocatorsFollowItem, Innermost


-----------------------------------------------------------------------------
(* What the actions have in common.                                        *)

\* A step of a function that is not a call and not the last return.
InsideStep ==
  /\ depth > 0 /\ phase \notin {"idle", "returned"}
  /\ depth' > 0
  /\ phase' \in {"called", "loop", "full", "complete"}
  /\ room' \in Nat
  /\ Outside

LEMMA InsideKeeps ==
  ASSUME BufferInCalls, StreamFollows, InsideStep, depth' \in Int
  PROVE  BufferInCalls' /\ StreamFollows'
<1>1. UNCHANGED << result, stream, delivered, verdict >> /\ verdict = "none" /\ phase' # "idle"
  BY DEF InsideStep, Outside, StreamFollows
<1>2. BufferInCalls'
  BY DEF InsideStep, BufferInCalls, Phases
<1>3. StreamFollows'
  BY <1>1 DEF StreamFollows
<1> QED BY <1>2, <1>3

LEMMA RoomInCall ==
  ASSUME BufferInCalls, depth > 0
  PROVE  room \in Nat /\ phase \notin {"idle", "returned"}
BY DEF BufferInCalls

LEMMA LengthOfBytes ==
  ASSUME NEW what, NEW member, NEW first, NEW n \in Nat
  PROVE  Len(Bytes(what, member, first, n)) = n
BY DEF Bytes

LEMMA LengthOfByte ==
  ASSUME NEW what, NEW part
  PROVE  Len(Byte(what, part)) = 1
BY DEF Byte

LEMMA LeastOfTwo ==
  ASSUME NEW m \in Nat, NEW n \in Nat
  PROVE  Least(m, n) \in Nat /\ Least(m, n) <= m /\ Least(m, n) <= n
BY DEF Least

\* MoveTo in the active function.
LEMMA Moved ==
  ASSUME Typed, LocatorsFollowItem, depth > 0, Inside,
         NEW position \in Nat, NEW sub_position \in 0 .. 3,
         MoveTo(position, sub_position), Within(Loc(position, sub_position), Node)
  PROVE  /\ Typed' /\ LocatorsFollowItem'
         /\ depth' = depth /\ Node' = Node
         /\ Current' = Loc(position, sub_position)
<1> DEFINE l == Loc(position, sub_position)
<1>1. l \in Locators
  BY DEF Loc, Locators
<1>2. depth \in 1 .. depth /\ depth \in 1 .. Len(locs) /\ depth' = depth /\ item' = item
  BY DEF Typed, Inside, Outside
<1>3. CutAt(depth, l)
  BY DEF MoveTo, CutAt
<1>4. Within(l, Tree[PathTo(depth)])
  BY DEF Node, Here
<1> HIDE DEF l
<1>5. Typed' /\ LocatorsFollowItem'
  BY <1>1, <1>2, <1>3, <1>4, Settle
<1>6. locs'[depth] = l /\ SameUpTo(depth)
  BY <1>1, <1>2, <1>3, Cut DEF Typed
<1>7. PathTo(depth)' = PathTo(depth)
  BY <1>2, <1>6 DEF SameUpTo
<1>8. Node' = Node
  BY <1>2, <1>7 DEF Node, Here, Tree, PathTo
<1> QED BY <1>2, <1>5, <1>6, <1>8 DEF Current, l

\* A step that leaves the locators and the active functions alone.
LEMMA Stayed ==
  ASSUME Typed, LocatorsFollowItem, Inside, UNCHANGED locs
  PROVE  /\ Typed' /\ LocatorsFollowItem'
         /\ depth' = depth /\ Node' = Node /\ Current' = Current
<1>1. item' = item /\ depth' = depth /\ locs' = locs
  BY DEF Inside, Outside
<1> QED BY <1>1 DEF Typed, LocatorsFollowItem, Owns, InName, Within, SubPositions, PathTo, Tree,
                    Node, Here, Current

\* A step is put together from what it does to the locators, and in the loop.
LEMMA Together ==
  ASSUME IInv, depth > 0, Typed' /\ LocatorsFollowItem', depth' > 0, Outside, room' \in Nat,
         phase' \in {"called", "loop", "full", "complete"}, LoopHasRoom'
  PROVE  IInv'
<1>1. InsideStep
  BY RoomInCall DEF IInv, InsideStep
<1>2. depth' \in Int
  BY DEF Typed
<1>3. BufferInCalls' /\ StreamFollows'
  BY <1>1, <1>2, InsideKeeps DEF IInv
<1> QED BY <1>3 DEF IInv

-----------------------------------------------------------------------------
(* The actions.                                                            *)

LEMMA StepWriteLeaf ==
  ASSUME IInv, WriteLeaf
  PROVE  IInv'
<1> DEFINE from == Current.position
           n == Least(room, Node.width - from)
<1>1. depth > 0 /\ Node.kind = "leaf" /\ Inside /\ room \in Nat
  BY RoomInCall DEF WriteLeaf, Working, IInv
<1>2. from \in Nat /\ Node.width \in Nat /\ from < Node.width
  BY <1>1, LeafIsInnermost DEF IInv
<1>3. n \in Nat /\ n <= room /\ n <= Node.width - from
  <2>1. Node.width - from \in Nat
    BY <1>2
  <2> QED BY <1>1, <2>1, LeastOfTwo
<1>4. room' = room - n
  <2>1. Write(Bytes("leaf", 0, from, n))
    BY DEF WriteLeaf
  <2> QED BY <1>3, <2>1, LengthOfBytes DEF Write
<1>5. room' \in Nat
  BY <1>1, <1>3, <1>4
<1>6. PICK position \in Nat :
        /\ MoveTo(position, 0)
        /\ position < Node.width
        /\ phase' \in {"complete", "full"}
  <2>1. CASE from + n = Node.width /\ MoveTo(0, 0) /\ phase' = "complete"
    BY <1>2, <2>1
  <2>2. CASE from + n < Node.width /\ MoveTo(from + n, 0) /\ phase' = "full"
    <3>1. from + n \in Nat
      BY <1>2, <1>3
    <3> HIDE DEF n
    <3> QED BY <2>2, <3>1
  <2> QED BY <2>1, <2>2 DEF WriteLeaf
<1>7. Within(Loc(position, 0), Node)
  BY <1>1, <1>6 DEF Within, Loc
<1>8. Typed' /\ LocatorsFollowItem' /\ depth' = depth
  BY <1>1, <1>6, <1>7, Moved DEF IInv
<1>9. LoopHasRoom'
  BY <1>6 DEF LoopHasRoom
<1> QED BY <1>1, <1>5, <1>6, <1>8, <1>9, Together DEF Inside

\* How an action of an array or object ends: in the loop, with room in an object, or full.
LEMMA LoopAfter ==
  ASSUME depth' = depth, Node' = Node, Node.kind # "leaf", room' \in Nat,
         Current'.position > 0,
         phase' = "loop" => Node.kind = "array" \/ room' # 0
  PROVE  LoopHasRoom'
BY DEF LoopHasRoom

LEMMA BranchShape ==
  ASSUME Typed, LocatorsFollowItem, depth > 0, Node.kind # "leaf"
  PROVE  /\ Node.kind \in {"array", "object"} /\ Node.children \in Nat
         /\ Current.position \in Nat /\ Current.position <= Node.children + 1
         /\ Node.kind = "object" =>
              \A i \in 1 .. Node.children : Node.keys[i] \in Nat /\ Node.keys[i] > 0
<1>1. IsNode(Node) /\ Current \in Locators
  BY Active
<1>2. /\ Node.kind \in {"array", "object"} /\ Node.children \in Nat
      /\ Node.kind = "object" =>
           \A i \in 1 .. Node.children : Node.keys[i] \in Nat /\ Node.keys[i] > 0
  BY <1>1, NodeShape
<1>3. Current.position \in Nat
  BY <1>1 DEF Locators
<1>4. CASE depth = Len(locs)
  <2>1. Within(Current, Node)
    BY <1>4, Active
  <2> QED BY <1>2, <1>3, <2>1 DEF Within
<1>5. CASE depth < Len(locs)
  <2>1. Owns(depth)
    BY <1>5, Active
  <2> QED BY <1>2, <1>3, <2>1 DEF Owns, Node, Here, Current
<1> QED BY <1>2, <1>3, <1>4, <1>5 DEF Typed

\* Where MoveTo takes the locator of an array or object.
LEMMA MemberWithin ==
  ASSUME Node.kind \in {"array", "object"}, Node.children \in Nat,
         NEW position \in Nat, NEW sub_position \in 0 .. 3,
         position <= Node.children + 1,
         sub_position > 0 => position \in 1 .. Node.children /\ Node.kind = "object"
  PROVE  Within(Loc(position, sub_position), Node)
BY DEF Within, Loc, SubPositions

\* An action of an array or object that sets its locator.
LEMMA MovedInBranch ==
  ASSUME IInv, depth > 0, Node.kind # "leaf", Inside,
         NEW position \in Nat, NEW sub_position \in 0 .. 3,
         MoveTo(position, sub_position),
         position <= Node.children + 1,
         sub_position > 0 => position \in 1 .. Node.children /\ Node.kind = "object",
         room' \in Nat,
         phase' \in {"loop", "full", "complete"},
         phase' = "loop" => position > 0 /\ (Node.kind = "array" \/ room' # 0)
  PROVE  IInv'
<1>1. Typed /\ LocatorsFollowItem
  BY DEF IInv
<1>2. Node.kind \in {"array", "object"} /\ Node.children \in Nat
  BY <1>1, BranchShape
<1>3. Within(Loc(position, sub_position), Node)
  BY <1>2, MemberWithin
<1>4. /\ Typed' /\ LocatorsFollowItem'
      /\ depth' = depth /\ Node' = Node
      /\ Current' = Loc(position, sub_position)
  BY <1>1, <1>3, Moved
<1>5. LoopHasRoom'
  BY <1>4 DEF LoopHasRoom, Loc
<1> QED BY <1>4, <1>5, Together DEF Inside

\* An action of an array or object that leaves its locator alone.
LEMMA StayedInBranch ==
  ASSUME IInv, depth > 0, Node.kind # "leaf", Inside, UNCHANGED locs,
         room' \in Nat,
         phase' \in {"loop", "full"},
         phase' = "loop" => Current.position > 0 /\ (Node.kind = "array" \/ room' # 0)
  PROVE  IInv'
<1>1. Typed /\ LocatorsFollowItem
  BY DEF IInv
<1>2. Typed' /\ LocatorsFollowItem' /\ depth' = depth /\ Node' = Node /\ Current' = Current
  BY <1>1, Stayed
<1>3. LoopHasRoom'
  BY <1>2 DEF LoopHasRoom
<1> QED BY <1>2, <1>3, Together DEF Inside

LEMMA StepBegin ==
  ASSUME IInv, Begin
  PROVE  IInv'
<1>1. depth > 0 /\ Node.kind # "leaf" /\ Inside /\ room \in Nat
  BY RoomInCall DEF Begin, Working, IInv
<1>2. Node.children \in Nat /\ Current.position \in Nat
  BY <1>1, BranchShape DEF IInv
<1>3. CASE /\ Current.position = 0 /\ room > 0
           /\ Write(Byte("begin", << 0, 1 >>))
           /\ MoveTo(1, 0)
           /\ LeaveIfFull
  <2>1. room' = room - 1
    BY <1>3, LengthOfByte DEF Write
  <2>2. room' \in Nat
    BY <1>1, <1>3, <2>1
  <2>3. phase' \in {"loop", "full"} /\ (phase' = "loop" => room' # 0)
    BY <1>3 DEF LeaveIfFull
  <2>4. 1 <= Node.children + 1
    BY <1>2
  <2> QED BY <1>1, <1>3, <2>2, <2>3, <2>4, MovedInBranch
<1>4. CASE Current.position = 0 /\ room = 0 /\ WriteNothing /\ Interrupted
  BY <1>1, <1>4, StayedInBranch DEF WriteNothing, Interrupted
<1>5. CASE Current.position > 0 /\ WriteNothing /\ LeaveIfFull /\ UNCHANGED locs
  <2>1. room' \in Nat /\ phase' \in {"loop", "full"} /\ (phase' = "loop" => room' # 0)
    BY <1>1, <1>5 DEF WriteNothing, LeaveIfFull
  <2> QED BY <1>1, <1>5, <2>1, StayedInBranch
<1> QED BY <1>3, <1>4, <1>5 DEF Begin

LEMMA StepArrayNext ==
  ASSUME IInv, ArrayNext
  PROVE  IInv'
<1>1. depth > 0 /\ Node.kind = "array" /\ Inside /\ room \in Nat /\ phase = "loop" /\ AtMember(1)
  BY RoomInCall DEF ArrayNext, Working, IInv
<1>2. Node.children \in Nat /\ Current.position \in Nat
  BY <1>1, BranchShape DEF IInv
<1>3. /\ Current.position + 1 \in Nat /\ Current.position + 1 > 0
      /\ Current.position + 1 <= Node.children + 1
  BY <1>1, <1>2 DEF AtMember
<1>4. Current.position > 0
  BY <1>1 DEF IInv, LoopHasRoom
<1>5. CASE /\ Current.position < Node.children /\ room > 0
           /\ Write(Byte("separator", << Current.position, 1 >>))
           /\ MoveTo(Current.position + 1, 0)
           /\ UNCHANGED phase
  <2>1. room' = room - 1
    BY <1>5, LengthOfByte DEF Write
  <2>2. room' \in Nat
    BY <1>1, <1>5, <2>1
  <2> QED BY <1>1, <1>3, <1>5, <2>2, MovedInBranch
<1>6. CASE Current.position < Node.children /\ room = 0 /\ WriteNothing /\ Interrupted
  BY <1>1, <1>6, StayedInBranch DEF WriteNothing, Interrupted
<1>7. CASE /\ Current.position = Node.children
           /\ MoveTo(Current.position + 1, 0)
           /\ WriteNothing
           /\ UNCHANGED phase
  BY <1>1, <1>3, <1>7, MovedInBranch DEF WriteNothing
<1> QED BY <1>5, <1>6, <1>7 DEF ArrayNext

\* In the loop of an object there is room.
LEMMA ObjectLoop ==
  ASSUME IInv, Working("object", "loop")
  PROVE  /\ depth > 0 /\ Node.kind # "leaf" /\ Node.kind = "object" /\ phase = "loop"
         /\ room \in Nat /\ room > 0
         /\ Node.children \in Nat /\ Current.position \in Nat /\ Current.position > 0
<1>1. depth > 0 /\ Node.kind = "object" /\ phase = "loop"
  BY DEF Working
<1>2. room > 0 /\ Current.position > 0
  BY <1>1 DEF IInv, LoopHasRoom
<1> QED BY <1>1, <1>2, RoomInCall, BranchShape DEF IInv

LEMMA StepWriteColon ==
  ASSUME IInv, WriteColon
  PROVE  IInv'
<1>1. Working("object", "loop") /\ AtMember(1) /\ Inside
  BY DEF WriteColon
<1>2. /\ depth > 0 /\ Node.kind # "leaf" /\ Node.kind = "object"
      /\ room \in Nat /\ room > 0
      /\ Node.children \in Nat /\ Current.position \in Nat /\ Current.position > 0
  BY <1>1, ObjectLoop
<1>3. room' = room - 1
  BY <1>2, LengthOfByte DEF WriteColon, WriteUnchecked, Write
<1>4. room' \in Nat
  BY <1>2, <1>3
<1>5. phase' \in {"loop", "full"} /\ (phase' = "loop" => room' # 0)
  BY DEF WriteColon, LeaveIfFull
<1>6. Current.position <= Node.children + 1 /\ Current.position \in 1 .. Node.children
  BY <1>1, <1>2 DEF AtMember
<1>7. MoveTo(Current.position, 2) /\ 2 \in 0 .. 3
  BY DEF WriteColon
<1> QED BY <1>1, <1>2, <1>4, <1>5, <1>6, <1>7, MovedInBranch

LEMMA StepObjectNext ==
  ASSUME IInv, ObjectNext
  PROVE  IInv'
<1>1. Working("object", "loop") /\ AtMember(3) /\ Inside /\ MoveTo(Current.position + 1, 0)
  BY DEF ObjectNext
<1>2. /\ depth > 0 /\ Node.kind # "leaf" /\ Node.kind = "object" /\ phase = "loop"
      /\ room \in Nat /\ room > 0
      /\ Node.children \in Nat /\ Current.position \in Nat /\ Current.position > 0
  BY <1>1, ObjectLoop
<1>3. /\ Current.position + 1 \in Nat /\ Current.position + 1 > 0
      /\ Current.position + 1 <= Node.children + 1
  BY <1>1, <1>2 DEF AtMember
<1>4. room' \in Nat /\ phase' \in {"loop", "full"} /\ (phase' = "loop" => room' # 0)
  <2>1. CASE /\ WriteUnchecked(Byte("separator", << Current.position, 1 >>))
             /\ LeaveIfFull
    <3>1. room' = room - 1
      BY <1>2, <2>1, LengthOfByte DEF WriteUnchecked, Write
    <3>2. room' \in Nat
      BY <1>2, <3>1
    <3> QED BY <2>1, <3>2 DEF LeaveIfFull
  <2>2. CASE WriteNothing /\ UNCHANGED phase
    BY <1>2, <2>2 DEF WriteNothing
  <2> QED BY <2>1, <2>2 DEF ObjectNext
<1> QED BY <1>1, <1>2, <1>3, <1>4, MovedInBranch

LEMMA StepEnd ==
  ASSUME IInv, End
  PROVE  IInv'
<1>1. depth > 0 /\ Node.kind # "leaf" /\ Inside /\ room \in Nat
  BY RoomInCall DEF End, Working, IInv
<1>2. Node.children \in Nat /\ 0 <= Node.children + 1
  BY <1>1, BranchShape DEF IInv
<1>3. CASE /\ room > 0
           /\ Write(Byte("end", << 0, 1 >>))
           /\ MoveTo(0, 0)
           /\ phase' = "complete"
  <2>1. room' = room - 1
    BY <1>3, LengthOfByte DEF Write
  <2>2. room' \in Nat
    BY <1>1, <1>3, <2>1
  <2> QED BY <1>1, <1>2, <1>3, <2>2, MovedInBranch
<1>4. CASE room = 0 /\ WriteNothing /\ Interrupted
  BY <1>1, <1>4, StayedInBranch DEF WriteNothing, Interrupted
<1> QED BY <1>3, <1>4 DEF End


\* The name that WriteKey goes on with.
LEMMA NameGoesOn ==
  ASSUME IInv, Working("object", "loop"), AtMember(0)
  PROVE  LET from == IF Len(locs) > depth THEN locs[depth + 1].position ELSE 0
             width == Node.keys[Current.position]
         IN  from \in Nat /\ width \in Nat /\ from < width
<1> DEFINE from == IF Len(locs) > depth THEN locs[depth + 1].position ELSE 0
           width == Node.keys[Current.position]
<1>1. /\ depth > 0 /\ Node.kind = "object"
      /\ Node.children \in Nat /\ Current.position \in Nat /\ Current.position > 0
  BY ObjectLoop
<1>2. Current.position \in 1 .. Node.children /\ Current.sub_position = 0
  BY <1>1 DEF AtMember
<1>3. width \in Nat /\ width > 0
  BY <1>1, <1>2, BranchShape DEF IInv
<1>4. CASE Len(locs) > depth
  <2>1. depth < Len(locs) /\ Owns(depth)
    BY <1>1, <1>4, Active DEF IInv, Typed
  <2>2. depth = Len(locs) - 1
    BY <1>1, <1>2, <2>1 DEF Owns, Node, Here, Current
  <2>3. Len(locs) = depth + 1 /\ (depth + 1) - 1 = depth /\ depth + 1 > 1
    BY <1>1, <2>2 DEF IInv, Typed
  <2>4. InName(depth + 1)
    BY <1>1, <1>2, <2>3 DEF InName, Node, Here, Current
  <2>5. locs[depth + 1].position < width
    BY <2>3, <2>4, LocatorsSplit DEF IInv, Innermost, Node, Here, Current
  <2>6. locs[depth + 1] \in Locators
    BY <1>1, <2>3 DEF IInv, Typed
  <2> QED BY <1>3, <1>4, <2>5, <2>6 DEF Locators
<1>5. CASE ~(Len(locs) > depth)
  BY <1>3, <1>5
<1> QED BY <1>3, <1>4, <1>5

\* The active function keeps its locator and the next one is set.
LEMMA Extended ==
  ASSUME Typed, depth > 0, NEW l \in Locators, locs' = Append(SubSeq(locs, 1, depth), l)
  PROVE  /\ locs' \in Seq(Locators) /\ Len(locs') = depth + 1 /\ locs'[depth + 1] = l
         /\ \A i \in 1 .. depth : locs'[i] = locs[i]
         /\ \A i \in 1 .. depth + 1 : PathTo(i)' = PathTo(i)
<1> DEFINE s == SubSeq(locs, 1, depth)
<1>1. locs \in Seq(Locators) /\ depth \in 1 .. Len(locs)
  BY DEF Typed
<1>2. s \in Seq(Locators) /\ Len(s) = depth /\ \A i \in 1 .. depth : s[i] = locs[i]
  BY <1>1
<1>3. locs' = Append(s, l)
  OBVIOUS
<1> HIDE DEF s
<1>4. /\ locs' \in Seq(Locators) /\ Len(locs') = depth + 1 /\ locs'[depth + 1] = l
      /\ \A i \in 1 .. depth : locs'[i] = locs[i]
  BY <1>1, <1>2, <1>3
<1>5. ASSUME NEW i \in 1 .. depth + 1 PROVE PathTo(i)' = PathTo(i)
  <2>1. \A j \in 1 .. i - 1 : locs'[j].position = locs[j].position
    BY <1>1, <1>4
  <2> QED BY <2>1 DEF PathTo
<1> QED BY <1>4, <1>5

\* The name is interrupted: the object owns a locator for it.
LEMMA NameInterrupted ==
  ASSUME IInv, Working("object", "loop"), AtMember(0), Inside,
         NEW p \in Nat, p < Node.keys[Current.position],
         locs' = Append(SubSeq(locs, 1, depth), Loc(p, 0))
  PROVE  Typed' /\ LocatorsFollowItem' /\ depth' = depth
<1> DEFINE l == Loc(p, 0)
<1>1. l \in Locators /\ l.position = p /\ l.sub_position = 0
  BY DEF Loc, Locators
<1>2. locs' = Append(SubSeq(locs, 1, depth), l)
  OBVIOUS
<1>3. p < Node.keys[Current.position]
  OBVIOUS
<1> HIDE DEF l
<1>4. Typed /\ LocatorsFollowItem /\ depth \in Nat /\ depth > 0 /\ Node.kind = "object"
  BY ObjectLoop DEF IInv, Typed
<1>5. Current.position \in 1 .. Node.children /\ Current.sub_position = 0
  BY ObjectLoop DEF AtMember
<1>6. item' = item /\ depth' = depth /\ Tree' = Tree
  BY DEF Inside, Outside, Tree
<1>7. /\ locs' \in Seq(Locators) /\ Len(locs') = depth + 1 /\ locs'[depth + 1] = l
      /\ \A i \in 1 .. depth : locs'[i] = locs[i]
      /\ \A i \in 1 .. depth + 1 : PathTo(i)' = PathTo(i)
  BY <1>1, <1>2, <1>4, Extended
<1>8. Typed'
  BY <1>4, <1>6, <1>7 DEF Typed
<1>9. ASSUME NEW i \in 1 .. Len(locs') - 1
      PROVE  PathTo(i)' \in DOMAIN Tree' /\ Owns(i)'
  <2>1. i \in 1 .. depth /\ i \in 1 .. depth + 1
    BY <1>4, <1>7
  <2>2. locs'[i] = locs[i] /\ PathTo(i)' = PathTo(i)
    BY <1>7, <2>1
  <2>3. CASE i = depth
    <3>1. PathTo(i) \in DOMAIN Tree
      BY <1>4, <2>3, Active DEF Here
    <3>2. locs[i].position \in 1 .. Tree[PathTo(i)].children /\ locs[i].sub_position = 0
          /\ Tree[PathTo(i)].kind = "object"
      BY <1>4, <1>5, <2>3 DEF Node, Here, Current
    <3>3. i = Len(locs') - 1 /\ depth' <= i
      BY <1>4, <1>6, <1>7, <2>3
    <3> QED BY <1>6, <2>2, <3>1, <3>2, <3>3 DEF Owns
  <2>4. CASE i # depth
    <3>1. i \in 1 .. depth - 1
      BY <1>4, <2>1, <2>4
    <3>2. Passed(i)
      BY <1>4, <3>1, ActiveArePassed
    <3> QED BY <1>6, <2>2, <3>2 DEF Passed, Owns
  <2> QED BY <2>3, <2>4
<1>10. Innermost'
  <2>1. (depth + 1) - 1 = depth /\ depth + 1 > 1 /\ depth \in 1 .. depth /\ depth \in 1 .. depth + 1
    BY <1>4
  <2>2. locs'[depth] = locs[depth] /\ PathTo(depth)' = PathTo(depth)
    BY <1>6, <1>7, <2>1 DEF PathTo
  <2>3. InName(depth + 1)'
    BY <1>4, <1>5, <1>6, <2>1, <2>2 DEF InName, Node, Here, Current
  <2>4. locs'[depth + 1].position < Tree'[PathTo(depth)'].keys[locs'[depth].position]
    BY <1>1, <1>3, <1>6, <1>7, <2>2 DEF Node, Here, Current
  <2>5. locs'[depth + 1].sub_position = 0
    BY <1>1, <1>7
  <2> QED BY <1>6, <1>7, <2>1, <2>2, <2>3, <2>4, <2>5 DEF Innermost
<1> QED BY <1>6, <1>8, <1>9, <1>10 DEF LocatorsFollowItem, Innermost

LEMMA StepWriteKey ==
  ASSUME IInv, WriteKey
  PROVE  IInv'
<1> DEFINE member == Current.position
           from == IF Len(locs) > depth THEN locs[depth + 1].position ELSE 0
           width == Node.keys[member]
           n == Least(room, width - from)
<1>1. Working("object", "loop") /\ AtMember(0) /\ Inside
  BY DEF WriteKey
<1>2. /\ depth > 0 /\ Node.kind # "leaf" /\ Node.kind = "object"
      /\ room \in Nat /\ room > 0
      /\ Node.children \in Nat /\ member \in Nat /\ member > 0
  BY <1>1, ObjectLoop
<1>3. from \in Nat /\ width \in Nat /\ from < width
  BY <1>1, NameGoesOn
<1>4. /\ Write(Bytes("key", member, from, n))
      /\ \/ from + n = width /\ MoveTo(member, 1) /\ LeaveIfFull
         \/ /\ from + n < width
            /\ locs' = Append(SubSeq(locs, 1, depth), Loc(from + n, 0))
            /\ phase' = "full"
  BY DEF WriteKey
<1> HIDE DEF from, width
<1>5. n \in Nat /\ n <= room /\ n <= width - from
  <2>1. width - from \in Nat
    BY <1>3
  <2> QED BY <1>2, <2>1, LeastOfTwo
<1> HIDE DEF n
<1>6. room' = room - n
  BY <1>4, <1>5, LengthOfBytes DEF Write
<1>7. room' \in Nat
  BY <1>2, <1>5, <1>6
<1>8. CASE from + n = width /\ MoveTo(member, 1) /\ LeaveIfFull
  <2>1. phase' \in {"loop", "full"} /\ (phase' = "loop" => room' # 0)
    BY <1>8 DEF LeaveIfFull
  <2>2. member <= Node.children + 1 /\ member \in 1 .. Node.children
    BY <1>1, <1>2 DEF AtMember
  <2>3. MoveTo(member, 1) /\ 1 \in 0 .. 3
    BY <1>8
  <2> QED BY <1>1, <1>2, <1>7, <2>1, <2>2, <2>3, MovedInBranch
<1>9. CASE /\ from + n < width
           /\ locs' = Append(SubSeq(locs, 1, depth), Loc(from + n, 0))
           /\ phase' = "full"
  <2>1. from + n \in Nat /\ from + n < Node.keys[Current.position]
    BY <1>3, <1>5, <1>9 DEF width
  <2>2. Typed' /\ LocatorsFollowItem' /\ depth' = depth
    BY <1>1, <1>9, <2>1, NameInterrupted
  <2>3. LoopHasRoom'
    BY <1>9 DEF LoopHasRoom
  <2> QED BY <1>1, <1>2, <1>7, <1>9, <2>2, <2>3, Together DEF Inside
<1> QED BY <1>4, <1>8, <1>9

\* A fresh locator stands within whatever it is for.
LEMMA FreshWithin ==
  ASSUME NEW n, IsNode(n)
  PROVE  Within(Fresh, n)
<1>1. /\ n.kind \in {"leaf", "array", "object"} /\ n.children \in Nat /\ n.width \in Nat
      /\ n.kind = "leaf" => n.width > 0
  BY NodeShape
<1>2. Fresh.position = 0 /\ Fresh.sub_position = 0
  BY DEF Fresh, Loc
<1> QED BY <1>1, <1>2 DEF Within, SubPositions

LEMMA StepDescend ==
  ASSUME IInv, Descend
  PROVE  IInv'
<1>1. Typed /\ LocatorsFollowItem /\ depth \in Nat /\ depth > 0 /\ Node.kind # "leaf"
      /\ room \in Nat
  BY RoomInCall DEF Descend, Working, IInv, Typed
<1>2. /\ item' = item /\ Tree' = Tree /\ depth' = depth + 1 /\ phase' = "called"
      /\ room' = room
  BY DEF Descend, Outside, WriteNothing, Tree
<1>3. Passed(depth)
  <2>1. Here \in DOMAIN Tree
    BY <1>1, Active
  <2>2. Current.position > 0 /\ Current.position \in Nat /\ Node.children \in Nat
    BY <1>1, BranchShape DEF Descend, Working, IInv, LoopHasRoom
  <2>3. Current.position \in 1 .. Node.children
    BY <2>2 DEF Descend, AtMember
  <2>4. \/ Node.kind = "array" /\ Current.sub_position = 0
        \/ Node.kind = "object" /\ Current.sub_position = 2
    BY DEF Descend, Working, AtMember
  <2> QED BY <1>1, <2>1, <2>3, <2>4 DEF Passed, Node, Here, Current
<1>4. PathTo(depth + 1) \in DOMAIN Tree /\ IsNode(Tree[PathTo(depth + 1)])
  <2>1. \A i \in 1 .. Tree[PathTo(depth)].children : Append(PathTo(depth), i) \in DOMAIN Tree
    BY <1>1, <1>3, ItemNodes DEF Passed, Typed
  <2>2. PathTo(depth + 1) = Append(PathTo(depth), locs[depth].position)
    BY <1>1, NextPath
  <2>3. PathTo(depth + 1) \in DOMAIN Tree
    BY <1>3, <2>1, <2>2 DEF Passed
  <2> QED BY <1>1, <2>3, ItemNodes DEF Typed
<1>5. CASE Len(locs) = depth
  <2>1. Fresh \in Locators
    BY DEF Fresh, Loc, Locators
  <2>2. locs' = Append(locs, Fresh)
    BY <1>5 DEF Descend
  <2>3. /\ locs' \in Seq(Locators) /\ Len(locs') = depth + 1 /\ locs'[depth + 1] = Fresh
        /\ \A i \in 1 .. depth : locs'[i] = locs[i]
    BY <1>1, <1>5, <2>1, <2>2 DEF Typed
  <2>4. ASSUME NEW i \in 1 .. depth + 1 PROVE PathTo(i)' = PathTo(i)
    <3>1. \A j \in 1 .. i - 1 : locs'[j].position = locs[j].position
      BY <1>1, <2>3
    <3> QED BY <3>1 DEF PathTo
  <2>5. Typed'
    BY <1>1, <1>2, <2>3 DEF Typed
  <2>6. ASSUME NEW i \in 1 .. depth PROVE Passed(i)'
    <3>1. Passed(i)
      BY <1>1, <1>3, ActiveArePassed
    <3>2. locs'[i] = locs[i] /\ PathTo(i)' = PathTo(i)
      BY <1>1, <2>3, <2>4
    <3> QED BY <1>2, <3>1, <3>2 DEF Passed
  <2>7. ASSUME NEW i \in 1 .. Len(locs') - 1 PROVE PathTo(i)' \in DOMAIN Tree' /\ Owns(i)'
    <3>1. Passed(i)'
      BY <1>1, <2>3, <2>6
    <3> QED BY <3>1 DEF Passed, Owns
  <2>8. Innermost'
    <3>1. PICK e \in 1 .. depth : e = depth
      BY <1>1
    <3>2. Passed(e)' /\ e \in Nat /\ e > 0 /\ (e + 1) - 1 = e /\ e + 1 \in 1 .. depth + 1
      BY <1>1, <2>6, <3>1
    <3>3. ~InName(e + 1)'
      BY <3>2 DEF Passed, InName
    <3>4. PathTo(e + 1)' = PathTo(e + 1) /\ Len(locs') = e + 1 /\ locs'[e + 1] = Fresh
      BY <2>3, <2>4, <3>1, <3>2
    <3>5. PathTo(e + 1)' \in DOMAIN Tree' /\ Within(Fresh, Tree'[PathTo(e + 1)'])
      BY <1>2, <1>4, <3>1, <3>4, FreshWithin
    <3>6. Within(locs'[e + 1], Tree'[PathTo(e + 1)'])
      BY <3>4, <3>5
    <3> QED BY <3>3, <3>4, <3>5, <3>6 DEF Innermost, Within, SubPositions
  <2> QED BY <1>1, <1>2, <2>5, <2>7, <2>8, Together
          DEF LocatorsFollowItem, Innermost, LoopHasRoom, Descend
<1>6. CASE Len(locs) # depth
  <2>1. locs' = locs /\ depth + 1 \in 1 .. Len(locs)
    BY <1>1, <1>6 DEF Descend, Typed
  <2>2. Typed'
    BY <1>1, <1>2, <2>1 DEF Typed
  <2>3. ASSUME NEW i \in 1 .. Len(locs') - 1 PROVE PathTo(i)' \in DOMAIN Tree' /\ Owns(i)'
    <3>1. PathTo(i)' = PathTo(i) /\ PathTo(i) \in DOMAIN Tree /\ Owns(i)
      BY <2>1, LocatorsSplit, <1>1 DEF PathTo
    <3>2. CASE i \in 1 .. depth
      <4>1. Passed(i)
        BY <1>1, <1>3, <3>2, ActiveArePassed
      <4> QED BY <1>2, <2>1, <3>1, <4>1 DEF Passed, Owns
    <3>3. CASE i >= depth + 1
      BY <1>2, <2>1, <3>1, <3>3 DEF Owns
    <3> QED BY <1>1, <2>1, <3>2, <3>3 DEF Typed
  <2>4. Innermost'
    <3>1. Innermost
      BY <1>1, LocatorsSplit
    <3> QED BY <1>2, <2>1, <3>1 DEF Innermost, InName, Within, SubPositions, PathTo
  <2> QED BY <1>1, <1>2, <2>2, <2>3, <2>4, Together
          DEF LocatorsFollowItem, Innermost, LoopHasRoom, Descend
<1> QED BY <1>5, <1>6


\* Fewer active functions need less of the locators.
LEMMA FewerActive ==
  ASSUME Typed, LocatorsFollowItem, UNCHANGED << item, locs >>,
         depth' \in 0 .. depth \/ (depth = 0 /\ depth' = 1)
  PROVE  Typed' /\ LocatorsFollowItem'
<1>1. item' = item /\ locs' = locs /\ Tree' = Tree
  BY DEF Tree
<1>2. Typed'
  BY <1>1 DEF Typed
<1>3. ASSUME NEW i \in 1 .. Len(locs') - 1 PROVE PathTo(i)' \in DOMAIN Tree' /\ Owns(i)'
  <2>1. PathTo(i)' = PathTo(i) /\ PathTo(i) \in DOMAIN Tree /\ Owns(i)
    BY <1>1, LocatorsSplit DEF PathTo
  <2>2. depth <= i => depth' <= i
    BY <1>1, <1>2 DEF Typed
  <2> QED BY <1>1, <2>1, <2>2 DEF Owns
<1>4. Innermost'
  <2>1. Innermost
    BY LocatorsSplit
  <2> QED BY <1>1, <2>1 DEF Innermost, InName, Within, SubPositions, PathTo
<1> QED BY <1>2, <1>3, <1>4 DEF LocatorsFollowItem, Innermost

LEMMA StepReturnTrue ==
  ASSUME IInv, ReturnTrue
  PROVE  IInv'
<1>1. Typed /\ LocatorsFollowItem /\ depth \in Nat /\ depth > 1 /\ room \in Nat
  BY RoomInCall DEF ReturnTrue, IInv, Typed
<1>0. PICK d \in 1 .. depth - 1 : d = depth - 1
  BY <1>1
<1> DEFINE parent == Tree[PathTo(d)].kind
           l == Loc(locs[d].position, IF parent = "array" THEN 1 ELSE 3)
<1>2. d \in 1 .. depth - 1 /\ d \in 1 .. depth /\ d \in 1 .. Len(locs) /\ d > 0 /\ d - 1 = depth - 2
  BY <1>0, <1>1 DEF Typed
<1>3. Passed(d)
  BY <1>1, <1>2, ActiveArePassed
<1>4. item' = item /\ Tree' = Tree /\ depth' = d /\ room' = room /\ Outside
  BY <1>0 DEF ReturnTrue, Outside, WriteNothing, Tree
<1>5. CutAt(d, l) /\ phase' = (IF parent = "object" /\ room = 0 THEN "full" ELSE "loop")
  BY <1>0, <1>2 DEF ReturnTrue, CutAt
<1>6. PICK m \in {1, 3} : l = Loc(locs[d].position, m) /\ (parent = "array" => m = 1)
  OBVIOUS
<1>7. IsNode(Tree[PathTo(d)])
  BY <1>1, <1>3, ItemNodes DEF Passed, Typed
<1>8. /\ l.position = locs[d].position /\ l.sub_position = m
      /\ locs[d].position \in Nat /\ locs[d].position > 0
  <2>1. Tree[PathTo(d)].children \in Nat
    BY <1>7, NodeShape
  <2> QED BY <1>3, <1>6, <2>1 DEF Loc, Passed
<1>9. l \in Locators /\ Within(l, Tree[PathTo(d)])
  <2>1. l \in Locators
    BY <1>6, <1>8 DEF Loc, Locators
  <2>2. Tree[PathTo(d)].children \in Nat
    BY <1>7, NodeShape
  <2> QED BY <1>3, <1>6, <1>8, <2>1, <2>2 DEF Within, SubPositions, Passed
<1>10. parent # "leaf"
  BY <1>3 DEF Passed
<1> HIDE DEF l
<1>11. Typed' /\ LocatorsFollowItem'
  BY <1>1, <1>2, <1>4, <1>5, <1>9, Settle
<1>12. locs'[d] = l /\ PathTo(d)' = PathTo(d)
  BY <1>1, <1>2, <1>5, <1>9, Cut DEF Typed, SameUpTo
<1>13. Node' = Tree[PathTo(d)] /\ Current' = l
  BY <1>4, <1>12 DEF Node, Here, Current, PathTo
<1>14. LoopHasRoom'
  BY <1>1, <1>4, <1>5, <1>8, <1>10, <1>13 DEF LoopHasRoom
<1> QED BY <1>1, <1>2, <1>4, <1>5, <1>11, <1>14, Together

LEMMA StepReturnFalse ==
  ASSUME IInv, ReturnFalse
  PROVE  IInv'
<1>1. depth \in Nat /\ depth > 1 /\ room \in Nat
  BY RoomInCall DEF ReturnFalse, IInv, Typed
<1>2. depth' = depth - 1 /\ UNCHANGED << item, locs, phase, room >> /\ phase = "full" /\ Outside
  BY DEF ReturnFalse, WriteNothing, Outside
<1>3. Typed' /\ LocatorsFollowItem'
  <2>1. depth' \in 0 .. depth
    BY <1>1, <1>2
  <2> QED BY <1>2, <2>1, FewerActive DEF IInv
<1> QED BY <1>1, <1>2, <1>3, Together DEF LoopHasRoom

LEMMA StepCall ==
  ASSUME IInv, NEW r \in Rooms, Call(r)
  PROVE  IInv'
<1>1. depth = 0 /\ depth' = 1 /\ r \in Nat
  BY RoomsAssumption DEF Call, IInv, BufferInCalls
<1>2. Typed' /\ LocatorsFollowItem'
  BY <1>1, FewerActive DEF IInv, Call
<1>3. BufferInCalls' /\ LoopHasRoom'
  BY <1>1 DEF Call, BufferInCalls, LoopHasRoom, Phases
<1>4. StreamFollows'
  BY DEF Call, IInv, StreamFollows
<1> QED BY <1>2, <1>3, <1>4 DEF IInv

LEMMA StepReturn ==
  ASSUME IInv, Return
  PROVE  IInv'
<1>1. Typed' /\ LocatorsFollowItem'
  <2>1. depth' \in 0 .. depth
    BY DEF Return
  <2> QED BY <2>1, FewerActive DEF IInv, Return
<1>2. BufferInCalls' /\ LoopHasRoom'
  BY DEF Return, BufferInCalls, LoopHasRoom, Phases
<1>3. StreamFollows'
  BY DEF Return, IInv, StreamFollows
<1> QED BY <1>1, <1>2, <1>3 DEF IInv

\* What is done between two calls.
LEMMA Between ==
  ASSUME IInv, UNCHANGED << item, locs, depth, room, out >>, phase' = "idle",
         phase \in {"idle", "returned"}, StreamFollows'
  PROVE  IInv'
<1>1. Typed' /\ LocatorsFollowItem'
  <2>1. depth' \in 0 .. depth
    BY DEF IInv, Typed
  <2> QED BY <2>1, FewerActive DEF IInv
<1>2. BufferInCalls' /\ LoopHasRoom'
  BY DEF IInv, BufferInCalls, LoopHasRoom, Phases
<1> QED BY <1>1, <1>2 DEF IInv

LEMMA StepWriteBuffer ==
  ASSUME IInv, WriteBuffer
  PROVE  IInv'
<1>1. StreamFollows'
  BY DEF WriteBuffer, IInv, StreamFollows
<1> QED BY <1>1, Between DEF WriteBuffer

LEMMA StepReturnVerdict ==
  ASSUME IInv, ReturnVerdict
  PROVE  IInv'
<1>1. StreamFollows'
  BY DEF ReturnVerdict, IInv, StreamFollows
<1> QED BY <1>1, Between DEF ReturnVerdict

LEMMA StepStutter ==
  ASSUME IInv, UNCHANGED vars
  PROVE  IInv'
<1>1. Typed' /\ LocatorsFollowItem'
  <2>1. depth' \in 0 .. depth
    BY DEF IInv, Typed, vars
  <2> QED BY <2>1, FewerActive DEF IInv, vars
<1>2. BufferInCalls' /\ StreamFollows'
  BY DEF vars, IInv, BufferInCalls, StreamFollows
<1>3. LoopHasRoom'
  BY DEF vars, IInv, LoopHasRoom, Node, Current, Here, PathTo, Tree
<1> QED BY <1>1, <1>2, <1>3 DEF IInv

LEMMA InitIInv ==
  ASSUME Init
  PROVE  IInv
<1>1. Fresh \in Locators
  BY DEF Fresh, Loc, Locators
<1>2. locs = << Fresh >> /\ Len(locs) = 1 /\ locs[1] = Fresh /\ depth = 0
  BY DEF Init
<1>3. Typed
  BY <1>1, <1>2 DEF Init, Typed
<1>4. << >> \in DOMAIN Tree /\ IsNode(Tree[<< >>])
  BY <1>3, RootIsThere, ItemNodes DEF Typed
<1>5. Innermost
  <2>1. ~InName(1)
    BY DEF InName
  <2> QED BY <1>2, <1>4, <2>1, RootPath, FreshWithin DEF Innermost
<1>6. LocatorsFollowItem
  BY <1>2, <1>5, LocatorsSplit
<1>7. BufferInCalls /\ LoopHasRoom /\ StreamFollows
  BY <1>2 DEF Init, BufferInCalls, LoopHasRoom, StreamFollows, Phases
<1> QED BY <1>3, <1>6, <1>7 DEF IInv

LEMMA StepIInv ==
  ASSUME IInv, [Next]_vars
  PROVE  IInv'
<1>1. ASSUME NEW r \in Rooms, Call(r) PROVE IInv'
  BY <1>1, StepCall
<1>2. CASE Advance
  BY <1>2, StepWriteLeaf, StepBegin, StepDescend, StepArrayNext, StepWriteKey, StepWriteColon,
     StepObjectNext, StepEnd, StepReturnTrue, StepReturnFalse, StepReturn, StepWriteBuffer,
     StepReturnVerdict DEF Advance
<1>3. CASE UNCHANGED vars
  BY <1>3, StepStutter
<1> QED BY <1>1, <1>2, <1>3 DEF Next, Finished

-----------------------------------------------------------------------------
(* The theorems.                                                           *)

\* The invariant holds in every state.
THEOREM Inductive == Spec => []IInv
<1>1. Init => IInv
  BY InitIInv
<1>2. IInv /\ [Next]_vars => IInv'
  BY StepIInv
<1> QED BY <1>1, <1>2, PTL DEF Spec

\* Every variable keeps its type, whatever the item and the buffers.
THEOREM TypeCorrect == Spec => []TypeOK
<1>1. IInv => TypeOK
  BY DEF IInv, Typed, BufferInCalls, StreamFollows, TypeOK, Locators
<1> QED BY <1>1, Inductive, PTL

\* The locators of an interrupted item lead to the member that is being written, to
\* every depth.
THEOREM LocatorsRight == Spec => []LocatorsFollowItem
<1>1. IInv => LocatorsFollowItem
  BY DEF IInv
<1> QED BY <1>1, Inductive, PTL

\* The separators whose answer object() ignores always fit, in buffers of any room.
THEOREM SeparatorsFit == Spec => []UncheckedSeparatorsFit
<1>1. IInv => UncheckedSeparatorsFit
  BY DEF IInv, LoopHasRoom, UncheckedSeparatorsFit, Working
<1> QED BY <1>1, Inductive, PTL

\* output_json returns true only for what the stream took.
THEOREM TruthfulVerdict == Spec => []TrueOnlyIfDelivered
<1>1. IInv => TrueOnlyIfDelivered
  BY DEF IInv, StreamFollows, TrueOnlyIfDelivered
<1> QED BY <1>1, Inductive, PTL

-----------------------------------------------------------------------------
(* The text.                                                               *)

\* The path of the d-th locator, and whether it belongs to the name of a property.
Way(ls, d) == [i \in 1 .. d - 1 |-> ls[i].position]
NameAt(t, ls, d) ==
  d > 1 /\ t[Way(ls, d - 1)].kind = "object" /\ ls[d - 1].sub_position = 0

\* The byte that is due where a locator stands in the node at p.
DueAt(t, p, l) ==
  LET last == IF t[p].kind = "array" THEN 1 ELSE 3
  IN  IF t[p].kind = "leaf" THEN At(p, "leaf", 0, l.position + 1)
      ELSE IF l.position = 0 THEN At(p, "begin", 0, 1)
      ELSE IF l.position > t[p].children THEN At(p, "end", 0, 1)
      ELSE IF l.sub_position = last THEN AfterMember(t, p, l.position)
      ELSE IF l.sub_position = 0 THEN MemberOf(t, p, l.position)
      ELSE IF l.sub_position = 1 THEN At(p, "colon", l.position, 1)
      ELSE FirstOf(t, Append(p, l.position))

\* The byte that the locators stand before.
DueOf(t, ls) ==
  LET d == Len(ls)
  IN  IF NameAt(t, ls, d)
        THEN At(Way(ls, d - 1), "key", ls[d - 1].position, ls[d].position + 1)
        ELSE DueAt(t, Way(ls, d), ls[d])

\* A byte is the next one after those written.
Due(t, o, b) ==
  IF o = << >> THEN b = FirstOf(t, << >>)
               ELSE o[Len(o)] # LastOf(t, << >>) /\ b = Following(t, o[Len(o)])

\* The node at p was written to its end.
Ended(t, p, o) == o # << >> /\ o[Len(o)] = LastOf(t, p)

InOrder(s, o) ==
  /\ o \in Seq(Marks) /\ Len(o) <= Len(s)
  /\ \A m \in 1 .. Len(o) : o[m] = s[m]

\* What was written is a beginning of the text, and the locators stand before the rest.
Written ==
  /\ InOrder(Texts[item], out)
  /\ phase = "full" => room = 0
  /\ result = "done" => phase \in {"idle", "returned"} /\ Ended(Tree, << >>, out)
  /\ phase = "complete" => Ended(Tree, Here, out)
  /\ phase # "complete" /\ result # "done" => Due(Tree, out, DueOf(Tree, locs))

LEMMA AtEqual ==
  ASSUME NEW p, NEW w, NEW i, NEW k, NEW q, NEW v, NEW j, NEW m
  PROVE  At(p, w, i, k) = At(q, v, j, m) <=> p = q /\ w = v /\ i = j /\ k = m
BY DEF At

LEMMA AtMark ==
  ASSUME NEW p \in Seq(Nat), NEW i \in Nat, NEW k \in Nat,
         NEW w \in {"leaf", "begin", "separator", "key", "colon", "end"}
  PROVE  At(p, w, i, k) \in Marks
BY DEF At, Marks

\* Only a leaf and the end of an array or object can be the last byte.
LEMMA NotLast ==
  ASSUME NEW t, NEW p, NEW w, NEW i, NEW k, NEW q,
         \/ w \notin {"leaf", "end"}
         \/ w = "leaf" /\ (t[q].kind = "leaf" /\ p = q => k # t[q].width)
         \/ p # q
  PROVE  At(p, w, i, k) # LastOf(t, q)
BY AtEqual DEF LastOf

LEMMA Fields ==
  ASSUME NEW p, NEW w, NEW i, NEW k
  PROVE  /\ At(p, w, i, k).of = p /\ At(p, w, i, k).what = w
         /\ At(p, w, i, k).part[1] = i /\ At(p, w, i, k).part[2] = k
BY DEF At

LEMMA AfterLeaf ==
  ASSUME NEW t, NEW p, NEW k \in Nat, t[p].kind = "leaf", t[p].width \in Nat, k < t[p].width
  PROVE  Following(t, At(p, "leaf", 0, k)) = At(p, "leaf", 0, k + 1)
<1>1. At(p, "leaf", 0, k) # LastOf(t, p)
  BY NotLast
<1> QED BY <1>1, Fields DEF Following

LEMMA AfterBegin ==
  ASSUME NEW t, NEW p
  PROVE  Following(t, At(p, "begin", 0, 1)) =
           IF t[p].children = 0 THEN At(p, "end", 0, 1) ELSE MemberOf(t, p, 1)
<1>1. At(p, "begin", 0, 1) # LastOf(t, p)
  BY NotLast
<1> QED BY <1>1, Fields DEF Following

LEMMA AfterKey ==
  ASSUME NEW t, NEW p, NEW i, NEW k \in Nat, t[p].keys[i] \in Nat, k <= t[p].keys[i]
  PROVE  Following(t, At(p, "key", i, k)) =
           IF k < t[p].keys[i] THEN At(p, "key", i, k + 1) ELSE At(p, "colon", i, 1)
<1>1. At(p, "key", i, k) # LastOf(t, p)
  BY NotLast
<1>2. k < t[p].keys[i] \/ k = t[p].keys[i]
  OBVIOUS
<1>3. ASSUME k < t[p].keys[i] PROVE Following(t, At(p, "key", i, k)) = At(p, "key", i, k + 1)
  BY <1>1, <1>3, Fields DEF Following
<1>4. ASSUME k = t[p].keys[i] PROVE Following(t, At(p, "key", i, k)) = At(p, "colon", i, 1)
  <2> DEFINE b == At(p, "key", i, k)
  <2>1. b.of = p /\ b.what = "key" /\ b.part[1] = i /\ b.part[2] = k /\ b # LastOf(t, p)
    BY <1>1, Fields
  <2> HIDE DEF b
  <2>2. b.part[2] = t[p].keys[b.part[1]] /\ ~(b.part[2] < t[p].keys[b.part[1]])
    BY <1>4, <2>1
  <2>3. Following(t, b) = At(p, "colon", i, 1)
    BY <2>1, <2>2, Zenon DEF Following
  <2> QED BY <2>3 DEF b
<1> QED BY <1>2, <1>3, <1>4

LEMMA AfterColon ==
  ASSUME NEW t, NEW p, NEW i
  PROVE  Following(t, At(p, "colon", i, 1)) = FirstOf(t, Append(p, i))
<1>1. At(p, "colon", i, 1) # LastOf(t, p)
  BY NotLast
<1> QED BY <1>1, Fields DEF Following

LEMMA AfterSeparator ==
  ASSUME NEW t, NEW p, NEW i
  PROVE  Following(t, At(p, "separator", i, 1)) = MemberOf(t, p, i + 1)
<1>1. At(p, "separator", i, 1) # LastOf(t, p)
  BY NotLast
<1> QED BY <1>1, Fields DEF Following

LEMMA AfterNode ==
  ASSUME NEW t, NEW p \in Seq(Nat), NEW i \in Nat,
         t[Append(p, i)].kind = "leaf" => t[Append(p, i)].width \in Nat
  PROVE  /\ Following(t, LastOf(t, Append(p, i))) = AfterMember(t, p, i)
         /\ LastOf(t, Append(p, i)) # LastOf(t, << >>)
<1> DEFINE q == Append(p, i)
<1>1. Len(q) = Len(p) + 1 /\ q[Len(q)] = i /\ Len(p) \in Nat /\ q # << >>
  BY AppendProperties
<1>2. SubSeq(q, 1, Len(q) - 1) = p
  <2>1. q \in Seq(Nat) /\ Len(q) - 1 = Len(p) /\ \A m \in 1 .. Len(p) : q[m] = p[m]
    BY <1>1, AppendProperties
  <2> HIDE DEF q
  <2>2. /\ SubSeq(q, 1, Len(p)) \in Seq(Nat) /\ Len(SubSeq(q, 1, Len(p))) = Len(p)
        /\ \A m \in 1 .. Len(p) : SubSeq(q, 1, Len(p))[m] = q[m]
    BY <1>1, <2>1, SubSeqProperties
  <2>3. SubSeq(q, 1, Len(p)) = p
    BY <2>1, <2>2, SeqEqual
  <2> QED BY <2>1, <2>3
<1>0. t[q].kind = "leaf" => t[q].width \in Nat
  OBVIOUS
<1> HIDE DEF q
<1>3. LastOf(t, q).of = q
  BY Fields DEF LastOf
<1>4. Following(t, LastOf(t, q)) = AfterMember(t, SubSeq(q, 1, Len(q) - 1), q[Len(q)])
  <2>1. CASE t[q].kind = "leaf"
    <3>1. LastOf(t, q) = At(q, "leaf", 0, t[q].width)
      BY <2>1 DEF LastOf
    <3>2. /\ At(q, "leaf", 0, t[q].width).what = "leaf"
          /\ At(q, "leaf", 0, t[q].width).of = q
          /\ At(q, "leaf", 0, t[q].width).part[2] = t[q].width
      BY Fields
    <3>3. ~(t[q].width < t[q].width)
      BY <1>0, <2>1
    <3> QED BY <3>1, <3>2, <3>3 DEF Following
  <2>2. CASE t[q].kind # "leaf"
    <3>1. LastOf(t, q) = At(q, "end", 0, 1)
      BY <2>2 DEF LastOf
    <3>2. At(q, "end", 0, 1).what = "end" /\ At(q, "end", 0, 1).of = q
      BY Fields
    <3> QED BY <3>1, <3>2 DEF Following
  <2> QED BY <2>1, <2>2
<1>5. LastOf(t, q) # LastOf(t, << >>)
  BY <1>1, AtEqual DEF LastOf
<1> QED BY <1>1, <1>2, <1>4, <1>5 DEF q

-----------------------------------------------------------------------------
(* Writing.                                                                *)

\* A set that holds a number and with each number up to a bound the next one holds all
\* of them up to the bound.
LEMMA UpTo ==
  ASSUME NEW a \in Nat, NEW b \in Nat, NEW S, a \in S,
         \A i \in a .. b - 1 : i \in S => i + 1 \in S
  PROVE  \A i \in a .. b : i \in S
<1> DEFINE Less == {p \in Nat \X Nat : p[1] < p[2]}
           T == {k \in a .. b : k \notin S}
<1>1. SUFFICES ASSUME T # {} PROVE FALSE
  OBVIOUS
<1>2. T \subseteq Nat /\ IsWellFoundedOn(Less, Nat)
  BY NatLessThanWellFounded DEF OpToRel
<1>3. PICK m \in T : \A k \in T : << k, m >> \notin Less
  <2> HIDE DEF Less, T
  <2> QED BY <1>1, <1>2, WFMin, Zenon
<1>4. m # a /\ m - 1 \in a .. b - 1 /\ << m - 1, m >> \in Less
  OBVIOUS
<1>5. m - 1 \in S /\ (m - 1) + 1 = m
  BY <1>3, <1>4
<1> QED BY <1>4, <1>5

LEMMA Joined ==
  ASSUME NEW o \in Seq(Marks), NEW bs \in Seq(Marks), Len(bs) > 0
  PROVE  /\ o \o bs \in Seq(Marks) /\ Len(o \o bs) = Len(o) + Len(bs)
         /\ \A m \in 1 .. Len(o) : (o \o bs)[m] = o[m]
         /\ \A m \in 1 .. Len(bs) : (o \o bs)[Len(o) + m] = bs[m]
         /\ o \o bs # << >> /\ (o \o bs)[Len(o \o bs)] = bs[Len(bs)]
<1>1. /\ o \o bs \in Seq(Marks) /\ Len(o \o bs) = Len(o) + Len(bs)
      /\ \A m \in 1 .. Len(o) + Len(bs) : (o \o bs)[m] = IF m <= Len(o) THEN o[m] ELSE bs[m - Len(o)]
      /\ Len(o) \in Nat /\ Len(bs) \in Nat
  BY ConcatProperties
<1>2. ASSUME NEW m \in 1 .. Len(o) PROVE (o \o bs)[m] = o[m]
  <2>1. m \in 1 .. Len(o) + Len(bs) /\ m <= Len(o)
    BY <1>1
  <2> QED BY <1>1, <2>1
<1>3. ASSUME NEW m \in 1 .. Len(bs) PROVE (o \o bs)[Len(o) + m] = bs[m]
  <2>1. /\ Len(o) + m \in 1 .. Len(o) + Len(bs) /\ ~(Len(o) + m <= Len(o))
        /\ (Len(o) + m) - Len(o) = m
    BY <1>1
  <2> QED BY <1>1, <2>1
<1>4. Len(bs) \in 1 .. Len(bs)
  BY <1>1
<1>5. o \o bs # << >>
  <2>1. Len(o \o bs) # 0
    BY <1>1
  <2> QED BY <2>1, EmptySeq
<1> QED BY <1>1, <1>2, <1>3, <1>4, <1>5

\* Bytes of which each is due after the one before continue the text.
LEMMA Continues ==
  ASSUME NEW t, NEW s, IsText(t, s), NEW o, InOrder(s, o),
         NEW bs \in Seq(Marks), Len(bs) > 0, Due(t, o, bs[1]),
         \A k \in 1 .. Len(bs) - 1 : bs[k] # LastOf(t, << >>) /\ bs[k + 1] = Following(t, bs[k])
  PROVE  InOrder(s, o \o bs)
<1> DEFINE n == Len(o)
           S == {k \in 0 .. Len(bs) : n + k <= Len(s) /\ \A m \in 1 .. k : s[n + m] = bs[m]}
<1>1. /\ o \in Seq(Marks) /\ n \in Nat /\ n <= Len(s) /\ \A m \in 1 .. n : o[m] = s[m]
      /\ s \in Seq(Marks) /\ s # << >> /\ Len(s) \in Nat /\ Len(bs) \in Nat
  BY DEF InOrder, IsText
<1>2. Len(s) > 0
  BY <1>1, EmptySeq
<1>3. 0 \in S
  BY <1>1
<1>4. ASSUME NEW k \in 0 .. Len(bs) - 1, k \in S PROVE k + 1 \in S
  <2>1. n + k \in Nat /\ n + k <= Len(s) /\ \A m \in 1 .. k : s[n + m] = bs[m]
    BY <1>1, <1>4
  <2>2. n + k + 1 \in 1 .. Len(s) /\ s[n + k + 1] = bs[k + 1]
    <3>1. CASE o = << >> /\ k = 0
      <4>1. n = 0
        BY <3>1, EmptySeq
      <4>2. bs[1] = s[1]
        BY <3>1 DEF Due, IsText
      <4> QED BY <1>1, <1>2, <3>1, <4>1, <4>2
    <3>2. CASE o # << >> /\ k = 0
      <4>1. n \in 1 .. n /\ n \in DOMAIN s
        BY <1>1, <3>2, EmptySeq
      <4>2. s[n] = o[n]
        BY <1>1, <4>1
      <4>3. s[n] # LastOf(t, << >>) /\ bs[1] = Following(t, s[n])
        BY <3>2, <4>2 DEF Due
      <4>4. n # Len(s)
        BY <4>1, <4>3 DEF IsText
      <4>5. n \in 1 .. Len(s) - 1
        BY <1>1, <4>1, <4>4
      <4>6. s[n + 1] = bs[1]
        BY <4>3, <4>5 DEF IsText
      <4> QED BY <1>1, <3>2, <4>5, <4>6
    <3>3. CASE k > 0
      <4>1. k \in 1 .. k /\ k \in 1 .. Len(bs) - 1 /\ n + k \in DOMAIN s
        BY <1>1, <2>1, <3>3
      <4>2. s[n + k] = bs[k] /\ bs[k] # LastOf(t, << >>) /\ bs[k + 1] = Following(t, bs[k])
        BY <2>1, <4>1
      <4>3. n + k # Len(s)
        BY <4>1, <4>2 DEF IsText
      <4>4. n + k \in 1 .. Len(s) - 1
        BY <1>1, <2>1, <4>1, <4>3
      <4>5. s[(n + k) + 1] = Following(t, s[n + k])
        BY <4>4 DEF IsText
      <4> QED BY <1>1, <4>1, <4>2, <4>4, <4>5
    <3> QED BY <3>1, <3>2, <3>3
  <2>3. k + 1 \in 0 .. Len(bs) /\ n + (k + 1) = n + k + 1 /\ n + (k + 1) <= Len(s)
    BY <1>1, <2>2
  <2>4. ASSUME NEW m \in 1 .. k + 1 PROVE s[n + m] = bs[m]
    <3>1. CASE m \in 1 .. k
      BY <2>1, <3>1
    <3>2. CASE m = k + 1
      BY <2>2, <2>3, <3>2
    <3> QED BY <3>1, <3>2
  <2> QED BY <2>3, <2>4
<1>5. Len(bs) \in S
  <2>1. Len(bs) \in 0 .. Len(bs)
    BY <1>1
  <2> HIDE DEF S
  <2> QED BY <1>1, <1>3, <1>4, <2>1, UpTo
<1>6. n + Len(bs) <= Len(s) /\ \A m \in 1 .. Len(bs) : s[n + m] = bs[m]
  BY <1>5
<1>7. /\ o \o bs \in Seq(Marks) /\ Len(o \o bs) = n + Len(bs)
      /\ \A m \in 1 .. n : (o \o bs)[m] = o[m]
      /\ \A m \in 1 .. Len(bs) : (o \o bs)[n + m] = bs[m]
  BY <1>1, Joined
<1>8. ASSUME NEW m \in 1 .. n + Len(bs) PROVE (o \o bs)[m] = s[m]
  <2>1. CASE m <= n
    <3>1. m \in 1 .. n
      BY <1>1, <2>1
    <3> QED BY <1>1, <1>7, <3>1
  <2>2. CASE m > n
    <3>1. m - n \in 1 .. Len(bs) /\ n + (m - n) = m
      BY <1>1, <2>2
    <3>2. (o \o bs)[n + (m - n)] = bs[m - n] /\ s[n + (m - n)] = bs[m - n]
      BY <1>6, <1>7, <3>1
    <3> QED BY <3>1, <3>2
  <2> QED BY <1>1, <2>1, <2>2
<1> HIDE DEF n
<1> QED BY <1>6, <1>7, <1>8 DEF InOrder

\* All of the text was written if the last byte was, and less if another byte is due.
LEMMA AllOrLess ==
  ASSUME NEW t, NEW s, IsText(t, s), NEW o, InOrder(s, o)
  PROVE  /\ o = SubSeq(s, 1, Len(o))
         /\ Ended(t, << >>, o) => o = s
         /\ \A b : Due(t, o, b) => Len(o) < Len(s)
<1>1. /\ o \in Seq(Marks) /\ Len(o) \in Nat /\ Len(o) <= Len(s)
      /\ \A m \in 1 .. Len(o) : o[m] = s[m]
      /\ s \in Seq(Marks) /\ s # << >> /\ Len(s) \in Nat
  BY DEF InOrder, IsText
<1>2. Len(s) > 0
  BY <1>1, EmptySeq
<1>3. o = SubSeq(s, 1, Len(o))
  <2>1. /\ SubSeq(s, 1, Len(o)) \in Seq(Marks) /\ Len(SubSeq(s, 1, Len(o))) = Len(o)
        /\ \A m \in 1 .. Len(o) : SubSeq(s, 1, Len(o))[m] = s[m]
    BY <1>1, SubSeqProperties
  <2> QED BY <1>1, <2>1, SeqEqual
<1>4. ASSUME Ended(t, << >>, o) PROVE o = s
  <2>1. o # << >> /\ o[Len(o)] = LastOf(t, << >>)
    BY <1>4 DEF Ended
  <2>2. Len(o) \in 1 .. Len(o) /\ Len(o) \in DOMAIN s
    BY <1>1, <2>1, EmptySeq
  <2>3. Len(o) = Len(s)
    BY <1>1, <2>1, <2>2 DEF IsText
  <2> QED BY <1>1, <2>3, SeqEqual
<1>5. ASSUME NEW b, Due(t, o, b) PROVE Len(o) < Len(s)
  <2>1. CASE o = << >>
    BY <1>2, <2>1, EmptySeq
  <2>2. CASE o # << >>
    <3>1. Len(o) \in 1 .. Len(o) /\ Len(o) \in DOMAIN s
      BY <1>1, <2>2, EmptySeq
    <3>2. s[Len(o)] # LastOf(t, << >>)
      BY <1>1, <1>5, <2>2, <3>1 DEF Due
    <3>3. Len(o) # Len(s) /\ Len(s) \in DOMAIN s
      BY <1>1, <3>1, <3>2 DEF IsText
    <3> QED BY <1>1, <3>3
  <2> QED BY <2>1, <2>2
<1> QED BY <1>3, <1>4, <1>5

-----------------------------------------------------------------------------
(* The byte that is due.                                                   *)

\* What a Writer does, or nothing that it shows.
WriterStep == [W!Next]_(W!vars)

LEMMA PathIsSeq ==
  ASSUME Typed, NEW d \in 1 .. Len(locs)
  PROVE  PathTo(d) \in Seq(Nat)
<1>1. ASSUME NEW i \in 1 .. d - 1 PROVE locs[i].position \in Nat
  <2>1. i \in 1 .. Len(locs) /\ locs \in Seq(Locators)
    BY DEF Typed
  <2>2. locs[i] \in Locators
    BY <2>1
  <2> QED BY <2>2 DEF Locators
<1>2. d - 1 \in Nat
  BY DEF Typed
<1> QED BY <1>1, <1>2 DEF PathTo

LEMMA HereIsSeq ==
  ASSUME Typed, depth > 0
  PROVE  Here \in Seq(Nat)
<1>1. depth \in 1 .. Len(locs)
  BY DEF Typed
<1> QED BY <1>1, PathIsSeq DEF Here

\* No locator is owned where none is kept.
LEMMA AtInnermost ==
  ASSUME Typed, LocatorsFollowItem, depth > 0, Node.kind # "leaf",
         \/ Current.position = 0
         \/ Current.position > Node.children
         \/ Node.kind = "array" /\ Current.sub_position # 0
         \/ Node.kind = "object" /\ Current.sub_position \notin {0, 2}
  PROVE  depth = Len(locs)
<1>1. Node.children \in Nat /\ Current.position \in Nat
  BY BranchShape
<1>2. ~Owns(depth)
  BY <1>1 DEF Owns, Node, Here, Current
<1> QED BY <1>2, Active DEF Typed

LEMMA DueHere ==
  ASSUME Typed, LocatorsFollowItem, depth > 0, depth = Len(locs)
  PROVE  DueOf(Tree, locs) = DueAt(Tree, Here, Current)
<1>1. ~InName(depth)
  BY Active
<1>2. ~NameAt(Tree, locs, depth)
  BY <1>1 DEF InName, NameAt, PathTo, Way
<1> QED BY <1>2 DEF DueOf, Here, Current, PathTo, Way

LEMMA DueCut ==
  ASSUME Typed, LocatorsFollowItem, item' = item, depth > 0,
         NEW d \in 1 .. depth, NEW l \in Locators, CutAt(d, l)
  PROVE  DueOf(Tree', locs') = DueAt(Tree, PathTo(d), l) /\ PathTo(d)' = PathTo(d)
<1>1. d \in 1 .. Len(locs) /\ d \in Nat /\ d > 0
  BY DEF Typed
<1>2. locs' \in Seq(Locators) /\ locs'[d] = l /\ SameUpTo(d)
  BY <1>1, Cut DEF Typed
<1>3. Len(locs') = d /\ PathTo(d)' = PathTo(d) /\ Tree' = Tree
  BY <1>1, <1>2 DEF SameUpTo, Tree
<1>4. Way(locs', d) = PathTo(d)
  BY <1>3 DEF PathTo, Way
<1>5. ~NameAt(Tree, locs', d)
  <2>1. CASE d = 1
    BY <2>1 DEF NameAt
  <2>2. CASE d # 1
    <3>1. d - 1 \in 1 .. d - 1 /\ d - 1 \in 1 .. d /\ d - 1 \in 1 .. depth - 1
      BY <1>1, <2>2 DEF Typed
    <3>2. Passed(d - 1)
      BY <3>1, ActiveArePassed
    <3>3. locs'[d - 1] = locs[d - 1] /\ PathTo(d - 1)' = PathTo(d - 1)
      BY <1>2, <3>1 DEF SameUpTo
    <3>4. Way(locs', d - 1) = PathTo(d - 1)
      BY <3>3 DEF PathTo, Way
    <3> QED BY <3>2, <3>3, <3>4 DEF Passed, NameAt
  <2> QED BY <2>1, <2>2
<1> QED BY <1>2, <1>3, <1>4, <1>5 DEF DueOf

LEMMA DueMoved ==
  ASSUME Typed, LocatorsFollowItem, depth > 0, Inside,
         NEW position \in Nat, NEW sub_position \in 0 .. 3, MoveTo(position, sub_position)
  PROVE  /\ DueOf(Tree', locs') = DueAt(Tree, Here, Loc(position, sub_position))
         /\ Tree' = Tree /\ Here' = Here
<1>1. depth \in 1 .. depth /\ Loc(position, sub_position) \in Locators
  BY DEF Typed, Loc, Locators
<1>2. CutAt(depth, Loc(position, sub_position)) /\ item' = item /\ depth' = depth
  BY DEF MoveTo, CutAt, Inside, Outside
<1>3. /\ DueOf(Tree', locs') = DueAt(Tree, PathTo(depth), Loc(position, sub_position))
      /\ PathTo(depth)' = PathTo(depth)
  BY <1>1, <1>2, DueCut
<1> QED BY <1>2, <1>3 DEF Here, Tree, PathTo

\* What is due in an array or object.
LEMMA DueInBranch ==
  ASSUME NEW t, NEW p, t[p].kind \in {"array", "object"}, t[p].children \in Nat,
         NEW i \in Nat, NEW m \in 0 .. 3
  PROVE  /\ i = 0 => DueAt(t, p, Loc(i, m)) = At(p, "begin", 0, 1)
         /\ i > t[p].children /\ i > 0 => DueAt(t, p, Loc(i, m)) = At(p, "end", 0, 1)
         /\ i > 0 /\ i <= t[p].children =>
              /\ m = 0 => DueAt(t, p, Loc(i, m)) = MemberOf(t, p, i)
              /\ m = (IF t[p].kind = "array" THEN 1 ELSE 3) =>
                   DueAt(t, p, Loc(i, m)) = AfterMember(t, p, i)
              /\ t[p].kind = "object" /\ m = 1 =>
                   DueAt(t, p, Loc(i, m)) = At(p, "colon", i, 1)
              /\ t[p].kind = "object" /\ m = 2 =>
                   DueAt(t, p, Loc(i, m)) = FirstOf(t, Append(p, i))
<1>1. Loc(i, m).position = i /\ Loc(i, m).sub_position = m
  BY DEF Loc
<1>2. t[p].kind # "leaf"
  OBVIOUS
<1>3. ASSUME i = 0 PROVE DueAt(t, p, Loc(i, m)) = At(p, "begin", 0, 1)
  BY <1>1, <1>2, <1>3 DEF DueAt
<1>4. ASSUME i > t[p].children, i > 0 PROVE DueAt(t, p, Loc(i, m)) = At(p, "end", 0, 1)
  BY <1>1, <1>2, <1>4 DEF DueAt
<1>5. ASSUME i > 0, i <= t[p].children
      PROVE  DueAt(t, p, Loc(i, m)) =
               IF m = (IF t[p].kind = "array" THEN 1 ELSE 3) THEN AfterMember(t, p, i)
               ELSE IF m = 0 THEN MemberOf(t, p, i)
               ELSE IF m = 1 THEN At(p, "colon", i, 1)
               ELSE FirstOf(t, Append(p, i))
  <2>1. i # 0 /\ ~(i > t[p].children)
    BY <1>5
  <2> QED BY <1>1, <1>2, <2>1 DEF DueAt
<1> QED BY <1>3, <1>4, <1>5

\* A locator is what its two parts say.
LEMMA LocParts ==
  ASSUME NEW l \in Locators
  PROVE  l = Loc(l.position, l.sub_position) /\ l.position \in Nat /\ l.sub_position \in 0 .. 3
BY DEF Locators, Loc

-----------------------------------------------------------------------------
(* The steps of a Writer.                                                  *)

LEMMA TextIsText ==
  ASSUME Typed
  PROVE  IsText(Tree, Texts[item])
BY TextsAssumption DEF Typed, Tree

LEMMA Shows ==
  ASSUME UNCHANGED << item, out, room, result >>
  PROVE  WriterStep
BY DEF WriterStep, W!vars

LEMMA KeepsDue ==
  ASSUME Written, phase # "complete", result # "done",
         UNCHANGED << item, out >>, result' # "done",
         DueOf(Tree', locs') = DueOf(Tree, locs),
         phase' # "complete", phase' = "full" => room' = 0
  PROVE  Written'
<1>1. Tree' = Tree
  BY DEF Tree
<1> QED BY <1>1 DEF Written

LEMMA Writes ==
  ASSUME Typed, Written, phase # "complete", result # "done", Outside, room \in Nat,
         NEW bs \in Seq(Marks), Len(bs) > 0, Len(bs) <= room, Write(bs),
         bs[1] = DueOf(Tree, locs),
         \A k \in 1 .. Len(bs) - 1 :
           bs[k] # LastOf(Tree, << >>) /\ bs[k + 1] = Following(Tree, bs[k])
  PROVE  /\ WriterStep
         /\ InOrder(Texts[item'], out') /\ out' # << >> /\ out'[Len(out')] = bs[Len(bs)]
<1>1. out' = out \o bs /\ room' = room - Len(bs) /\ UNCHANGED << item, result >>
  BY DEF Write, Outside
<1>2. InOrder(Texts[item], out) /\ Due(Tree, out, bs[1])
  BY DEF Written
<1>3. InOrder(Texts[item], out \o bs)
  BY <1>2, TextIsText, Continues
<1>4. out \in Seq(Marks) /\ Len(out \o bs) = Len(out) + Len(bs) /\ out \o bs # << >>
      /\ (out \o bs)[Len(out \o bs)] = bs[Len(bs)]
  BY <1>2, Joined DEF InOrder
<1>5. Len(out \o bs) <= Len(Texts[item]) /\ out \o bs = SubSeq(Texts[item], 1, Len(out \o bs))
  BY <1>3, TextIsText, AllOrLess DEF InOrder
<1>6. W!Write
  <2>1. Len(bs) \in 1 .. room /\ room > 0
    OBVIOUS
  <2>2. Len(out) + Len(bs) <= Len(Texts[item])
        /\ out' = SubSeq(Texts[item], 1, Len(out) + Len(bs))
    BY <1>1, <1>4, <1>5
  <2>3. UNCHANGED << Texts[item], result >>
    BY <1>1
  <2> QED BY <1>1, <2>1, <2>2, <2>3 DEF W!Write
<1> QED BY <1>1, <1>3, <1>4, <1>6 DEF WriterStep, W!Next

\* The last byte written is followed by the one that the locators stand before.
LEMMA GoesOn ==
  ASSUME InOrder(Texts[item'], out'), out' # << >>, NEW b, out'[Len(out')] = b,
         b # LastOf(Tree, << >>), DueOf(Tree', locs') = Following(Tree, b), Tree' = Tree,
         result' # "done", phase' # "complete", phase' = "full" => room' = 0
  PROVE  Written'
BY DEF Written, Due

LEMMA Completes ==
  ASSUME InOrder(Texts[item'], out'), out' # << >>, out'[Len(out')] = LastOf(Tree, Here),
         Tree' = Tree, Here' = Here, result' # "done", phase' = "complete"
  PROVE  Written'
BY DEF Written, Ended

LEMMA OneByte ==
  ASSUME Typed, Written, depth > 0, phase # "complete", result # "done", Outside,
         room \in Nat, room > 0,
         NEW what \in {"begin", "separator", "colon", "end"}, NEW i \in Nat,
         Write(Byte(what, << i, 1 >>)), At(Here, what, i, 1) = DueOf(Tree, locs)
  PROVE  /\ WriterStep
         /\ InOrder(Texts[item'], out') /\ out' # << >>
         /\ out'[Len(out')] = At(Here, what, i, 1)
<1> DEFINE bs == Byte(what, << i, 1 >>)
<1>1. At(Here, what, i, 1) \in Marks
  BY HereIsSeq, AtMark
<1>2. bs = << At(Here, what, i, 1) >>
  BY DEF Byte, At
<1>3. bs \in Seq(Marks) /\ Len(bs) = 1 /\ bs[1] = At(Here, what, i, 1)
  BY <1>1, <1>2
<1>4. Write(bs)
  OBVIOUS
<1> HIDE DEF bs
<1>5. Len(bs) > 0 /\ Len(bs) <= room /\ bs[1] = DueOf(Tree, locs)
      /\ \A k \in 1 .. Len(bs) - 1 :
           bs[k] # LastOf(Tree, << >>) /\ bs[k + 1] = Following(Tree, bs[k])
  BY <1>3
<1> QED BY <1>3, <1>4, <1>5, Writes

LEMMA BytesAre ==
  ASSUME Typed, depth > 0, NEW what \in {"leaf", "key"}, NEW i \in Nat, NEW first \in Nat,
         NEW n \in Nat
  PROVE  /\ Bytes(what, i, first, n) \in Seq(Marks) /\ Len(Bytes(what, i, first, n)) = n
         /\ \A k \in 1 .. n : Bytes(what, i, first, n)[k] = At(Here, what, i, first + k)
<1>1. \A k \in 1 .. n : At(Here, what, i, first + k) \in Marks
  BY HereIsSeq, AtMark
<1>2. Bytes(what, i, first, n) = [k \in 1 .. n |-> At(Here, what, i, first + k)]
  BY DEF Bytes, At
<1> QED BY <1>1, <1>2

-----------------------------------------------------------------------------
(* The actions write the text.                                             *)

\* In a call nothing was returned that ended the text.
LEMMA InCall ==
  ASSUME IInv, Written, depth > 0
  PROVE  /\ Typed /\ LocatorsFollowItem /\ room \in Nat /\ result # "done"
         /\ Here \in Seq(Nat) /\ IsNode(Node) /\ Node = Tree[Here]
         /\ Current \in Locators
         /\ Current = Loc(Current.position, Current.sub_position)
         /\ Current.position \in Nat /\ Current.sub_position \in 0 .. 3
<1>1. Typed /\ LocatorsFollowItem /\ room \in Nat /\ phase \notin {"idle", "returned"}
  BY RoomInCall DEF IInv
<1>2. result # "done"
  BY <1>1 DEF Written
<1>3. Current \in Locators /\ IsNode(Node) /\ Node = Tree[Here]
  BY <1>1, Active DEF Node
<1> QED BY <1>1, <1>2, <1>3, HereIsSeq, LocParts

\* In an array or object, with the locator that is the innermost one.
LEMMA InBranch ==
  ASSUME IInv, Written, depth > 0, Node.kind # "leaf"
  PROVE  /\ Tree[Here].kind \in {"array", "object"} /\ Tree[Here].children \in Nat
         /\ Node = Tree[Here] /\ Current.position <= Node.children + 1
BY InCall, BranchShape

\* A step that writes nothing and moves no locator.
LEMMA WritesNothing ==
  ASSUME Written, phase # "complete", result # "done",
         UNCHANGED << item, locs, out, room, result >>,
         phase' # "complete", phase' = "full" => room = 0
  PROVE  WriterStep /\ Written'
<1>1. DueOf(Tree', locs') = DueOf(Tree, locs)
  BY DEF Tree
<1> QED BY <1>1, KeepsDue, Shows

LEMMA WrittenLeaf ==
  ASSUME IInv, Written, WriteLeaf
  PROVE  WriterStep /\ Written'
<1> DEFINE from == Current.position
           width == Node.width
           n == Least(room, width - from)
           bs == Bytes("leaf", 0, from, n)
<1>1. depth > 0 /\ Node.kind = "leaf" /\ phase = "called" /\ Inside
  BY DEF WriteLeaf, Working
<1>2. /\ Typed /\ LocatorsFollowItem /\ room \in Nat /\ result # "done"
      /\ Here \in Seq(Nat) /\ Tree[Here].kind = "leaf" /\ Tree[Here].width = width
      /\ Current = Loc(from, Current.sub_position)
  BY <1>1, InCall
<1>3. /\ depth = Len(locs) /\ Current.sub_position = 0
      /\ from \in Nat /\ width \in Nat /\ from < width
  BY <1>1, <1>2, LeafIsInnermost
<1>4. ASSUME NEW k \in Nat PROVE DueAt(Tree, Here, Loc(k, 0)) = At(Here, "leaf", 0, k + 1)
  BY <1>2 DEF DueAt, Loc
<1>5. DueOf(Tree, locs) = At(Here, "leaf", 0, from + 1)
  BY <1>1, <1>2, <1>3, <1>4, DueHere
<1>6. /\ Write(bs)
      /\ \/ from + n = width /\ MoveTo(0, 0) /\ phase' = "complete"
         \/ from + n < width /\ MoveTo(from + n, 0) /\ phase' = "full"
  BY DEF WriteLeaf
<1>7. n \in Nat /\ n <= room /\ n <= width - from /\ (n = room \/ n = width - from)
  <2>1. width - from \in Nat
    BY <1>3
  <2> QED BY <1>2, <2>1, LeastOfTwo DEF Least
<1> HIDE DEF n, width, from
<1>8. /\ bs \in Seq(Marks) /\ Len(bs) = n
      /\ \A k \in 1 .. n : bs[k] = At(Here, "leaf", 0, from + k)
  <2>1. /\ Typed /\ depth > 0 /\ n \in Nat /\ from \in Nat
        /\ 0 \in Nat /\ "leaf" \in {"leaf", "key"}
    BY <1>1, <1>2, <1>3, <1>7
  <2> QED BY <2>1, BytesAre, Zenon
<1> HIDE DEF bs
<1>9. result' = result /\ item' = item /\ Outside
  BY <1>1 DEF Inside, Outside
<1>10. CASE n = 0
  <2>1. from + n < width /\ MoveTo(from + n, 0) /\ phase' = "full" /\ from + n = from
    BY <1>3, <1>6, <1>7, <1>10
  <2>2. MoveTo(from, 0) /\ 0 \in 0 .. 3
    BY <2>1
  <2>3. DueOf(Tree', locs') = DueAt(Tree, Here, Loc(from, 0))
    BY <1>1, <1>2, <1>3, <2>2, DueMoved
  <2>4. room' = room /\ room = 0
    BY <1>2, <1>3, <1>6, <1>7, <1>8, <1>10 DEF Write
  <2>5. out' = out
    <3>1. bs = << >>
      BY <1>8, <1>10, EmptySeq
    <3>2. out \in Seq(Marks)
      BY DEF Written, InOrder
    <3> QED BY <1>6, <3>1, <3>2, ConcatEmptySeq DEF Write
  <2>6. DueOf(Tree', locs') = DueOf(Tree, locs)
    BY <1>3, <1>4, <1>5, <2>3
  <2>7. phase # "complete" /\ phase' # "complete"
    BY <1>1, <2>1
  <2> QED BY <1>2, <1>9, <2>4, <2>5, <2>6, <2>7, KeepsDue, Shows
<1>11. CASE n # 0
  <2>1. Len(bs) > 0 /\ Len(bs) <= room /\ n \in 1 .. n /\ 1 \in 1 .. n
    BY <1>7, <1>8, <1>11
  <2>2. bs[1] = DueOf(Tree, locs)
    BY <1>5, <1>8, <2>1
  <2>3. ASSUME NEW k \in 1 .. Len(bs) - 1
        PROVE  bs[k] # LastOf(Tree, << >>) /\ bs[k + 1] = Following(Tree, bs[k])
    <3>1. /\ k \in 1 .. n /\ k + 1 \in 1 .. n /\ from + k \in Nat /\ from + k < width
          /\ from + k # width /\ (from + k) + 1 = from + (k + 1)
      BY <1>3, <1>7, <1>8
    <3>2. bs[k] = At(Here, "leaf", 0, from + k) /\ bs[k + 1] = At(Here, "leaf", 0, from + (k + 1))
      BY <1>8, <3>1
    <3>3. Following(Tree, At(Here, "leaf", 0, from + k)) = At(Here, "leaf", 0, (from + k) + 1)
      BY <1>2, <1>3, <3>1, AfterLeaf
    <3>4. At(Here, "leaf", 0, from + k) # LastOf(Tree, << >>)
      BY <1>2, <3>1, NotLast
    <3> QED BY <3>1, <3>2, <3>3, <3>4
  <2>4. /\ WriterStep
        /\ InOrder(Texts[item'], out') /\ out' # << >> /\ out'[Len(out')] = bs[Len(bs)]
    BY <1>1, <1>2, <1>6, <1>8, <1>9, <2>1, <2>2, <2>3, Writes
  <2>5. bs[Len(bs)] = At(Here, "leaf", 0, from + n)
    BY <1>8, <2>1
  <2>6. CASE from + n = width /\ MoveTo(0, 0) /\ phase' = "complete"
    <3>1. out'[Len(out')] = LastOf(Tree, Here)
      BY <1>2, <2>4, <2>5, <2>6 DEF LastOf
    <3>2. Tree' = Tree /\ Here' = Here
      BY <1>1, <1>2, <2>6, DueMoved
    <3> QED BY <1>2, <1>9, <2>4, <2>6, <3>1, <3>2, Completes
  <2>7. CASE from + n < width /\ MoveTo(from + n, 0) /\ phase' = "full"
    <3>1. from + n \in Nat /\ from + n # width /\ n = room
      BY <1>2, <1>3, <1>7, <2>7
    <3>2. DueOf(Tree', locs') = At(Here, "leaf", 0, (from + n) + 1) /\ Tree' = Tree
      BY <1>1, <1>2, <1>4, <2>7, <3>1, DueMoved
    <3>3. Following(Tree, At(Here, "leaf", 0, from + n)) = At(Here, "leaf", 0, (from + n) + 1)
      BY <1>2, <1>3, <2>7, <3>1, AfterLeaf
    <3>4. At(Here, "leaf", 0, from + n) # LastOf(Tree, << >>)
      BY <1>2, <3>1, NotLast
    <3>5. room' = 0
      BY <1>2, <1>6, <1>8, <3>1 DEF Write
    <3>6. result' # "done" /\ phase' # "complete"
      BY <1>2, <1>9, <2>7
    <3> QED BY <2>4, <2>5, <3>2, <3>3, <3>4, <3>5, <3>6, GoesOn
  <2> QED BY <1>6, <2>4, <2>6, <2>7
<1> QED BY <1>10, <1>11

\* The byte that follows in an array or object, and the locator that stands before it.
LEMMA BranchGoesOn ==
  ASSUME IInv, Written, depth > 0, Node.kind # "leaf", phase \in {"called", "loop"}, Inside,
         depth = Len(locs), room > 0,
         NEW what \in {"begin", "separator", "colon"}, NEW i \in Nat,
         Write(Byte(what, << i, 1 >>)), At(Here, what, i, 1) = DueAt(Tree, Here, Current),
         NEW position \in Nat, NEW sub_position \in 0 .. 3, MoveTo(position, sub_position),
         Following(Tree, At(Here, what, i, 1)) =
           DueAt(Tree, Here, Loc(position, sub_position)),
         phase' \in {"loop", "full"}, phase' = "full" => room' = 0
  PROVE  WriterStep /\ Written'
<1>1. Typed /\ LocatorsFollowItem /\ room \in Nat /\ result # "done" /\ Outside /\ result' = result
  BY InCall DEF Inside, Outside
<1>2. DueOf(Tree, locs) = At(Here, what, i, 1)
  BY <1>1, DueHere
<1>3. phase # "complete" /\ phase' # "complete"
  OBVIOUS
<1>4. /\ WriterStep
      /\ InOrder(Texts[item'], out') /\ out' # << >>
      /\ out'[Len(out')] = At(Here, what, i, 1)
  BY <1>1, <1>2, <1>3, OneByte
<1>5. DueOf(Tree', locs') = Following(Tree, At(Here, what, i, 1)) /\ Tree' = Tree
  BY <1>1, DueMoved
<1>6. At(Here, what, i, 1) # LastOf(Tree, << >>)
  BY NotLast
<1> QED BY <1>1, <1>3, <1>4, <1>5, <1>6, GoesOn

\* A locator that moves without a byte stands before the same one.
LEMMA BranchMoves ==
  ASSUME IInv, Written, depth > 0, phase \in {"called", "loop"}, Inside,
         depth = Len(locs), WriteNothing,
         NEW position \in Nat, NEW sub_position \in 0 .. 3, MoveTo(position, sub_position),
         DueAt(Tree, Here, Current) = DueAt(Tree, Here, Loc(position, sub_position)),
         phase' = "loop"
  PROVE  WriterStep /\ Written'
<1>1. Typed /\ LocatorsFollowItem /\ result # "done"
  BY InCall
<1>2. UNCHANGED << item, out, room, result >>
  BY DEF WriteNothing, Inside, Outside
<1>3. DueOf(Tree', locs') = DueOf(Tree, locs)
  BY <1>1, DueHere, DueMoved
<1> QED BY <1>1, <1>2, <1>3, KeepsDue, Shows

LEMMA WrittenBegin ==
  ASSUME IInv, Written, Begin
  PROVE  WriterStep /\ Written'
<1>1. /\ depth > 0 /\ Node.kind # "leaf" /\ phase = "called" /\ Inside
      /\ phase \in {"called", "loop"}
  BY DEF Begin, Working
<1>2. /\ Tree[Here].kind \in {"array", "object"} /\ Tree[Here].children \in Nat
      /\ Typed /\ LocatorsFollowItem /\ room \in Nat /\ result # "done"
      /\ Current = Loc(Current.position, Current.sub_position)
      /\ Current.position \in Nat /\ Current.sub_position \in 0 .. 3
  BY <1>1, InCall, InBranch
<1>3. CASE /\ Current.position = 0 /\ room > 0
           /\ Write(Byte("begin", << 0, 1 >>))
           /\ MoveTo(1, 0)
           /\ LeaveIfFull
  <2>1. depth = Len(locs)
    BY <1>1, <1>2, <1>3, AtInnermost
  <2>2. At(Here, "begin", 0, 1) = DueAt(Tree, Here, Current)
    BY <1>2, <1>3, DueInBranch
  <2>3. Following(Tree, At(Here, "begin", 0, 1)) = DueAt(Tree, Here, Loc(1, 0))
    <3>1. /\ Tree[Here].children = 0 => DueAt(Tree, Here, Loc(1, 0)) = At(Here, "end", 0, 1)
          /\ Tree[Here].children # 0 => DueAt(Tree, Here, Loc(1, 0)) = MemberOf(Tree, Here, 1)
      BY <1>2, DueInBranch
    <3> QED BY <3>1, AfterBegin
  <2>4. phase' \in {"loop", "full"} /\ (phase' = "full" => room' = 0)
    BY <1>3 DEF LeaveIfFull
  <2>5. 1 \in Nat /\ 0 \in Nat /\ 0 \in 0 .. 3 /\ "begin" \in {"begin", "separator", "colon"}
    OBVIOUS
  <2> QED BY <1>1, <1>3, <2>1, <2>2, <2>3, <2>4, <2>5, BranchGoesOn
<1>4. CASE Current.position = 0 /\ room = 0 /\ WriteNothing /\ Interrupted
  BY <1>1, <1>2, <1>4, WritesNothing DEF WriteNothing, Interrupted, Inside, Outside
<1>5. CASE Current.position > 0 /\ WriteNothing /\ LeaveIfFull /\ UNCHANGED locs
  BY <1>1, <1>2, <1>5, WritesNothing DEF WriteNothing, LeaveIfFull, Inside, Outside
<1> QED BY <1>3, <1>4, <1>5 DEF Begin

\* What follows the last byte of a member, and a locator that has gone on to the next.
LEMMA NextMemberDue ==
  ASSUME NEW t, NEW p, t[p].kind \in {"array", "object"}, t[p].children \in Nat,
         NEW i \in Nat, i > 0, i <= t[p].children
  PROVE  /\ i < t[p].children =>
              /\ AfterMember(t, p, i) = At(p, "separator", i, 1)
              /\ Following(t, At(p, "separator", i, 1)) = DueAt(t, p, Loc(i + 1, 0))
         /\ i = t[p].children => AfterMember(t, p, i) = DueAt(t, p, Loc(i + 1, 0))
<1>1. ASSUME i < t[p].children
      PROVE  /\ AfterMember(t, p, i) = At(p, "separator", i, 1)
             /\ Following(t, At(p, "separator", i, 1)) = DueAt(t, p, Loc(i + 1, 0))
  <2>1. i + 1 \in Nat /\ i + 1 > 0 /\ i + 1 <= t[p].children /\ 0 \in 0 .. 3
    BY <1>1
  <2>2. DueAt(t, p, Loc(i + 1, 0)) = MemberOf(t, p, i + 1)
    BY <2>1, DueInBranch
  <2> QED BY <1>1, <2>2, AfterSeparator DEF AfterMember
<1>2. ASSUME i = t[p].children PROVE AfterMember(t, p, i) = DueAt(t, p, Loc(i + 1, 0))
  <2>1. i + 1 \in Nat /\ i + 1 > 0 /\ i + 1 > t[p].children /\ 0 \in 0 .. 3 /\ ~(i < t[p].children)
    BY <1>2
  <2>2. DueAt(t, p, Loc(i + 1, 0)) = At(p, "end", 0, 1)
    BY <2>1, DueInBranch
  <2> QED BY <2>1, <2>2 DEF AfterMember
<1> QED BY <1>1, <1>2

LEMMA WrittenArrayNext ==
  ASSUME IInv, Written, ArrayNext
  PROVE  WriterStep /\ Written'
<1>1. /\ depth > 0 /\ Node.kind = "array" /\ Node.kind # "leaf" /\ phase = "loop" /\ Inside
      /\ AtMember(1) /\ phase \in {"called", "loop"}
  BY DEF ArrayNext, Working
<1>2. /\ Tree[Here].kind = "array" /\ Tree[Here].children \in Nat /\ Node = Tree[Here]
      /\ Typed /\ LocatorsFollowItem /\ room \in Nat /\ result # "done"
      /\ Current = Loc(Current.position, Current.sub_position)
      /\ Current.position \in Nat /\ Current.sub_position \in 0 .. 3
  BY <1>1, InCall, InBranch
<1>3. Current.sub_position = 1 /\ Current.position > 0 /\ Current.position <= Tree[Here].children
  BY <1>1, <1>2 DEF IInv, LoopHasRoom, AtMember
<1>4. depth = Len(locs)
  BY <1>1, <1>2, <1>3, AtInnermost
<1>5. DueAt(Tree, Here, Current) = AfterMember(Tree, Here, Current.position)
  <2>1. DueAt(Tree, Here, Loc(Current.position, 1)) = AfterMember(Tree, Here, Current.position)
    BY <1>2, <1>3, DueInBranch
  <2> QED BY <1>2, <1>3, <2>1
<1>6. Current.position + 1 \in Nat /\ 0 \in 0 .. 3
  BY <1>2
<1>7. CASE /\ Current.position < Node.children /\ room > 0
           /\ Write(Byte("separator", << Current.position, 1 >>))
           /\ MoveTo(Current.position + 1, 0)
           /\ UNCHANGED phase
  <2>1. At(Here, "separator", Current.position, 1) = DueAt(Tree, Here, Current)
    BY <1>2, <1>3, <1>5, <1>7, NextMemberDue
  <2>2. Following(Tree, At(Here, "separator", Current.position, 1)) =
          DueAt(Tree, Here, Loc(Current.position + 1, 0))
    BY <1>2, <1>3, <1>7, NextMemberDue
  <2>3. phase' \in {"loop", "full"} /\ (phase' = "full" => room' = 0)
    BY <1>1, <1>7
  <2> QED BY <1>1, <1>2, <1>4, <1>6, <1>7, <2>1, <2>2, <2>3, BranchGoesOn
<1>8. CASE Current.position < Node.children /\ room = 0 /\ WriteNothing /\ Interrupted
  BY <1>1, <1>2, <1>8, WritesNothing DEF WriteNothing, Interrupted, Inside, Outside
<1>9. CASE /\ Current.position = Node.children
           /\ MoveTo(Current.position + 1, 0)
           /\ WriteNothing
           /\ UNCHANGED phase
  <2>1. DueAt(Tree, Here, Current) = DueAt(Tree, Here, Loc(Current.position + 1, 0))
    BY <1>2, <1>3, <1>5, <1>9, NextMemberDue
  <2>2. phase' = "loop"
    BY <1>1, <1>9
  <2> QED BY <1>1, <1>4, <1>6, <1>9, <2>1, <2>2, BranchMoves
<1> QED BY <1>7, <1>8, <1>9 DEF ArrayNext

\* In the loop of an object.
LEMMA InObject ==
  ASSUME IInv, Written, Working("object", "loop")
  PROVE  /\ depth > 0 /\ Node.kind = "object" /\ Node.kind # "leaf" /\ phase = "loop"
         /\ phase \in {"called", "loop"}
         /\ Tree[Here].kind = "object" /\ Tree[Here].children \in Nat /\ Node = Tree[Here]
         /\ Typed /\ LocatorsFollowItem /\ room \in Nat /\ room > 0 /\ result # "done"
         /\ Current = Loc(Current.position, Current.sub_position)
         /\ Current.position \in Nat /\ Current.position > 0 /\ Current.sub_position \in 0 .. 3
<1>1. /\ depth > 0 /\ Node.kind # "leaf" /\ Node.kind = "object" /\ phase = "loop"
      /\ room \in Nat /\ room > 0
      /\ Node.children \in Nat /\ Current.position \in Nat /\ Current.position > 0
  BY ObjectLoop
<1> QED BY <1>1, InCall

LEMMA WrittenColon ==
  ASSUME IInv, Written, WriteColon
  PROVE  WriterStep /\ Written'
<1>1. Working("object", "loop") /\ AtMember(1) /\ Inside
  BY DEF WriteColon
<1>2. /\ depth > 0 /\ Node.kind = "object" /\ Node.kind # "leaf" /\ phase \in {"called", "loop"}
      /\ Tree[Here].kind = "object" /\ Tree[Here].children \in Nat /\ Node = Tree[Here]
      /\ Typed /\ LocatorsFollowItem /\ room \in Nat /\ room > 0
      /\ Current = Loc(Current.position, Current.sub_position)
      /\ Current.position \in Nat /\ Current.position > 0
  BY <1>1, InObject
<1>3. Current.sub_position = 1 /\ Current.position <= Tree[Here].children
  BY <1>1, <1>2 DEF AtMember
<1>4. depth = Len(locs)
  BY <1>2, <1>3, AtInnermost
<1>5. At(Here, "colon", Current.position, 1) = DueAt(Tree, Here, Current)
  <2>1. DueAt(Tree, Here, Loc(Current.position, 1)) = At(Here, "colon", Current.position, 1)
    BY <1>2, <1>3, DueInBranch
  <2> QED BY <1>2, <1>3, <2>1
<1>6. Following(Tree, At(Here, "colon", Current.position, 1)) =
        DueAt(Tree, Here, Loc(Current.position, 2))
  BY <1>2, <1>3, AfterColon, DueInBranch
<1>7. /\ Write(Byte("colon", << Current.position, 1 >>)) /\ MoveTo(Current.position, 2)
      /\ phase' \in {"loop", "full"} /\ (phase' = "full" => room' = 0)
  BY <1>2 DEF WriteColon, WriteUnchecked, LeaveIfFull
<1> QED BY <1>1, <1>2, <1>4, <1>5, <1>6, <1>7, BranchGoesOn

LEMMA WrittenObjectNext ==
  ASSUME IInv, Written, ObjectNext
  PROVE  WriterStep /\ Written'
<1>1. Working("object", "loop") /\ AtMember(3) /\ Inside /\ MoveTo(Current.position + 1, 0)
  BY DEF ObjectNext
<1>2. /\ depth > 0 /\ Node.kind = "object" /\ Node.kind # "leaf" /\ phase = "loop"
      /\ phase \in {"called", "loop"}
      /\ Tree[Here].kind = "object" /\ Tree[Here].children \in Nat /\ Node = Tree[Here]
      /\ Typed /\ LocatorsFollowItem /\ room \in Nat /\ room > 0
      /\ Current = Loc(Current.position, Current.sub_position)
      /\ Current.position \in Nat /\ Current.position > 0
  BY <1>1, InObject
<1>3. Current.sub_position = 3 /\ Current.position <= Tree[Here].children
  BY <1>1, <1>2 DEF AtMember
<1>4. depth = Len(locs)
  BY <1>2, <1>3, AtInnermost
<1>5. DueAt(Tree, Here, Current) = AfterMember(Tree, Here, Current.position)
  <2>1. DueAt(Tree, Here, Loc(Current.position, 3)) = AfterMember(Tree, Here, Current.position)
    BY <1>2, <1>3, DueInBranch
  <2> QED BY <1>2, <1>3, <2>1
<1>6. Current.position + 1 \in Nat /\ 0 \in 0 .. 3
  BY <1>2
<1>7. CASE /\ Current.position < Node.children
           /\ WriteUnchecked(Byte("separator", << Current.position, 1 >>))
           /\ LeaveIfFull
  <2>1. At(Here, "separator", Current.position, 1) = DueAt(Tree, Here, Current)
    BY <1>2, <1>3, <1>5, <1>7, NextMemberDue
  <2>2. Following(Tree, At(Here, "separator", Current.position, 1)) =
          DueAt(Tree, Here, Loc(Current.position + 1, 0))
    BY <1>2, <1>3, <1>7, NextMemberDue
  <2>3. /\ Write(Byte("separator", << Current.position, 1 >>))
        /\ phase' \in {"loop", "full"} /\ (phase' = "full" => room' = 0)
    BY <1>2, <1>7 DEF WriteUnchecked, LeaveIfFull
  <2> QED BY <1>1, <1>2, <1>4, <1>6, <2>1, <2>2, <2>3, BranchGoesOn
<1>8. CASE Current.position = Node.children /\ WriteNothing /\ UNCHANGED phase
  <2>1. DueAt(Tree, Here, Current) = DueAt(Tree, Here, Loc(Current.position + 1, 0))
    BY <1>2, <1>3, <1>5, <1>8, NextMemberDue
  <2>2. phase' = "loop"
    BY <1>2, <1>8
  <2> QED BY <1>1, <1>2, <1>4, <1>6, <1>8, <2>1, <2>2, BranchMoves
<1> QED BY <1>7, <1>8 DEF ObjectNext

LEMMA WrittenEnd ==
  ASSUME IInv, Written, End
  PROVE  WriterStep /\ Written'
<1>1. /\ depth > 0 /\ Node.kind # "leaf" /\ phase = "loop" /\ Inside /\ AfterMembers
  BY DEF End, Working
<1>2. /\ Tree[Here].kind \in {"array", "object"} /\ Tree[Here].children \in Nat
      /\ Node = Tree[Here] /\ Tree[Here].kind # "leaf"
      /\ Typed /\ LocatorsFollowItem /\ room \in Nat /\ result # "done"
      /\ Current = Loc(Current.position, Current.sub_position)
      /\ Current.position \in Nat /\ Current.sub_position \in 0 .. 3
  BY <1>1, InCall, InBranch
<1>3. Current.position > Tree[Here].children /\ Current.position > 0
  BY <1>1, <1>2 DEF AfterMembers
<1>4. depth = Len(locs)
  BY <1>1, <1>2, <1>3, AtInnermost
<1>5. DueOf(Tree, locs) = At(Here, "end", 0, 1)
  BY <1>1, <1>2, <1>3, <1>4, DueHere, DueInBranch
<1>6. result' = result /\ Outside
  BY <1>1 DEF Inside, Outside
<1>7. CASE /\ room > 0
           /\ Write(Byte("end", << 0, 1 >>))
           /\ MoveTo(0, 0)
           /\ phase' = "complete"
  <2>1. 0 \in Nat /\ 0 \in 0 .. 3 /\ "end" \in {"begin", "separator", "colon", "end"}
        /\ phase # "complete"
    BY <1>1
  <2>2. /\ WriterStep
        /\ InOrder(Texts[item'], out') /\ out' # << >>
        /\ out'[Len(out')] = At(Here, "end", 0, 1)
    BY <1>1, <1>2, <1>5, <1>6, <1>7, <2>1, OneByte
  <2>3. At(Here, "end", 0, 1) = LastOf(Tree, Here)
    BY <1>2 DEF LastOf
  <2>4. Tree' = Tree /\ Here' = Here
    BY <1>1, <1>2, <1>7, <2>1, DueMoved
  <2> QED BY <1>2, <1>6, <1>7, <2>2, <2>3, <2>4, Completes
<1>8. CASE room = 0 /\ WriteNothing /\ Interrupted
  BY <1>1, <1>2, <1>8, WritesNothing DEF WriteNothing, Interrupted, Inside, Outside
<1> QED BY <1>7, <1>8 DEF End

\* The byte of a name that is due, where its own locator may be kept.
LEMMA KeyDue ==
  ASSUME IInv, Written, Working("object", "loop"), AtMember(0)
  PROVE  LET from == IF Len(locs) > depth THEN locs[depth + 1].position ELSE 0
         IN  DueOf(Tree, locs) = At(Here, "key", Current.position, from + 1)
<1>1. /\ depth > 0 /\ Node.kind = "object" /\ Node.kind # "leaf"
      /\ Tree[Here].kind = "object" /\ Tree[Here].children \in Nat /\ Node = Tree[Here]
      /\ Typed /\ LocatorsFollowItem /\ depth \in Nat
      /\ Current = Loc(Current.position, Current.sub_position)
      /\ Current.position \in Nat /\ Current.position > 0
  BY InObject DEF Typed
<1>2. Current.sub_position = 0 /\ Current.position <= Tree[Here].children
  BY <1>1 DEF AtMember
<1>3. CASE Len(locs) > depth
  <2>1. depth < Len(locs) /\ Owns(depth)
    BY <1>1, <1>3, Active DEF Typed
  <2>2. depth = Len(locs) - 1
    BY <1>1, <1>2, <2>1 DEF Owns, Node, Here, Current
  <2>3. Len(locs) = depth + 1 /\ (depth + 1) - 1 = depth /\ depth + 1 > 1
    BY <1>1, <2>2 DEF Typed
  <2>4. NameAt(Tree, locs, depth + 1) /\ Way(locs, depth) = Here
    BY <1>1, <1>2, <2>3 DEF NameAt, Way, Here, PathTo, Current
  <2> QED BY <1>3, <2>3, <2>4 DEF DueOf, Current
<1>4. CASE ~(Len(locs) > depth)
  <2>1. depth = Len(locs)
    BY <1>1, <1>4 DEF Typed
  <2>2. DueOf(Tree, locs) = DueAt(Tree, Here, Current)
    BY <1>1, <2>1, DueHere
  <2>3. DueAt(Tree, Here, Loc(Current.position, 0)) = MemberOf(Tree, Here, Current.position)
    BY <1>1, <1>2, DueInBranch
  <2>4. MemberOf(Tree, Here, Current.position) = At(Here, "key", Current.position, 1)
    BY <1>1 DEF MemberOf
  <2>5. DueAt(Tree, Here, Current) = At(Here, "key", Current.position, 1)
    BY <1>1, <1>2, <2>3, <2>4
  <2> QED BY <1>4, <2>2, <2>5
<1> QED BY <1>3, <1>4

LEMMA WrittenKey ==
  ASSUME IInv, Written, WriteKey
  PROVE  WriterStep /\ Written'
<1> DEFINE member == Current.position
           from == IF Len(locs) > depth THEN locs[depth + 1].position ELSE 0
           width == Node.keys[member]
           n == Least(room, width - from)
           bs == Bytes("key", member, from, n)
<1>1. Working("object", "loop") /\ AtMember(0) /\ Inside
  BY DEF WriteKey
<1>2. /\ depth > 0 /\ Node.kind = "object" /\ Node.kind # "leaf" /\ phase = "loop"
      /\ Tree[Here].kind = "object" /\ Tree[Here].children \in Nat /\ Node = Tree[Here]
      /\ Typed /\ LocatorsFollowItem /\ room \in Nat /\ room > 0 /\ result # "done"
      /\ Current = Loc(member, Current.sub_position)
      /\ member \in Nat /\ member > 0 /\ member <= Tree[Here].children
      /\ Current.sub_position = 0
  BY <1>1, InObject DEF AtMember
<1>3. from \in Nat /\ width \in Nat /\ from < width
  BY <1>1, NameGoesOn
<1>4. DueOf(Tree, locs) = At(Here, "key", member, from + 1)
  BY <1>1, KeyDue
<1>5. width = Tree[Here].keys[member]
  BY <1>2
<1>6. /\ Write(bs)
      /\ \/ from + n = width /\ MoveTo(member, 1) /\ LeaveIfFull
         \/ /\ from + n < width
            /\ locs' = Append(SubSeq(locs, 1, depth), Loc(from + n, 0))
            /\ phase' = "full"
  BY DEF WriteKey
<1>0. Current.position = member
  OBVIOUS
<1> HIDE DEF from, width, member
<1>7. n \in Nat /\ n <= room /\ n <= width - from /\ (n = room \/ n = width - from)
  <2>1. width - from \in Nat
    BY <1>3
  <2> QED BY <1>2, <2>1, LeastOfTwo DEF Least
<1>8. n > 0
  BY <1>2, <1>3, <1>7
<1> HIDE DEF n
<1>9. /\ bs \in Seq(Marks) /\ Len(bs) = n
      /\ \A k \in 1 .. n : bs[k] = At(Here, "key", member, from + k)
  <2>1. /\ Typed /\ depth > 0 /\ n \in Nat /\ from \in Nat
        /\ member \in Nat /\ "key" \in {"leaf", "key"}
    BY <1>1, <1>2, <1>3, <1>7
  <2> QED BY <2>1, BytesAre, Zenon
<1> HIDE DEF bs
<1>10. result' = result /\ item' = item /\ Outside /\ Tree' = Tree /\ depth' = depth
  BY <1>1 DEF Inside, Outside, Tree
<1>11. ASSUME NEW k \in Nat, k <= width
       PROVE  /\ Following(Tree, At(Here, "key", member, k)) =
                   IF k < width THEN At(Here, "key", member, k + 1) ELSE At(Here, "colon", member, 1)
              /\ At(Here, "key", member, k) # LastOf(Tree, << >>)
  <2>1. Tree[Here].keys[member] \in Nat /\ k <= Tree[Here].keys[member]
    BY <1>3, <1>5, <1>11
  <2>2. Following(Tree, At(Here, "key", member, k)) =
          IF k < Tree[Here].keys[member] THEN At(Here, "key", member, k + 1)
                                         ELSE At(Here, "colon", member, 1)
    BY <2>1, AfterKey
  <2>3. At(Here, "key", member, k) # LastOf(Tree, << >>)
    BY NotLast
  <2> QED BY <1>5, <2>2, <2>3
<1>12. Len(bs) > 0 /\ Len(bs) <= room /\ n \in 1 .. n /\ 1 \in 1 .. n
  BY <1>7, <1>8, <1>9
<1>13. bs[1] = DueOf(Tree, locs)
  BY <1>4, <1>9, <1>12
<1>14. ASSUME NEW k \in 1 .. Len(bs) - 1
       PROVE  bs[k] # LastOf(Tree, << >>) /\ bs[k + 1] = Following(Tree, bs[k])
  <2>1. /\ k \in 1 .. n /\ k + 1 \in 1 .. n /\ from + k \in Nat /\ from + k < width
        /\ from + k <= width /\ (from + k) + 1 = from + (k + 1)
    BY <1>3, <1>7, <1>9
  <2>2. bs[k] = At(Here, "key", member, from + k) /\ bs[k + 1] = At(Here, "key", member, from + (k + 1))
    BY <1>9, <2>1
  <2>3. /\ Following(Tree, At(Here, "key", member, from + k)) = At(Here, "key", member, (from + k) + 1)
        /\ At(Here, "key", member, from + k) # LastOf(Tree, << >>)
    BY <1>11, <2>1
  <2> QED BY <2>1, <2>2, <2>3
<1>15. /\ WriterStep
       /\ InOrder(Texts[item'], out') /\ out' # << >> /\ out'[Len(out')] = bs[Len(bs)]
  <2>1. phase # "complete"
    BY <1>2
  <2> QED BY <1>2, <1>6, <1>9, <1>10, <1>12, <1>13, <1>14, <2>1, Writes
<1>16. bs[Len(bs)] = At(Here, "key", member, from + n)
  BY <1>9, <1>12
<1>17. from + n \in Nat /\ from + n <= width
  BY <1>3, <1>7
<1>18. CASE from + n = width /\ MoveTo(member, 1) /\ LeaveIfFull
  <2>1. DueOf(Tree', locs') = DueAt(Tree, Here, Loc(member, 1))
    <3>1. 1 \in 0 .. 3
      OBVIOUS
    <3> QED BY <1>1, <1>2, <1>18, <3>1, DueMoved
  <2>2. DueAt(Tree, Here, Loc(member, 1)) = At(Here, "colon", member, 1)
    BY <1>2, DueInBranch
  <2>3. Following(Tree, At(Here, "key", member, from + n)) = At(Here, "colon", member, 1)
        /\ At(Here, "key", member, from + n) # LastOf(Tree, << >>)
    <3>1. ~(from + n < width)
      BY <1>3, <1>17, <1>18
    <3> QED BY <1>11, <1>17, <3>1
  <2>4. result' # "done" /\ phase' # "complete" /\ (phase' = "full" => room' = 0)
    BY <1>2, <1>10, <1>18 DEF LeaveIfFull
  <2> QED BY <1>10, <1>15, <1>16, <2>1, <2>2, <2>3, <2>4, GoesOn
<1>19. CASE /\ from + n < width
            /\ locs' = Append(SubSeq(locs, 1, depth), Loc(from + n, 0))
            /\ phase' = "full"
  <2> DEFINE l == Loc(from + n, 0)
  <2>1. l \in Locators /\ l.position = from + n
    BY <1>17 DEF Loc, Locators
  <2>2. locs' = Append(SubSeq(locs, 1, depth), l)
    BY <1>19
  <2> HIDE DEF l
  <2>3. /\ Len(locs') = depth + 1 /\ locs'[depth + 1] = l
        /\ \A i \in 1 .. depth : locs'[i] = locs[i]
        /\ \A i \in 1 .. depth + 1 : PathTo(i)' = PathTo(i)
    BY <1>2, <2>1, <2>2, Extended
  <2>4. /\ (depth + 1) - 1 = depth /\ depth + 1 > 1 /\ depth \in 1 .. depth
        /\ depth \in 1 .. depth + 1
    BY <1>2 DEF Typed
  <2>5. locs'[depth] = Current /\ Way(locs', depth) = Here
    <3>1. \A i \in 1 .. depth - 1 : locs'[i].position = locs[i].position
      <4>1. \A i \in 1 .. depth - 1 : i \in 1 .. depth
        BY <2>4
      <4> QED BY <2>3, <4>1
    <3>2. locs'[depth] = locs[depth]
      BY <2>3, <2>4
    <3> QED BY <3>1, <3>2 DEF Way, Here, PathTo, Current
  <2>6. NameAt(Tree, locs', depth + 1)
    BY <1>2, <2>4, <2>5 DEF NameAt
  <2>7. DueOf(Tree', locs') = At(Here, "key", member, (from + n) + 1)
    BY <1>0, <1>10, <2>1, <2>3, <2>4, <2>5, <2>6 DEF DueOf
  <2>8. Following(Tree, At(Here, "key", member, from + n)) = At(Here, "key", member, (from + n) + 1)
        /\ At(Here, "key", member, from + n) # LastOf(Tree, << >>)
    BY <1>11, <1>17, <1>19
  <2>9. n = room /\ room' = 0
    BY <1>2, <1>3, <1>6, <1>7, <1>9, <1>19 DEF Write
  <2>10. result' # "done" /\ phase' # "complete"
    BY <1>2, <1>10, <1>19
  <2> QED BY <1>10, <1>15, <1>16, <2>7, <2>8, <2>9, <2>10, GoesOn
<1> QED BY <1>6, <1>18, <1>19

LEMMA WrittenDescend ==
  ASSUME IInv, Written, Descend
  PROVE  WriterStep /\ Written'
<1>1. /\ depth > 0 /\ Node.kind # "leaf" /\ phase = "loop" /\ phase' = "called"
      /\ \/ Node.kind = "array" /\ AtMember(0)
         \/ Node.kind = "object" /\ AtMember(2)
      /\ UNCHANGED << item, out, room, result >> /\ Outside
  BY DEF Descend, Working, WriteNothing, Outside
<1>2. /\ Tree[Here].kind \in {"array", "object"} /\ Tree[Here].children \in Nat
      /\ Node = Tree[Here]
      /\ Typed /\ LocatorsFollowItem /\ depth \in Nat /\ result # "done"
      /\ Current = Loc(Current.position, Current.sub_position)
      /\ Current.position \in Nat
  BY <1>1, InCall, InBranch DEF Typed
<1>3. /\ Current.position > 0 /\ Current.position <= Tree[Here].children
      /\ \/ Tree[Here].kind = "array" /\ Current.sub_position = 0
         \/ Tree[Here].kind = "object" /\ Current.sub_position = 2
  BY <1>1, <1>2 DEF IInv, LoopHasRoom, AtMember
<1>4. DueOf(Tree', locs') = DueOf(Tree, locs)
  <2>1. CASE Len(locs) = depth
    <3>1. locs' = Append(locs, Fresh) /\ Tree' = Tree
      BY <1>1, <2>1 DEF Descend, Tree
    <3>2. /\ Len(locs') = depth + 1 /\ locs'[depth + 1] = Fresh
          /\ \A i \in 1 .. depth : locs'[i] = locs[i]
      BY <1>2, <2>1, <3>1, AppendProperties DEF Typed
    <3>3. /\ (depth + 1) - 1 = depth /\ depth + 1 > 1 /\ depth \in 1 .. depth
      BY <1>1, <1>2
    <3>4. Way(locs', depth) = Here /\ locs'[depth] = Current
      <4>1. \A i \in 1 .. depth - 1 : locs'[i].position = locs[i].position
        BY <1>2, <3>2
      <4> QED BY <3>2, <3>3, <4>1 DEF Way, Here, PathTo, Current
    <3>5. ~NameAt(Tree, locs', depth + 1)
      BY <1>2, <1>3, <3>3, <3>4 DEF NameAt
    <3>6. Way(locs', depth + 1) = Append(Here, Current.position)
      <4>1. Way(locs', depth + 1) = [i \in 1 .. depth |-> locs[i].position]
        BY <3>2, <3>3 DEF Way
      <4>2. PathTo(depth + 1) = [i \in 1 .. depth |-> locs[i].position]
        BY <3>3 DEF PathTo
      <4>3. PathTo(depth + 1) = Append(PathTo(depth), locs[depth].position)
        <5>1. depth \in Nat \ {0}
          BY <1>1, <1>2
        <5> QED BY <5>1, NextPath
      <4> QED BY <4>1, <4>2, <4>3 DEF Here, Current
    <3>7. DueOf(Tree', locs') = DueAt(Tree, Append(Here, Current.position), Fresh)
      BY <3>1, <3>2, <3>5, <3>6 DEF DueOf
    <3>8. DueAt(Tree, Append(Here, Current.position), Fresh)
            = FirstOf(Tree, Append(Here, Current.position))
      BY DEF DueAt, FirstOf, Fresh, Loc
    <3>9. DueOf(Tree, locs) = DueAt(Tree, Here, Current)
      BY <1>1, <1>2, <2>1, DueHere
    <3>10. DueAt(Tree, Here, Current) = FirstOf(Tree, Append(Here, Current.position))
      <4>1. CASE Tree[Here].kind = "array" /\ Current.sub_position = 0
        <5>1. DueAt(Tree, Here, Loc(Current.position, 0)) = MemberOf(Tree, Here, Current.position)
          BY <1>2, <1>3, DueInBranch
        <5>2. DueAt(Tree, Here, Current) = MemberOf(Tree, Here, Current.position)
          BY <1>2, <4>1, <5>1
        <5> QED BY <4>1, <5>2 DEF MemberOf
      <4>2. CASE Tree[Here].kind = "object" /\ Current.sub_position = 2
        <5>1. DueAt(Tree, Here, Loc(Current.position, 2))
                = FirstOf(Tree, Append(Here, Current.position))
          BY <1>2, <1>3, <4>2, DueInBranch
        <5> QED BY <1>2, <4>2, <5>1
      <4> QED BY <1>3, <4>1, <4>2
    <3> QED BY <3>7, <3>8, <3>9, <3>10
  <2>2. CASE Len(locs) # depth
    <3>1. locs' = locs /\ Tree' = Tree
      BY <1>1, <2>2 DEF Descend, Tree
    <3> QED BY <3>1
  <2> QED BY <2>1, <2>2
<1>5. phase # "complete" /\ phase' # "complete" /\ phase' # "full" /\ result' # "done"
  BY <1>1, <1>2
<1> QED BY <1>1, <1>2, <1>4, <1>5, KeepsDue, Shows

LEMMA WrittenReturnTrue ==
  ASSUME IInv, Written, ReturnTrue
  PROVE  WriterStep /\ Written'
<1>1. /\ Typed /\ LocatorsFollowItem /\ depth \in Nat /\ depth > 1 /\ phase = "complete"
      /\ result # "done" /\ UNCHANGED << item, out, room, result >>
  BY InCall DEF ReturnTrue, IInv, Typed, WriteNothing, Outside
<1>2. PICK d \in 1 .. depth - 1 : d = depth - 1
  BY <1>1
<1> DEFINE p == PathTo(d)
           i == locs[d].position
           parent == Tree[p].kind
           l == Loc(i, IF parent = "array" THEN 1 ELSE 3)
<1>3. d \in 1 .. depth /\ d \in 1 .. Len(locs) /\ d \in Nat \ {0} /\ d - 1 = depth - 2 /\ d + 1 = depth
  BY <1>1, <1>2 DEF Typed
<1>4. Passed(d)
  BY <1>1, <1>3, ActiveArePassed
<1>5. /\ p \in Seq(Nat) /\ p \in DOMAIN Tree /\ IsNode(Tree[p]) /\ parent # "leaf"
      /\ i \in 1 .. Tree[p].children
  BY <1>1, <1>3, <1>4, PathIsSeq, ItemNodes DEF Passed, Typed
<1>6. parent \in {"array", "object"} /\ Tree[p].children \in Nat /\ i \in Nat
  <2>1. parent \in {"leaf", "array", "object"} /\ Tree[p].children \in Nat
    BY <1>5, NodeShape
  <2> QED BY <1>5, <2>1
<1>7. Here = Append(p, i) /\ Here \in DOMAIN Tree
  <2>1. Here = Append(p, i)
    BY <1>3, NextPath DEF Here
  <2> QED BY <1>1, <2>1, Active
<1>8. CutAt(d, l) /\ phase' = (IF parent = "object" /\ room = 0 THEN "full" ELSE "loop")
  BY <1>2, <1>3 DEF ReturnTrue, CutAt
<1>9. l \in Locators
  BY <1>6 DEF Loc, Locators
<1>10. DueOf(Tree', locs') = DueAt(Tree, p, l) /\ Tree' = Tree
  <2>1. item' = item /\ depth > 0
    BY <1>1
  <2>2. Tree' = Tree
    BY <1>1 DEF Tree
  <2> HIDE DEF l
  <2> QED BY <1>1, <1>3, <1>8, <1>9, <2>1, <2>2, DueCut
<1>11. DueAt(Tree, p, l) = AfterMember(Tree, p, i)
  <2>1. i > 0 /\ i <= Tree[p].children
    BY <1>5, <1>6
  <2>2. CASE parent = "array"
    <3>1. DueAt(Tree, p, Loc(i, 1)) = AfterMember(Tree, p, i)
      <4> HIDE DEF p, i
      <4> QED BY <1>6, <2>1, <2>2, DueInBranch
    <3> QED BY <2>2, <3>1
  <2>3. CASE parent = "object"
    <3>1. DueAt(Tree, p, Loc(i, 3)) = AfterMember(Tree, p, i)
      <4> HIDE DEF p, i
      <4> QED BY <1>6, <2>1, <2>3, DueInBranch
    <3> QED BY <2>3, <3>1
  <2> QED BY <1>6, <2>2, <2>3
<1>12. /\ Following(Tree, LastOf(Tree, Here)) = AfterMember(Tree, p, i)
       /\ LastOf(Tree, Here) # LastOf(Tree, << >>)
  <2>1. IsNode(Tree[Append(p, i)])
    BY <1>1, <1>7, ItemNodes DEF Typed
  <2>2. Tree[Append(p, i)].width \in Nat
    BY <2>1, NodeShape
  <2> HIDE DEF p, i
  <2> QED BY <1>5, <1>6, <1>7, <2>2, AfterNode
<1>13. out # << >> /\ out[Len(out)] = LastOf(Tree, Here) /\ InOrder(Texts[item], out)
  BY <1>1 DEF Written, Ended
<1> HIDE DEF p, i, l
<1>14. /\ InOrder(Texts[item'], out') /\ out' # << >> /\ out'[Len(out')] = LastOf(Tree, Here)
       /\ result' # "done"
  BY <1>1, <1>13
<1>15. phase' # "complete" /\ (phase' = "full" => room' = 0)
  BY <1>1, <1>8
<1>16. Written'
  BY <1>10, <1>11, <1>12, <1>14, <1>15, GoesOn
<1> QED BY <1>1, <1>16, Shows

LEMMA WrittenReturnFalse ==
  ASSUME IInv, Written, ReturnFalse
  PROVE  WriterStep /\ Written'
<1>1. /\ depth > 0 /\ phase = "full" /\ UNCHANGED << item, locs, out, room, result, phase >>
  BY DEF ReturnFalse, IInv, Typed, WriteNothing, Outside
<1>2. room = 0 /\ result # "done"
  BY <1>1, InCall DEF Written
<1> QED BY <1>1, <1>2, WritesNothing

LEMMA WrittenCall ==
  ASSUME IInv, Written, NEW r \in Rooms, Call(r)
  PROVE  WriterStep /\ Written'
<1>1. /\ depth = 0 /\ phase = "idle" /\ phase' = "called" /\ result # "done" /\ room' = r
      /\ UNCHANGED << item, locs, out, result >>
  BY DEF Call, IInv, BufferInCalls
<1>2. room = -1
  BY <1>1 DEF IInv, BufferInCalls
<1>3. W!Call
  BY <1>1, <1>2 DEF W!Call
<1>4. Written'
  <2>1. DueOf(Tree', locs') = DueOf(Tree, locs)
    BY <1>1 DEF Tree
  <2> QED BY <1>1, <2>1, KeepsDue
<1> QED BY <1>3, <1>4 DEF WriterStep, W!Next

LEMMA WrittenReturn ==
  ASSUME IInv, Written, Return
  PROVE  WriterStep /\ Written'
<1>1. /\ depth = 1 /\ depth > 0 /\ phase' = "returned" /\ room' = -1
      /\ UNCHANGED << item, locs, out >> /\ Tree' = Tree
      /\ \/ phase = "full" /\ result' = "more"
         \/ phase = "complete" /\ result' = "done"
  BY DEF Return, Tree
<1>2. Typed /\ room \in Nat /\ result # "done" /\ InOrder(Texts[item], out)
      /\ IsText(Tree, Texts[item])
  BY <1>1, InCall, TextIsText DEF Written
<1>3. CASE phase = "full" /\ result' = "more"
  <2>1. room = 0 /\ Due(Tree, out, DueOf(Tree, locs))
    BY <1>2, <1>3 DEF Written
  <2>2. Len(out) < Len(Texts[item])
    BY <1>2, <2>1, AllOrLess
  <2>3. W!ReturnMore
    BY <1>1, <1>3, <2>1, <2>2 DEF W!ReturnMore
  <2>4. Written'
    BY <1>1, <1>2, <1>3, KeepsDue
  <2> QED BY <2>3, <2>4 DEF WriterStep, W!Next
<1>4. CASE phase = "complete" /\ result' = "done"
  <2>1. Here = << >>
    BY <1>1, RootPath DEF Here
  <2>2. Ended(Tree, << >>, out)
    BY <1>4, <2>1 DEF Written
  <2>3. out = Texts[item]
    BY <1>2, <2>2, AllOrLess
  <2>4. W!ReturnDone
    BY <1>1, <1>2, <1>4, <2>3 DEF W!ReturnDone
  <2>5. Written'
    BY <1>1, <1>2, <1>4, <2>2 DEF Written
  <2> QED BY <2>4, <2>5 DEF WriterStep, W!Next
<1> QED BY <1>1, <1>3, <1>4

\* What is done between two calls shows nothing.
LEMMA WrittenBetween ==
  ASSUME IInv, Written, UNCHANGED << item, locs, depth, out, room, result >>,
         phase' = phase \/ (phase = "returned" /\ phase' = "idle")
  PROVE  WriterStep /\ Written'
<1>1. Tree' = Tree /\ (phase = "complete" => Here' = Here)
  BY DEF Tree, Here, PathTo
<1>2. phase' = "full" => phase = "full"
  OBVIOUS
<1>3. phase' = "complete" <=> phase = "complete"
  OBVIOUS
<1> QED BY <1>1, <1>2, <1>3, Shows DEF Written

LEMMA WrittenInit ==
  ASSUME Init
  PROVE  W!Init /\ Written
<1>1. /\ item \in DOMAIN Items /\ locs = << Fresh >> /\ out = << >> /\ phase = "idle"
      /\ result = "none" /\ room = -1
  BY DEF Init
<1>2. InOrder(Texts[item], out)
  <2>1. Texts[item] \in Seq(Marks) /\ Len(Texts[item]) \in Nat
    BY <1>1, TextsAssumption DEF IsText
  <2>2. << >> \in Seq(Marks) /\ Len(<< >>) = 0
    BY EmptySeq
  <2> QED BY <1>1, <2>1, <2>2 DEF InOrder
<1>3. DueOf(Tree, locs) = FirstOf(Tree, << >>)
  <2>1. Len(locs) = 1 /\ locs[1] = Fresh /\ Way(locs, 1) = << >>
    BY <1>1 DEF Way
  <2>2. ~NameAt(Tree, locs, 1)
    BY DEF NameAt
  <2>3. DueOf(Tree, locs) = DueAt(Tree, << >>, Fresh)
    BY <2>1, <2>2 DEF DueOf
  <2> QED BY <2>3 DEF DueAt, FirstOf, Fresh, Loc
<1> QED BY <1>1, <1>2, <1>3 DEF Written, Due, W!Init

LEMMA StepWritten ==
  ASSUME IInv, Written, [Next]_vars
  PROVE  WriterStep /\ Written'
<1>1. ASSUME NEW r \in Rooms, Call(r) PROVE WriterStep /\ Written'
  BY <1>1, WrittenCall
<1>2. ASSUME WriteBuffer \/ ReturnVerdict \/ UNCHANGED vars PROVE WriterStep /\ Written'
  BY <1>2, WrittenBetween DEF WriteBuffer, ReturnVerdict, vars
<1>3. CASE Advance
  BY <1>2, <1>3, WrittenLeaf, WrittenBegin, WrittenDescend, WrittenArrayNext, WrittenKey,
     WrittenColon, WrittenObjectNext, WrittenEnd, WrittenReturnTrue, WrittenReturnFalse,
     WrittenReturn DEF Advance
<1> QED BY <1>1, <1>2, <1>3 DEF Next, Finished

\* Whatever the items and the buffers: output_visitor writes what a Writer would.  With
\* the locators that an interrupted call leaves, every later call goes on at the byte
\* after the last one written, at every depth and inside of names.
THEOREM RefinesWriter == Spec => IsWriter
<1>1. Init => W!Init /\ Written
  BY WrittenInit
<1>2. IInv /\ Written /\ [Next]_vars => WriterStep /\ Written'
  BY StepWritten
<1> QED BY <1>1, <1>2, Inductive, PTL DEF Spec, IsWriter, W!Spec, WriterStep
=============================================================================
