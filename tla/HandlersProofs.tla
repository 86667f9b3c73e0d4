--------------------------- MODULE HandlersProofs ---------------------------
(***************************************************************************)
(* Proofs about Handlers, for documents of any length and depth: the       *)
(* builder's stack of pointers keeps in step with the parser, no pointer   *)
(* on it is left to a member that was moved, what jsonprint prints is the  *)
(* text of what it was given, and the item tells of the calls it was made  *)
(* of, in their order, and of nothing else.                                *)
(***************************************************************************)
EXTENDS Handlers, SequenceTheorems, FiniteSetTheorems, WellFoundedInduction, TLAPS

-----------------------------------------------------------------------------
(* Items.                                                                  *)

Nodes == [type : Types, value : Seq(Texts), names : Seq(Seq(Pieces))]

\* A function from paths to nodes.
Grounded(t) == \A p \in DOMAIN t : p \in Seq(Nat) /\ t[p] \in Nodes

LEMMA NodeIsNode ==
  ASSUME NEW type \in Types
  PROVE  Node(type) \in Nodes /\ Node(type).type = type /\ Node(type).names = << >>
<1>1. << >> \in Seq(Texts) /\ << >> \in Seq(Seq(Pieces))
  BY EmptySeq
<1> QED BY <1>1 DEF Node, Nodes

LEMMA MorphTree ==
  ASSUME NEW t, Grounded(t), NEW p \in DOMAIN t, NEW type \in Types,
         NEW u, u = morph_to(t, p, type)
  PROVE  /\ Grounded(u) /\ DOMAIN u = DOMAIN t
         /\ u[p] = Node(type)
         /\ \A q \in DOMAIN t : q # p => u[q] = t[q]
<1>1. DOMAIN u = DOMAIN t /\ u[p] = Node(type) /\ \A q \in DOMAIN t : q # p => u[q] = t[q]
  BY DEF morph_to
<1>2. Node(type) \in Nodes
  BY NodeIsNode
<1>3. Grounded(u)
  BY <1>1, <1>2 DEF Grounded
<1> QED BY <1>1, <1>3

\* The member that is added next to a node.
NextMember(t, p) == Append(p, Len(t[p].names) + 1)

\* What emplace_back leaves.
Emplaced(t, p, type, u, new) ==
  /\ Grounded(u) /\ DOMAIN u = DOMAIN t \cup {new}
  /\ Len(t[p].names) \in Nat /\ new # p
  /\ u[new] = Node(type)
  /\ u[p].type = t[p].type /\ Len(u[p].names) = Len(t[p].names) + 1
  /\ \A q \in DOMAIN t : q # p /\ q # new => u[q] = t[q]

LEMMA EmplaceTree ==
  ASSUME NEW t, Grounded(t), NEW p \in DOMAIN t, NEW name \in Seq(Pieces),
         NEW type \in Types,
         NEW u, u = emplace_back(t, p, name, type),
         NEW new, new = NextMember(t, p)
  PROVE  Emplaced(t, p, type, u, new)
<1> DEFINE grown == [t[p] EXCEPT !.names = Append(@, name)]
<1>1. t[p] \in Nodes /\ p \in Seq(Nat)
  BY DEF Grounded
<1>2. t[p].names \in Seq(Seq(Pieces)) /\ Len(t[p].names) \in Nat
  BY <1>1 DEF Nodes
<1>0. new = Append(p, Len(t[p].names) + 1)
  BY DEF NextMember
<1>3. new \in Seq(Nat) /\ Len(new) = Len(p) + 1
  BY <1>0, <1>1, <1>2
<1>4. Append(t[p].names, name) \in Seq(Seq(Pieces))
      /\ Len(Append(t[p].names, name)) = Len(t[p].names) + 1
  BY <1>2
<1>5. grown \in Nodes /\ grown.type = t[p].type /\ grown.names = Append(t[p].names, name)
  BY <1>1, <1>4 DEF Nodes
<1>6. u = [q \in DOMAIN t \cup {new} |->
             CASE q = new -> Node(type) [] q = p -> grown [] OTHER -> t[q]]
  BY <1>0 DEF emplace_back
<1>7. new # p
  <2>1. Len(new) # Len(p)
    BY <1>1, <1>3
  <2> QED BY <2>1
<1> HIDE DEF grown
<1>8. /\ DOMAIN u = DOMAIN t \cup {new} /\ u[new] = Node(type) /\ u[p] = grown
      /\ \A q \in DOMAIN t : q # p /\ q # new => u[q] = t[q]
  BY <1>6, <1>7
<1>9. Grounded(u)
  <2>1. Node(type) \in Nodes
    BY NodeIsNode
  <2>2. SUFFICES ASSUME NEW q \in DOMAIN u PROVE q \in Seq(Nat) /\ u[q] \in Nodes
    BY DEF Grounded
  <2>3. CASE q = new
    BY <1>3, <1>8, <2>1, <2>3
  <2>4. CASE q = p
    BY <1>1, <1>5, <1>8, <2>4
  <2>5. CASE q # new /\ q # p
    BY <1>8, <2>2, <2>5 DEF Grounded
  <2> QED BY <2>3, <2>4, <2>5
<1> QED BY <1>2, <1>4, <1>5, <1>7, <1>8, <1>9 DEF Emplaced

\* set_value, and a piece of a string: the type and the names stay.
WithValue(t, p, v) == [t EXCEPT ![p].value = v]

SameShape(t, u) ==
  /\ Grounded(u) /\ DOMAIN u = DOMAIN t
  /\ \A q \in DOMAIN t : u[q].type = t[q].type /\ u[q].names = t[q].names

LEMMA ValueTree ==
  ASSUME NEW t, Grounded(t), NEW p \in DOMAIN t, NEW v \in Seq(Texts),
         NEW u, u = WithValue(t, p, v)
  PROVE  SameShape(t, u)
<1>1. t[p] \in Nodes
  BY DEF Grounded
<1>2. DOMAIN u = DOMAIN t /\ u[p] = [t[p] EXCEPT !.value = v]
      /\ \A q \in DOMAIN t : q # p => u[q] = t[q]
  BY DEF WithValue
<1>3. u[p] \in Nodes /\ u[p].type = t[p].type /\ u[p].names = t[p].names
  BY <1>1, <1>2 DEF Nodes
<1>4. Grounded(u)
  BY <1>2, <1>3 DEF Grounded
<1> QED BY <1>2, <1>3, <1>4 DEF SameShape

-----------------------------------------------------------------------------
(* The stack of pointers.                                                  *)

\* Each pointer is to the last member of the one before.
Chain(cs, t) ==
  \A i \in 3 .. Len(cs) : cs[i] = Append(cs[i - 1], Len(t[cs[i - 1]].names))

\* It leads from the document inwards, the constructor's pointer below it.
Leads(cs, t) ==
  /\ cs \in Seq(Seq(Nat)) /\ Len(cs) >= 1
  /\ \A i \in 1 .. Len(cs) : cs[i] \in DOMAIN t
  /\ cs[1] = << >>
  /\ \A i \in 2 .. Len(cs) : Len(cs[i]) = i - 2
  /\ Chain(cs, t)

LEMMA LastPointer ==
  ASSUME NEW cs, NEW t, Leads(cs, t)
  PROVE  /\ Len(cs) \in Nat /\ Last(cs) = cs[Len(cs)] /\ Last(cs) \in DOMAIN t
         /\ Last(cs) \in Seq(Nat)
         /\ Len(cs) >= 2 => Len(Last(cs)) = Len(cs) - 2 /\ cs[2] = << >>
<1>1. Len(cs) \in Nat /\ Len(cs) >= 1 /\ Last(cs) = cs[Len(cs)]
  BY DEF Leads, Last
<1>0. \A i \in 2 .. Len(cs) : Len(cs[i]) = i - 2
  BY DEF Leads
<1>2. Last(cs) \in DOMAIN t /\ Last(cs) \in Seq(Nat)
  BY <1>1 DEF Leads
<1>3. ASSUME Len(cs) >= 2 PROVE Len(Last(cs)) = Len(cs) - 2 /\ cs[2] = << >>
  <2>1. cs[2] \in Seq(Nat) /\ Len(cs[2]) = 0
    <3>1. 2 \in 2 .. Len(cs) /\ 2 \in 1 .. Len(cs)
      BY <1>1, <1>3
    <3> QED BY <1>0, <3>1 DEF Leads
  <2>2. cs[2] = << >>
    BY <2>1, EmptySeq
  <2>3. Len(cs) \in 2 .. Len(cs)
    BY <1>1, <1>3
  <2> QED BY <1>0, <1>1, <2>2, <2>3
<1> QED BY <1>1, <1>2, <1>3

\* What is done to the node of the last pointer, or to one that is none of them, does
\* not disturb the stack.
LEMMA LeadsSame ==
  ASSUME NEW cs, NEW t, Leads(cs, t), NEW u, DOMAIN t \subseteq DOMAIN u,
         \A i \in 2 .. Len(cs) - 1 : u[cs[i]].names = t[cs[i]].names
  PROVE  Leads(cs, u)
<1>1. Len(cs) \in Nat
  BY DEF Leads
<1>2. ASSUME NEW i \in 3 .. Len(cs) PROVE cs[i] = Append(cs[i - 1], Len(u[cs[i - 1]].names))
  <2>1. i - 1 \in 2 .. Len(cs) - 1
    BY <1>1
  <2>2. u[cs[i - 1]].names = t[cs[i - 1]].names
    BY <2>1
  <2> QED BY <2>2 DEF Leads, Chain
<1> QED BY <1>2 DEF Leads, Chain

LEMMA LeadsPop ==
  ASSUME NEW cs, NEW t, Leads(cs, t), Len(cs) >= 2
  PROVE  /\ Leads(Front(cs), t) /\ Len(Front(cs)) = Len(cs) - 1
         /\ \A i \in 1 .. Len(cs) - 1 : Front(cs)[i] = cs[i]
         /\ Last(Front(cs)) = cs[Len(cs) - 1]
<1>1. Front(cs) = SubSeq(cs, 1, Len(cs) - 1) /\ cs \in Seq(Seq(Nat)) /\ Len(cs) \in Nat
  BY DEF Front, Leads
<1>2. Front(cs) \in Seq(Seq(Nat)) /\ Len(Front(cs)) = Len(cs) - 1
      /\ \A i \in 1 .. Len(cs) - 1 : Front(cs)[i] = cs[i]
  BY <1>1
<1>3. Last(Front(cs)) = cs[Len(cs) - 1]
  BY <1>1, <1>2 DEF Last
<1> DEFINE new == Front(cs)
<1>4. Len(new) = Len(cs) - 1 /\ \A i \in 1 .. Len(cs) - 1 : new[i] = cs[i]
  BY <1>2
<1>5. new \in Seq(Seq(Nat))
  BY <1>2
<1> HIDE DEF new
<1>6. Chain(new, t)
  <2> SUFFICES ASSUME NEW i \in 3 .. Len(new)
               PROVE  new[i] = Append(new[i - 1], Len(t[new[i - 1]].names))
    BY DEF Chain
  <2>1. i \in 1 .. Len(cs) - 1 /\ i - 1 \in 1 .. Len(cs) - 1 /\ i \in 3 .. Len(cs)
    BY <1>1, <1>4
  <2>2. new[i] = cs[i] /\ new[i - 1] = cs[i - 1]
    BY <1>4, <2>1
  <2> QED BY <2>1, <2>2 DEF Leads, Chain
<1>7. \A i \in 1 .. Len(new) : new[i] \in DOMAIN t
  BY <1>1, <1>4 DEF Leads
<1>8. \A i \in 2 .. Len(new) : Len(new[i]) = i - 2
  <2> SUFFICES ASSUME NEW i \in 2 .. Len(new) PROVE Len(new[i]) = i - 2
    OBVIOUS
  <2>1. i \in 1 .. Len(cs) - 1 /\ i \in 2 .. Len(cs)
    BY <1>1, <1>4
  <2>2. new[i] = cs[i] /\ Len(cs[i]) = i - 2
    BY <1>4, <2>1 DEF Leads
  <2> QED BY <2>2
<1>9. new[1] = << >>
  BY <1>1, <1>4 DEF Leads
<1>10. Leads(new, t)
  BY <1>1, <1>4, <1>5, <1>6, <1>7, <1>8, <1>9 DEF Leads
<1> QED BY <1>2, <1>3, <1>10 DEF new

LEMMA LeadsPush ==
  ASSUME NEW cs, NEW t, Leads(cs, t), Len(cs) >= 2,
         NEW p \in DOMAIN t, p = Append(Last(cs), Len(t[Last(cs)].names)),
         Len(t[Last(cs)].names) \in Nat
  PROVE  /\ Leads(Append(cs, p), t) /\ Len(Append(cs, p)) = Len(cs) + 1
         /\ \A i \in 1 .. Len(cs) : Append(cs, p)[i] = cs[i]
         /\ Last(Append(cs, p)) = p
<1>1. Len(cs) \in Nat /\ Last(cs) \in Seq(Nat) /\ Len(Last(cs)) = Len(cs) - 2
      /\ Last(cs) = cs[Len(cs)]
  BY LastPointer
<1>2. p \in Seq(Nat) /\ Len(p) = Len(cs) - 1
  BY <1>1
<1>3. Append(cs, p) \in Seq(Seq(Nat)) /\ Len(Append(cs, p)) = Len(cs) + 1
      /\ Append(cs, p)[Len(cs) + 1] = p
  BY <1>2, SMTT(30) DEF Leads
<1>4. \A i \in 1 .. Len(cs) : Append(cs, p)[i] = cs[i]
  BY DEF Leads
<1> DEFINE new == Append(cs, p)
<1>5. Len(new) = Len(cs) + 1 /\ new \in Seq(Seq(Nat)) /\ new[Len(cs) + 1] = p
      /\ \A i \in 1 .. Len(cs) : new[i] = cs[i]
  BY <1>3, <1>4
<1> HIDE DEF new
<1>6. \A i \in 1 .. Len(new) : new[i] \in DOMAIN t
  <2> SUFFICES ASSUME NEW i \in 1 .. Len(new) PROVE new[i] \in DOMAIN t
    OBVIOUS
  <2>1. i = Len(cs) + 1 \/ i \in 1 .. Len(cs)
    BY <1>1, <1>5
  <2> QED BY <1>5, <2>1 DEF Leads
<1>7. \A i \in 2 .. Len(new) : Len(new[i]) = i - 2
  <2> SUFFICES ASSUME NEW i \in 2 .. Len(new) PROVE Len(new[i]) = i - 2
    OBVIOUS
  <2>1. CASE i = Len(cs) + 1
    BY <1>1, <1>2, <1>5, <2>1
  <2>2. CASE i # Len(cs) + 1
    <3>1. i \in 2 .. Len(cs) /\ i \in 1 .. Len(cs)
      BY <1>1, <1>5, <2>2
    <3> QED BY <1>5, <3>1 DEF Leads
  <2> QED BY <2>1, <2>2
<1>8. \A i \in 3 .. Len(new) : new[i] = Append(new[i - 1], Len(t[new[i - 1]].names))
  <2> SUFFICES ASSUME NEW i \in 3 .. Len(new)
               PROVE  new[i] = Append(new[i - 1], Len(t[new[i - 1]].names))
    OBVIOUS
  <2>1. i - 1 \in 1 .. Len(cs) /\ new[i - 1] = cs[i - 1]
    <3>1. i - 1 \in 1 .. Len(cs)
      BY <1>1, <1>5
    <3> QED BY <1>5, <3>1
  <2>2. CASE i = Len(cs) + 1
    BY <1>1, <1>5, <2>1, <2>2
  <2>3. CASE i # Len(cs) + 1
    <3>1. i \in 3 .. Len(cs) /\ i \in 1 .. Len(cs)
      BY <1>1, <1>5, <2>3
    <3> QED BY <1>5, <2>1, <3>1 DEF Leads, Chain
  <2> QED BY <2>2, <2>3
<1>9. new[1] = << >>
  <2>1. cs[1] = << >>
    BY DEF Leads
  <2>2. 1 \in 1 .. Len(cs)
    BY <1>1
  <2>3. new[1] = cs[1]
    BY <1>5, <2>2
  <2> QED BY <2>1, <2>3
<1>10. Leads(new, t)
  BY <1>1, <1>5, <1>6, <1>7, <1>8, <1>9 DEF Leads, Chain
<1>11. Last(new) = p
  BY <1>1, <1>5 DEF Last
<1> QED BY <1>5, <1>10, <1>11 DEF new

\* The pointers differ, and none of them is to a member of the last one's node.
LEMMA PointersDiffer ==
  ASSUME NEW cs, NEW t, Leads(cs, t), Len(cs) >= 2
  PROVE  /\ \A i \in 2 .. Len(cs) - 1 : cs[i] # Last(cs)
         /\ \A i \in 1 .. Len(cs), k \in Nat : cs[i] # Append(Last(cs), k)
<1>1. Len(cs) \in Nat /\ Last(cs) \in Seq(Nat) /\ Len(Last(cs)) = Len(cs) - 2
  BY LastPointer
<1>2. ASSUME NEW i \in 2 .. Len(cs) - 1 PROVE cs[i] # Last(cs)
  <2>1. Len(cs[i]) = i - 2
    <3>1. i \in 2 .. Len(cs)
      BY <1>1
    <3> QED BY <3>1 DEF Leads
  <2> QED BY <1>1, <2>1
<1>3. ASSUME NEW i \in 1 .. Len(cs), NEW k \in Nat PROVE cs[i] # Append(Last(cs), k)
  <2>1. Len(Append(Last(cs), k)) = Len(cs) - 1
    BY <1>1
  <2>2. CASE i = 1
    <3>1. Len(cs[i]) = 0
      BY <2>2 DEF Leads
    <3> QED BY <1>1, <2>1, <3>1
  <2>3. CASE i # 1
    <3>1. i \in 2 .. Len(cs)
      BY <1>1, <2>3
    <3>2. Len(cs[i]) = i - 2
      BY <3>1 DEF Leads
    <3>3. i - 2 # Len(cs) - 1
      BY <1>1, <3>1
    <3> QED BY <2>1, <3>2, <3>3
  <2> QED BY <2>2, <2>3
<1> QED BY <1>2, <1>3

\* A member is added to the last one's node: no pointer is invalidated.
LEMMA NoneInvalidated ==
  ASSUME NEW cs, NEW t, Leads(cs, t), Len(cs) >= 2
  PROVE  Invalidated(cs, t, Last(cs)) = cs
<1>1. ASSUME NEW i \in DOMAIN cs PROVE cs[i] \notin MembersOf(t, Last(cs))
  <2>1. DOMAIN cs = 1 .. Len(cs)
    BY DEF Leads
  <2>2. \A k \in Nat : cs[i] # Append(Last(cs), k)
    BY <2>1, PointersDiffer
  <2> QED BY <2>2 DEF MembersOf
<1>2. Invalidated(cs, t, Last(cs)) = [i \in DOMAIN cs |-> cs[i]]
  BY <1>1 DEF Invalidated
<1>3. cs = [i \in DOMAIN cs |-> cs[i]]
  BY DEF Leads
<1> QED BY <1>2, <1>3

\* What a new member leaves of the stack, and what it will be when it is pushed.
Grew(t, cs, u, new, type) ==
  /\ Grounded(u) /\ Leads(cs, u)
  /\ Leads(Append(cs, new), u) /\ Len(Append(cs, new)) = Len(cs) + 1
  /\ \A i \in 1 .. Len(cs) : Append(cs, new)[i] = cs[i]
  /\ Last(Append(cs, new)) = new
  /\ new \in DOMAIN u /\ u[new] = Node(type)
  /\ \A i \in 1 .. Len(cs) : u[cs[i]].type = t[cs[i]].type

\* A member is added to the last one's node.
LEMMA EmplaceLeads ==
  ASSUME NEW t, Grounded(t), NEW cs, Leads(cs, t), Len(cs) >= 2,
         NEW name \in Seq(Pieces), NEW type \in Types,
         NEW u, u = emplace_back(t, Last(cs), name, type),
         NEW new, new = NextMember(t, Last(cs))
  PROVE  Grew(t, cs, u, new, type)
<1> DEFINE p == Last(cs)
<1>1. Len(cs) \in Nat /\ p \in DOMAIN t /\ p = cs[Len(cs)]
  BY LastPointer
<1>0. u = emplace_back(t, p, name, type) /\ new = NextMember(t, p)
  OBVIOUS
<1> HIDE DEF p
<1>2. /\ Grounded(u) /\ DOMAIN u = DOMAIN t \cup {new}
      /\ Len(t[p].names) \in Nat
      /\ u[new] = Node(type)
      /\ u[p].type = t[p].type /\ Len(u[p].names) = Len(t[p].names) + 1
      /\ \A q \in DOMAIN t : q # p /\ q # new => u[q] = t[q]
  <2>1. Emplaced(t, p, type, u, new)
    BY <1>0, <1>1, EmplaceTree
  <2> QED BY <2>1 DEF Emplaced
<1>3. \A i \in 2 .. Len(cs) - 1 : cs[i] # p
  BY PointersDiffer DEF p
<1>4. \A i \in 1 .. Len(cs) : cs[i] # new /\ cs[i] \in DOMAIN t
  <2>1. Len(t[p].names) + 1 \in Nat
    BY <1>2
  <2>2. \A i \in 1 .. Len(cs) : cs[i] # new
    BY <1>0, <2>1, PointersDiffer DEF p, NextMember
  <2> QED BY <2>2 DEF Leads
<1>5. \A i \in 1 .. Len(cs) : u[cs[i]].type = t[cs[i]].type
  BY <1>2, <1>4
<1>6. \A i \in 2 .. Len(cs) - 1 : u[cs[i]].names = t[cs[i]].names
  <2> SUFFICES ASSUME NEW i \in 2 .. Len(cs) - 1 PROVE u[cs[i]].names = t[cs[i]].names
    OBVIOUS
  <2>1. i \in 1 .. Len(cs)
    BY <1>1
  <2> QED BY <1>2, <1>3, <1>4, <2>1
<1>7. Leads(cs, u)
  BY <1>2, <1>6, LeadsSame
<1>8. new = Append(Last(cs), Len(u[Last(cs)].names)) /\ Len(u[Last(cs)].names) \in Nat
      /\ new \in DOMAIN u
  BY <1>0, <1>2 DEF p, NextMember
<1>9. /\ Leads(Append(cs, new), u) /\ Len(Append(cs, new)) = Len(cs) + 1
      /\ \A i \in 1 .. Len(cs) : Append(cs, new)[i] = cs[i]
      /\ Last(Append(cs, new)) = new
  BY <1>7, <1>8, LeadsPush
<1> QED BY <1>2, <1>5, <1>7, <1>8, <1>9 DEF Grew

Changed(t, cs, u, type) ==
  /\ Grounded(u) /\ Leads(cs, u) /\ DOMAIN u = DOMAIN t
  /\ u[Last(cs)].type = type
  /\ \A i \in 2 .. Len(cs) - 1 : u[cs[i]].type = t[cs[i]].type
  /\ Len(cs) >= 3 => u[<< >>].type = t[<< >>].type

\* The last one's node gets another type.
LEMMA MorphLeads ==
  ASSUME NEW t, Grounded(t), NEW cs, Leads(cs, t), Len(cs) >= 2, NEW type \in Types,
         NEW u, u = morph_to(t, Last(cs), type)
  PROVE  Changed(t, cs, u, type)
<1> DEFINE p == Last(cs)
<1>1. Len(cs) \in Nat /\ p \in DOMAIN t /\ Len(p) = Len(cs) - 2
  BY LastPointer
<1>2. /\ Grounded(u) /\ DOMAIN u = DOMAIN t /\ u[p] = Node(type)
      /\ \A q \in DOMAIN t : q # p => u[q] = t[q]
  BY <1>1, MorphTree
<1>3. \A i \in 2 .. Len(cs) - 1 : cs[i] # p
  BY PointersDiffer
<1>4. u[p].type = type
  BY <1>2, NodeIsNode
<1> HIDE DEF p
<1>5. \A i \in 2 .. Len(cs) - 1 : u[cs[i]] = t[cs[i]]
  <2> SUFFICES ASSUME NEW i \in 2 .. Len(cs) - 1 PROVE u[cs[i]] = t[cs[i]]
    OBVIOUS
  <2>1. i \in 1 .. Len(cs)
    BY <1>1
  <2>2. cs[i] \in DOMAIN t
    BY <2>1 DEF Leads
  <2> QED BY <1>2, <1>3, <2>2
<1>6. Leads(cs, u)
  BY <1>2, <1>5, LeadsSame
<1>7. ASSUME Len(cs) >= 3 PROVE u[<< >>].type = t[<< >>].type
  <2>1. p # << >>
    BY <1>1, <1>7
  <2>2. << >> \in DOMAIN t
    <3>1. 1 \in 1 .. Len(cs)
      BY <1>1, <1>7
    <3> QED BY <3>1 DEF Leads
  <2> QED BY <1>2, <2>1, <2>2
<1> QED BY <1>2, <1>4, <1>5, <1>6, <1>7 DEF p, Changed

-----------------------------------------------------------------------------
(* The frames of the parser.                                               *)

FrameNames == {"root", "done", "array", "object", "property", "string", "key"}

\* Only an array or object has something begun in it, and a key is in an object.
Nested(fs) ==
  /\ fs \in Seq(FrameNames) /\ Len(fs) >= 1
  /\ fs[1] \in {"root", "done"} /\ (fs[1] = "root" => Len(fs) = 1)
  /\ \A i \in 2 .. Len(fs) : fs[i] \in FrameNames \ {"root", "done"}
  /\ \A i \in 2 .. Len(fs) - 1 : fs[i] \in {"array", "object"}
  /\ fs[Len(fs)] = "key" => Len(fs) >= 3 /\ fs[Len(fs) - 1] = "object"

LEMMA TwoOrMore ==
  ASSUME NEW n \in Nat, n >= 1, n # 1
  PROVE  n >= 2 /\ n \in 2 .. n
OBVIOUS

LEMMA LastFrame ==
  ASSUME NEW fs, Nested(fs)
  PROVE  /\ Len(fs) \in Nat /\ Len(fs) >= 1 /\ Last(fs) = fs[Len(fs)]
         /\ Last(fs) \in {"root", "done"} => Len(fs) = 1
         /\ Last(fs) \notin {"root", "done"} => Len(fs) >= 2 /\ fs[1] = "done"
         /\ fs # P!Stopped
<1>1. Len(fs) \in Nat /\ Len(fs) >= 1 /\ Last(fs) = fs[Len(fs)]
  BY DEF Nested, Last
<1>2. ASSUME Len(fs) # 1 PROVE Last(fs) \notin {"root", "done"}
  <2>1. Len(fs) \in 2 .. Len(fs)
    BY <1>1, <1>2, TwoOrMore
  <2> QED BY <1>1, <2>1 DEF Nested
<1>3. ASSUME Len(fs) = 1 PROVE Last(fs) \in {"root", "done"}
  BY <1>1, <1>3 DEF Nested
<1>4. ASSUME Last(fs) \notin {"root", "done"} PROVE fs[1] = "done"
  BY <1>1, <1>3, <1>4 DEF Nested
<1>5. fs # P!Stopped
  BY DEF Nested, P!Stopped
<1> QED BY <1>1, <1>2, <1>3, <1>4, <1>5

Pushed(fs, f, gs) ==
  /\ Nested(gs) /\ Len(gs) = Len(fs) + 1 /\ gs[Len(fs) + 1] = f /\ Last(gs) = f
  /\ \A i \in 1 .. Len(fs) : gs[i] = fs[i]

LEMMA NestedPush ==
  ASSUME NEW fs, Nested(fs), NEW f,
         \/ Last(fs) \in {"done", "array", "object"} /\ f \in {"array", "object", "string"}
         \/ Last(fs) = "object" /\ f = "key",
         NEW gs, gs = Append(fs, f)
  PROVE  Pushed(fs, f, gs)
<1>1. Len(fs) \in Nat /\ Len(fs) >= 1 /\ Last(fs) = fs[Len(fs)]
      /\ (Last(fs) = "object" => Len(fs) >= 2)
  BY LastFrame
<1>2. /\ gs \in Seq(FrameNames) /\ Len(gs) = Len(fs) + 1 /\ gs[Len(fs) + 1] = f
      /\ \A i \in 1 .. Len(fs) : gs[i] = fs[i]
  BY DEF Nested, FrameNames
<1>3. gs[1] = "done"
  <2>1. CASE Last(fs) = "done"
    BY <1>1, <1>2, <2>1, LastFrame
  <2>2. CASE Last(fs) # "done"
    BY <1>1, <1>2, <2>2, LastFrame
  <2> QED BY <2>1, <2>2
<1>4. \A i \in 2 .. Len(gs) - 1 : gs[i] \in {"array", "object"}
  <2> SUFFICES ASSUME NEW i \in 2 .. Len(fs) PROVE fs[i] \in {"array", "object"}
    BY <1>1, <1>2
  <2>1. CASE i = Len(fs)
    <3>1. fs[i] \notin {"root", "done"}
      BY DEF Nested
    <3> QED BY <1>1, <2>1, <3>1
  <2>2. CASE i # Len(fs)
    BY <1>1, <2>2 DEF Nested
  <2> QED BY <2>1, <2>2
<1>5. \A i \in 2 .. Len(gs) : gs[i] \in FrameNames \ {"root", "done"}
  <2> SUFFICES ASSUME NEW i \in 2 .. Len(gs) PROVE gs[i] \in FrameNames \ {"root", "done"}
    OBVIOUS
  <2>1. CASE i = Len(gs)
    BY <1>2, <2>1 DEF FrameNames
  <2>2. CASE i # Len(gs)
    BY <1>1, <1>2, <1>4, <2>2 DEF FrameNames
  <2> QED BY <2>1, <2>2
<1>6. gs[Len(gs)] = "key" => Len(gs) >= 3 /\ gs[Len(gs) - 1] = "object"
  BY <1>1, <1>2
<1>7. Nested(gs)
  BY <1>1, <1>2, <1>3, <1>4, <1>5, <1>6 DEF Nested
<1> QED BY <1>1, <1>2, <1>7 DEF Last, Pushed

LEMMA NestedBecome ==
  ASSUME NEW fs, Nested(fs), NEW g,
         \/ Last(fs) = "root" /\ g = "done"
         \/ Last(fs) \notin {"root", "done"} /\ g \in {"array", "object", "property"},
         NEW gs, gs = P!WithLast(fs, g)
  PROVE  /\ Nested(gs) /\ Len(gs) = Len(fs) /\ gs[Len(fs)] = g /\ Last(gs) = g
         /\ \A i \in 1 .. Len(fs) - 1 : gs[i] = fs[i]
<1>1. Len(fs) \in Nat /\ Len(fs) >= 1
      /\ (Last(fs) = "root" => Len(fs) = 1)
      /\ (Last(fs) \notin {"root", "done"} => Len(fs) >= 2 /\ fs[1] = "done")
  BY LastFrame
<1>2. /\ gs \in Seq(FrameNames) /\ Len(gs) = Len(fs) /\ gs[Len(fs)] = g
      /\ \A i \in 1 .. Len(fs) - 1 : gs[i] = fs[i]
  BY DEF Nested, P!WithLast, FrameNames
<1>3. gs[1] = "done"
  BY <1>1, <1>2
<1>4. \A i \in 2 .. Len(gs) - 1 : gs[i] \in {"array", "object"}
  BY <1>1, <1>2 DEF Nested
<1>5. \A i \in 2 .. Len(gs) : gs[i] \in FrameNames \ {"root", "done"}
  <2> SUFFICES ASSUME NEW i \in 2 .. Len(gs) PROVE gs[i] \in FrameNames \ {"root", "done"}
    OBVIOUS
  <2>1. CASE i = Len(gs)
    BY <1>1, <1>2, <2>1 DEF FrameNames
  <2>2. CASE i # Len(gs)
    BY <1>1, <1>2, <1>4, <2>2 DEF FrameNames
  <2> QED BY <2>1, <2>2
<1>6. gs[Len(gs)] # "key"
  BY <1>2
<1>7. Nested(gs)
  BY <1>1, <1>2, <1>3, <1>4, <1>5, <1>6 DEF Nested
<1> QED BY <1>1, <1>2, <1>7 DEF Last

LEMMA NestedPop ==
  ASSUME NEW fs, Nested(fs), Len(fs) >= 2,
         NEW gs, gs = Front(fs)
  PROVE  /\ Nested(gs) /\ Len(gs) = Len(fs) - 1 /\ Last(gs) \in {"done", "array", "object"}
         /\ Last(fs) = "key" => Last(gs) = "object"
         /\ \A i \in 1 .. Len(fs) - 1 : gs[i] = fs[i]
<1>1. Len(fs) \in Nat /\ Last(fs) = fs[Len(fs)] /\ gs = SubSeq(fs, 1, Len(fs) - 1)
  BY LastFrame DEF Front
<1>2. /\ gs \in Seq(FrameNames) /\ Len(gs) = Len(fs) - 1
      /\ \A i \in 1 .. Len(fs) - 1 : gs[i] = fs[i]
  BY <1>1 DEF Nested
<1>3. gs[1] = "done"
  BY <1>1, <1>2 DEF Nested
<1>4. \A i \in 2 .. Len(gs) : gs[i] \in {"array", "object"}
  BY <1>1, <1>2 DEF Nested
<1>5. Len(gs) \in Nat /\ Len(gs) >= 1 /\ Last(gs) = gs[Len(gs)]
  BY <1>1, <1>2 DEF Last
<1>6. Last(gs) \in {"done", "array", "object"}
  <2>1. CASE Len(gs) = 1
    BY <1>3, <1>5, <2>1
  <2>2. CASE Len(gs) # 1
    <3>1. Len(gs) \in 2 .. Len(gs)
      BY <1>5, <2>2, TwoOrMore
    <3> QED BY <1>4, <1>5, <3>1
  <2> QED BY <2>1, <2>2
<1>7. Last(fs) = "key" => Last(gs) = "object"
  BY <1>1, <1>2, <1>5 DEF Nested
<1>8. Nested(gs)
  BY <1>2, <1>3, <1>4, <1>5, <1>6 DEF Nested, FrameNames
<1> QED BY <1>2, <1>6, <1>7, <1>8

-----------------------------------------------------------------------------
(* The inductive invariant.                                                *)

Kind == [array |-> "Array", object |-> "Object", property |-> "Object", string |-> "String"]

LEMMA KindOf ==
  /\ Kind["array"] = "Array" /\ Kind["object"] = "Object"
  /\ Kind["property"] = "Object" /\ Kind["string"] = "String"
BY DEF Kind

\* The types of the items from the document inwards are those of the frames.
TypesMatch(fs, cs, t) ==
  \A i \in 2 .. Len(fs) : fs[i] # "key" => t[cs[i]].type = Kind[fs[i]]

\* The stack of pointers and the frames are of the same document.
Match(fs, cs, t) ==
  /\ Len(cs) = PointersAt(fs)
  /\ TypesMatch(fs, cs, t)
  /\ Last(fs) = "property" => t[Last(cs)].type = "Null"
  /\ t[<< >>].type = "Null" <=> fs[1] = "root"

Sound == Grounded(item_) /\ lastString_ \in Seq(Pieces) /\ Leads(current_item_, item_)

InStep == frames # P!Stopped => Nested(frames) /\ Match(frames, current_item_, item_)

IInv == Sound /\ InStep

\* What each frame means for the stack of pointers.
LEMMA WhereItIs ==
  ASSUME IInv, frames # P!Stopped
  PROVE  /\ Nested(frames) /\ Len(frames) \in Nat /\ Len(current_item_) \in Nat
         /\ Back \in DOMAIN item_
         /\ Last(frames) = "root" =>
              Len(frames) = 1 /\ Len(current_item_) = 1 /\ AtRoot /\ Back = << >>
         /\ Last(frames) = "done" =>
              Len(frames) = 1 /\ Len(current_item_) = 1 /\ ~AtRoot /\ Back = << >>
         /\ Last(frames) \in {"array", "object", "string"} =>
              /\ Len(frames) >= 2 /\ Len(current_item_) = Len(frames)
              /\ ~AtRoot /\ Type(item_, Back) = Kind[Last(frames)]
         /\ Last(frames) = "property" =>
              /\ Len(frames) >= 2 /\ Len(current_item_) = Len(frames) + 1
              /\ ~AtRoot /\ Type(item_, Back) = "Null"
         /\ Last(frames) = "key" =>
              /\ Len(frames) >= 3 /\ Len(current_item_) = Len(frames) - 1
              /\ ~AtRoot /\ Type(item_, Back) = "Object"
<1>1. /\ Nested(frames) /\ Leads(current_item_, item_)
      /\ Len(current_item_) = PointersAt(frames) /\ TypesMatch(frames, current_item_, item_)
      /\ (Last(frames) = "property" => Type(item_, Back) = "Null")
      /\ (AtRoot <=> frames[1] = "root")
  BY DEF IInv, Sound, InStep, Match, Type, Back, AtRoot
<1>2. /\ Len(frames) \in Nat /\ Len(frames) >= 1 /\ Last(frames) = frames[Len(frames)]
      /\ (Last(frames) \in {"root", "done"} => Len(frames) = 1)
      /\ (Last(frames) \notin {"root", "done"} => Len(frames) >= 2 /\ frames[1] = "done")
  BY <1>1, LastFrame
<1>3. /\ Len(current_item_) \in Nat /\ Back = current_item_[Len(current_item_)]
      /\ Back \in DOMAIN item_
  BY <1>1, LastPointer DEF Back
<1>4. Last(frames) \in {"root", "done"} =>
        Len(frames) = 1 /\ Len(current_item_) = 1 /\ Back = << >>
  <2>1. current_item_[1] = << >>
    BY <1>1 DEF Leads
  <2> QED BY <1>1, <1>2, <1>3, <2>1 DEF PointersAt
<1>5. (Last(frames) = "root" => AtRoot) /\ (Last(frames) # "root" => ~AtRoot)
  BY <1>1, <1>2
<1>6. ASSUME Last(frames) \in {"array", "object", "string"}
      PROVE  /\ Len(frames) >= 2 /\ Len(current_item_) = Len(frames)
             /\ Type(item_, Back) = Kind[Last(frames)]
  <2>1. Len(frames) >= 2 /\ Len(current_item_) = Len(frames)
    BY <1>1, <1>2, <1>6 DEF PointersAt
  <2>2. Len(frames) \in 2 .. Len(frames)
    BY <1>2, <2>1
  <2> QED BY <1>1, <1>2, <1>3, <1>6, <2>1, <2>2 DEF TypesMatch, Type
<1>7. ASSUME Last(frames) = "key"
      PROVE  /\ Len(frames) >= 3 /\ Len(current_item_) = Len(frames) - 1
             /\ Type(item_, Back) = "Object"
  <2>1. Len(frames) >= 3 /\ frames[Len(frames) - 1] = "object"
    BY <1>1, <1>2, <1>7 DEF Nested
  <2>2. Len(current_item_) = Len(frames) - 1
    BY <1>1, <1>7 DEF PointersAt
  <2>3. Len(frames) - 1 \in 2 .. Len(frames)
    BY <1>2, <2>1
  <2>4. Type(item_, Back) = Kind["object"]
    BY <1>1, <1>3, <2>1, <2>2, <2>3 DEF TypesMatch, Type
  <2> QED BY <2>1, <2>2, <2>4, KindOf
<1>8. Last(frames) = "property" =>
        Len(frames) >= 2 /\ Len(current_item_) = Len(frames) + 1 /\ Type(item_, Back) = "Null"
  BY <1>1, <1>2 DEF PointersAt
<1> QED BY <1>1, <1>2, <1>3, <1>4, <1>5, <1>6, <1>7, <1>8

-----------------------------------------------------------------------------
(* The steps.                                                              *)

\* An array, object or string begins.
LEMMA BeginStep ==
  ASSUME IInv, frames # P!Stopped, Last(frames) \in {"root", "array", "property"},
         NEW f \in {"array", "object", "string"}, NEW type, type = Kind[f],
         frames' = Append(P!WithLast(frames, P!Valued(Last(frames))), f),
         begin(type)
  PROVE  IInv'
<1> DEFINE fs == P!WithLast(frames, P!Valued(Last(frames)))
<1>1. /\ Nested(frames) /\ Len(frames) \in Nat /\ Len(current_item_) \in Nat
      /\ Grounded(item_) /\ Leads(current_item_, item_) /\ lastString_ \in Seq(Pieces)
      /\ TypesMatch(frames, current_item_, item_)
  BY WhereItIs DEF IInv, Sound, InStep, Match
<1>2. type \in Types /\ type # "Null"
  BY KindOf DEF Types
<1>3. P!Valued(Last(frames)) = CASE Last(frames) = "root" -> "done"
                                 [] Last(frames) = "array" -> "array"
                                 [] Last(frames) = "property" -> "object"
  BY DEF P!Valued
<1>4. /\ Nested(fs) /\ Len(fs) = Len(frames) /\ Last(fs) = P!Valued(Last(frames))
      /\ fs[Len(frames)] = P!Valued(Last(frames))
      /\ \A i \in 1 .. Len(frames) - 1 : fs[i] = frames[i]
  BY <1>1, <1>3, NestedBecome
<1>5. /\ Nested(frames') /\ Len(frames') = Len(frames) + 1 /\ Last(frames') = f
      /\ frames'[Len(frames) + 1] = f
      /\ \A i \in 1 .. Len(frames) : frames'[i] = fs[i]
  <2>1. Last(fs) \in {"done", "array", "object"}
    BY <1>3, <1>4
  <2> HIDE DEF fs
  <2>2. frames' = Append(fs, f)
    BY DEF fs
  <2>3. Pushed(fs, f, frames')
    BY <1>4, <2>1, <2>2, NestedPush
  <2> QED BY <1>4, <2>3 DEF Pushed
<1>6. lastString_' \in Seq(Pieces)
  BY <1>1 DEF begin
<1>7. Len(frames') = PointersAt(frames')
  BY <1>5 DEF PointersAt
<1>8. frames'[1] = "done"
  BY <1>5, LastFrame
<1> HIDE DEF fs
<1>9. CASE Last(frames) = "root"
  <2>1. Len(frames) = 1 /\ Len(current_item_) = 1 /\ AtRoot
    BY <1>9, WhereItIs
  <2>2. item_' = morph_to(item_, << >>, type) /\ current_item_' = Append(current_item_, << >>)
    BY <2>1 DEF begin, Morph
  <2>3. << >> \in DOMAIN item_ /\ current_item_[1] = << >>
    BY <1>1, <2>1 DEF Leads
  <2>4. Grounded(item_') /\ item_'[<< >>] = Node(type) /\ DOMAIN item_' = DOMAIN item_
    BY <1>1, <1>2, <2>2, <2>3, MorphTree
  <2>5. item_'[<< >>].type = type
    BY <1>2, <2>4, NodeIsNode
  <2>6. /\ current_item_' \in Seq(Seq(Nat)) /\ Len(current_item_') = 2
        /\ current_item_'[1] = << >> /\ current_item_'[2] = << >>
    <3>1. << >> \in Seq(Nat) /\ current_item_ \in Seq(Seq(Nat))
      BY <1>1, EmptySeq DEF Leads
    <3> DEFINE e == << >>
    <3>2. current_item_' = Append(current_item_, e) /\ e \in Seq(Nat) /\ current_item_[1] = e
      BY <2>2, <2>3, <3>1
    <3> HIDE DEF e
    <3>3. /\ current_item_' \in Seq(Seq(Nat)) /\ Len(current_item_') = 2
          /\ current_item_'[1] = e /\ current_item_'[2] = e
      <4>1. /\ Append(current_item_, e) \in Seq(Seq(Nat))
            /\ Len(Append(current_item_, e)) = Len(current_item_) + 1
            /\ \A i \in 1 .. Len(current_item_) : Append(current_item_, e)[i] = current_item_[i]
            /\ Append(current_item_, e)[Len(current_item_) + 1] = e
        BY <3>1, <3>2, AppendProperties
      <4> QED BY <2>1, <3>2, <4>1
    <3> QED BY <3>3 DEF e
  <2>7. \A i \in 1 .. 2 : current_item_'[i] = << >>
    BY <2>6
  <2>8. Leads(current_item_', item_')
    <3>1. Chain(current_item_', item_')
      BY <2>6 DEF Chain
    <3>2. \A i \in 2 .. 2 : Len(current_item_'[i]) = i - 2
      BY <2>6
    <3> QED BY <2>3, <2>4, <2>6, <2>7, <3>1, <3>2 DEF Leads
  <2>9. TypesMatch(frames', current_item_', item_')
    BY <1>5, <2>1, <2>5, <2>7 DEF TypesMatch
  <2> QED BY <1>2, <1>5, <1>6, <1>7, <1>8, <2>1, <2>4, <2>5, <2>6, <2>8, <2>9
          DEF IInv, Sound, InStep, Match
<1>10. CASE Last(frames) = "array"
  <2>1. /\ Len(frames) >= 2 /\ Len(current_item_) = Len(frames)
        /\ ~AtRoot /\ Type(item_, Back) = "Array"
    BY <1>10, WhereItIs, KindOf
  <2>2. item_' = emplace_back(item_, Back, NoName, type) /\ current_item_' = Append(Kept, Added)
    BY <2>1 DEF begin, Emplace, BackIs
  <2>3. Kept = current_item_ /\ Added = NextMember(item_, Back)
    BY <1>1, <2>1, NoneInvalidated DEF Kept, Added, NextMember, Back
  <2>4. NoName \in Seq(Pieces)
    BY EmptySeq DEF NoName
  <2>5. /\ Grounded(item_') /\ Leads(current_item_', item_')
        /\ Len(current_item_') = Len(current_item_) + 1
        /\ \A i \in 1 .. Len(current_item_) : current_item_'[i] = current_item_[i]
        /\ Last(current_item_') = Added /\ item_'[Added] = Node(type)
        /\ \A i \in 1 .. Len(current_item_) :
              item_'[current_item_[i]].type = item_[current_item_[i]].type
    <3>1. Grew(item_, current_item_, item_', Added, type)
      BY <1>1, <1>2, <2>1, <2>2, <2>3, <2>4, EmplaceLeads DEF Back
    <3> QED BY <2>2, <2>3, <3>1 DEF Grew
  <2>6. item_'[Added].type = type
    BY <1>2, <2>5, NodeIsNode
  <2>7. TypesMatch(frames', current_item_', item_')
    <3> SUFFICES ASSUME NEW i \in 2 .. Len(frames), frames'[i] # "key"
                 PROVE  item_'[current_item_[i]].type = Kind[frames'[i]]
      <4>1. current_item_'[Len(frames) + 1] = Added
        BY <2>1, <2>5 DEF Last
      <4> QED BY <1>1, <1>5, <2>1, <2>5, <2>6, <4>1 DEF TypesMatch
    <3>1. frames'[i] = frames[i]
      BY <1>1, <1>3, <1>4, <1>5, <1>10, LastFrame
    <3> QED BY <1>1, <2>1, <2>5, <3>1 DEF TypesMatch
  <2>8. item_'[<< >>].type # "Null"
    <3>1. 1 \in 1 .. Len(current_item_) /\ current_item_[1] = << >>
      BY <1>1, <2>1 DEF Leads
    <3> QED BY <2>1, <2>5, <3>1 DEF AtRoot, Type
  <2> QED BY <1>5, <1>6, <1>7, <1>8, <2>1, <2>5, <2>7, <2>8 DEF IInv, Sound, InStep, Match
<1>11. CASE Last(frames) = "property"
  <2>1. /\ Len(frames) >= 2 /\ Len(current_item_) = Len(frames) + 1
        /\ ~AtRoot /\ Type(item_, Back) = "Null"
    BY <1>11, WhereItIs
  <2>2. item_' = morph_to(item_, Back, type) /\ current_item_' = current_item_
    BY <2>1 DEF begin, Morph, BackIs
  <2>3. /\ Grounded(item_') /\ Leads(current_item_', item_')
        /\ item_'[Back].type = type
        /\ \A i \in 2 .. Len(frames) :
              item_'[current_item_[i]].type = item_[current_item_[i]].type
        /\ item_'[<< >>].type = item_[<< >>].type
    <3>1. Changed(item_, current_item_, item_', type)
      BY <1>1, <1>2, <2>1, <2>2, MorphLeads DEF Back
    <3> QED BY <1>1, <2>1, <2>2, <3>1 DEF Changed, Back
  <2>4. TypesMatch(frames', current_item_', item_')
    <3> SUFFICES ASSUME NEW i \in 2 .. Len(frames), frames'[i] # "key"
                 PROVE  item_'[current_item_[i]].type = Kind[frames'[i]]
      <4>1. Back = current_item_[Len(frames) + 1]
        BY <2>1 DEF Back, Last
      <4> QED BY <1>1, <1>5, <2>1, <2>2, <2>3, <4>1 DEF TypesMatch
    <3>1. frames[i] # "key" /\ Kind[frames'[i]] = Kind[frames[i]]
      <4>1. CASE i = Len(frames)
        <5>1. frames[i] = "property" /\ frames'[i] = "object"
          BY <1>1, <1>3, <1>4, <1>5, <1>11, <2>1, <4>1, LastFrame
        <5> QED BY <5>1, KindOf
      <4>2. CASE i # Len(frames)
        BY <1>1, <1>4, <1>5, <4>2
      <4> QED BY <4>1, <4>2
    <3> QED BY <1>1, <2>3, <3>1 DEF TypesMatch
  <2>5. item_'[<< >>].type # "Null"
    BY <2>1, <2>3 DEF AtRoot, Type
  <2> QED BY <1>5, <1>6, <1>7, <1>8, <2>1, <2>2, <2>3, <2>4, <2>5 DEF IInv, Sound, InStep, Match
<1> QED BY <1>9, <1>10, <1>11

\* An array, object or string ends.
LEMMA EndStep ==
  ASSUME IInv, frames # P!Stopped, Last(frames) \in {"array", "object", "string"},
         frames' = Front(frames), current_item_' = Front(current_item_),
         UNCHANGED << item_, lastString_ >>
  PROVE  IInv'
<1>1. /\ Nested(frames) /\ Len(frames) \in Nat /\ Len(current_item_) \in Nat
      /\ Grounded(item_) /\ Leads(current_item_, item_) /\ lastString_ \in Seq(Pieces)
      /\ TypesMatch(frames, current_item_, item_)
      /\ Len(frames) >= 2 /\ Len(current_item_) = Len(frames)
      /\ item_[<< >>].type # "Null"
  BY WhereItIs DEF IInv, Sound, InStep, Match, AtRoot, Type
<1>2. /\ Nested(frames') /\ Len(frames') = Len(frames) - 1
      /\ Last(frames') \in {"done", "array", "object"}
      /\ \A i \in 1 .. Len(frames) - 1 : frames'[i] = frames[i]
  BY <1>1, NestedPop
<1>3. /\ Leads(current_item_', item_) /\ Len(current_item_') = Len(current_item_) - 1
      /\ \A i \in 1 .. Len(current_item_) - 1 : current_item_'[i] = current_item_[i]
  BY <1>1, LeadsPop
<1>4. Len(current_item_') = PointersAt(frames')
  BY <1>1, <1>2, <1>3 DEF PointersAt
<1>5. TypesMatch(frames', current_item_', item_)
  <2> SUFFICES ASSUME NEW i \in 2 .. Len(frames'), frames'[i] # "key"
               PROVE  item_[current_item_'[i]].type = Kind[frames'[i]]
    BY DEF TypesMatch
  <2>1. i \in 1 .. Len(frames) - 1 /\ i \in 2 .. Len(frames)
    BY <1>1, <1>2
  <2>2. frames'[i] = frames[i] /\ current_item_'[i] = current_item_[i]
    BY <1>1, <1>2, <1>3, <2>1
  <2> QED BY <1>1, <2>1, <2>2 DEF TypesMatch
<1>6. frames'[1] # "root"
  <2>1. 1 \in 1 .. Len(frames) - 1
    BY <1>1
  <2>2. frames[1] # "root"
    BY <1>1 DEF Nested
  <2> QED BY <1>2, <2>1, <2>2
<1> QED BY <1>1, <1>2, <1>3, <1>4, <1>5, <1>6 DEF IInv, Sound, InStep, Match

\* The types of the first n nodes stay.
TypesStay(n, cs, t, u) ==
  /\ \A i \in 2 .. n : u[cs[i]].type = t[cs[i]].type
  /\ u[<< >>].type = t[<< >>].type

\* A scalar is the next element, or the value of the property that was pushed.
LEMMA ValueStep ==
  ASSUME IInv, frames # P!Stopped, Last(frames) \in {"array", "property"},
         frames' = P!WithLast(frames, P!Valued(Last(frames))),
         Grounded(item_'), Leads(current_item_, item_'), UNCHANGED lastString_,
         Last(frames) = "array" => current_item_' = current_item_,
         Last(frames) = "property" => current_item_' = Front(current_item_),
         TypesStay(Len(frames), current_item_, item_, item_')
  PROVE  IInv'
<1>1. /\ Nested(frames) /\ Len(frames) \in Nat /\ Len(current_item_) \in Nat
      /\ lastString_ \in Seq(Pieces)
      /\ TypesMatch(frames, current_item_, item_)
      /\ Len(frames) >= 2
      /\ item_[<< >>].type # "Null"
      /\ (Last(frames) = "array" => Len(current_item_) = Len(frames))
      /\ (Last(frames) = "property" => Len(current_item_) = Len(frames) + 1)
      /\ item_'[<< >>].type # "Null"
      /\ \A i \in 2 .. Len(frames) :
            item_'[current_item_[i]].type = item_[current_item_[i]].type
  BY WhereItIs DEF IInv, Sound, InStep, Match, AtRoot, Type, TypesStay
<1>2. P!Valued(Last(frames)) = IF Last(frames) = "array" THEN "array" ELSE "object"
  BY DEF P!Valued
<1>3. /\ Nested(frames') /\ Len(frames') = Len(frames)
      /\ Last(frames') = P!Valued(Last(frames))
      /\ frames'[Len(frames)] = P!Valued(Last(frames))
      /\ \A i \in 1 .. Len(frames) - 1 : frames'[i] = frames[i]
  BY <1>1, <1>2, NestedBecome
<1>4. /\ Leads(current_item_', item_') /\ Len(current_item_') = Len(frames)
      /\ \A i \in 1 .. Len(frames) : current_item_'[i] = current_item_[i]
  <2>1. CASE Last(frames) = "array"
    BY <1>1, <2>1
  <2>2. CASE Last(frames) = "property"
    <3>1. current_item_' = Front(current_item_) /\ Len(current_item_) >= 2
      BY <1>1, <2>2
    <3>2. /\ Leads(Front(current_item_), item_')
          /\ Len(Front(current_item_)) = Len(current_item_) - 1
          /\ \A i \in 1 .. Len(current_item_) - 1 : Front(current_item_)[i] = current_item_[i]
      BY <3>1, LeadsPop
    <3> QED BY <1>1, <2>2, <3>1, <3>2
  <2> QED BY <2>1, <2>2
<1>5. Len(current_item_') = PointersAt(frames')
  BY <1>2, <1>3, <1>4 DEF PointersAt
<1>6. TypesMatch(frames', current_item_', item_')
  <2> SUFFICES ASSUME NEW i \in 2 .. Len(frames), frames'[i] # "key"
               PROVE  item_'[current_item_[i]].type = Kind[frames'[i]]
    BY <1>1, <1>3, <1>4 DEF TypesMatch
  <2>1. frames[i] # "key" /\ Kind[frames'[i]] = Kind[frames[i]]
    <3>1. CASE i = Len(frames)
      <4>1. frames[i] = Last(frames) /\ frames'[i] = P!Valued(Last(frames))
        BY <1>1, <1>3, <3>1, LastFrame
      <4> QED BY <1>2, <4>1, KindOf
    <3>2. CASE i # Len(frames)
      BY <1>1, <1>3, <3>2
    <3> QED BY <3>1, <3>2
  <2> QED BY <1>1, <2>1 DEF TypesMatch
<1>7. frames'[1] # "root"
  <2>1. 1 \in 1 .. Len(frames) - 1 /\ frames[1] # "root"
    BY <1>1 DEF Nested
  <2> QED BY <1>3, <2>1
<1> QED BY <1>1, <1>2, <1>3, <1>4, <1>5, <1>6, <1>7 DEF IInv, Sound, InStep, Match

\* A piece of a string or of a name.
LEMMA ContentStep ==
  ASSUME IInv, frames # P!Stopped, frames' = frames, UNCHANGED current_item_,
         Grounded(item_'), Leads(current_item_, item_'), lastString_' \in Seq(Pieces),
         DOMAIN item_' = DOMAIN item_,
         \A q \in DOMAIN item_ : item_'[q].type = item_[q].type
  PROVE  IInv'
<1>1. /\ Nested(frames) /\ Leads(current_item_, item_)
      /\ Match(frames, current_item_, item_)
  BY DEF IInv, Sound, InStep
<1>2. /\ Len(current_item_) \in Nat /\ Len(current_item_) >= 1
      /\ Len(current_item_) = PointersAt(frames)
      /\ \A i \in 1 .. Len(current_item_) : current_item_[i] \in DOMAIN item_
  BY <1>1 DEF Leads, Match
<1>3. Last(current_item_) \in DOMAIN item_ /\ << >> \in DOMAIN item_
  <2>1. 1 \in 1 .. Len(current_item_) /\ current_item_[1] = << >>
    BY <1>1, <1>2 DEF Leads
  <2> QED BY <1>1, <1>2, <2>1, LastPointer
<1>4. TypesMatch(frames, current_item_, item_')
  <2> SUFFICES ASSUME NEW i \in 2 .. Len(frames), frames[i] # "key"
               PROVE  item_'[current_item_[i]].type = Kind[frames[i]]
    BY DEF TypesMatch
  <2>1. i \in 1 .. Len(current_item_)
    <3>1. i # Len(frames) \/ Last(frames) # "key"
      BY <1>1, LastFrame
    <3>2. Len(frames) \in Nat
      BY <1>1, LastFrame
    <3> QED BY <1>2, <3>1, <3>2 DEF PointersAt
  <2>2. item_[current_item_[i]].type = Kind[frames[i]]
    BY <1>1 DEF Match, TypesMatch
  <2> QED BY <1>2, <2>1, <2>2
<1>5. Match(frames, current_item_, item_')
  BY <1>1, <1>3, <1>4 DEF Match
<1> QED BY <1>1, <1>5 DEF IInv, Sound, InStep

\* A key begins: the builder waits for its name with the object.
LEMMA BeginKeyStep ==
  ASSUME IInv, frames # P!Stopped, Last(frames) = "object", frames' = Append(frames, "key"),
         UNCHANGED << item_, current_item_ >>, lastString_' = << >>
  PROVE  IInv'
<1>1. /\ Nested(frames) /\ Len(frames) \in Nat /\ Len(current_item_) = Len(frames)
      /\ TypesMatch(frames, current_item_, item_) /\ item_[<< >>].type # "Null"
  BY WhereItIs DEF IInv, Sound, InStep, Match, AtRoot, Type
<1>2. Pushed(frames, "key", frames')
  BY <1>1, NestedPush
<1>3. Nested(frames') /\ Last(frames') = "key" /\ Len(frames') = Len(frames) + 1
      /\ frames'[Len(frames) + 1] = "key"
      /\ \A i \in 1 .. Len(frames) : frames'[i] = frames[i]
  BY <1>2 DEF Pushed
<1>4. TypesMatch(frames', current_item_, item_)
  <2> SUFFICES ASSUME NEW i \in 2 .. Len(frames'), frames'[i] # "key"
               PROVE  item_[current_item_[i]].type = Kind[frames'[i]]
    BY DEF TypesMatch
  <2>1. i \in 2 .. Len(frames) /\ frames'[i] = frames[i]
    BY <1>1, <1>3
  <2> QED BY <1>1, <2>1 DEF TypesMatch
<1>5. frames'[1] = "done"
  BY <1>3, LastFrame
<1>6. Len(current_item_) = PointersAt(frames')
  BY <1>1, <1>3 DEF PointersAt
<1>7. << >> \in Seq(Pieces)
  BY EmptySeq
<1> QED BY <1>1, <1>3, <1>4, <1>5, <1>6, <1>7 DEF IInv, Sound, InStep, Match

\* A key ends: its property is there and waits for the value.
LEMMA EndKeyStep ==
  ASSUME IInv, frames # P!Stopped, Last(frames) = "key",
         frames' = P!WithLast(Front(frames), "property"),
         end_key_handler
  PROVE  IInv'
<1>1. /\ Nested(frames) /\ Len(frames) \in Nat /\ Len(current_item_) = Len(frames) - 1
      /\ Len(frames) >= 3
      /\ TypesMatch(frames, current_item_, item_) /\ item_[<< >>].type # "Null"
      /\ Grounded(item_) /\ Leads(current_item_, item_) /\ lastString_ \in Seq(Pieces)
  BY WhereItIs DEF IInv, Sound, InStep, Match, AtRoot, Type
<1> DEFINE fs == Front(frames)
<1>2. /\ Nested(fs) /\ Len(fs) = Len(frames) - 1 /\ Last(fs) = "object"
      /\ \A i \in 1 .. Len(frames) - 1 : fs[i] = frames[i]
  BY <1>1, NestedPop
<1>3. frames' = P!WithLast(fs, "property")
  OBVIOUS
<1> HIDE DEF fs
<1>4. /\ Nested(frames') /\ Len(frames') = Len(frames) - 1
      /\ frames'[Len(frames) - 1] = "property" /\ Last(frames') = "property"
      /\ \A i \in 1 .. Len(frames) - 2 : frames'[i] = frames[i]
  <2>1. /\ Nested(frames') /\ Len(frames') = Len(fs) /\ frames'[Len(fs)] = "property"
        /\ Last(frames') = "property" /\ \A i \in 1 .. Len(fs) - 1 : frames'[i] = fs[i]
    BY <1>2, <1>3, NestedBecome
  <2> QED BY <1>1, <1>2, <2>1
<1>5. /\ item_' = emplace_back(item_, Back, lastString_, "Null")
      /\ current_item_' = Append(Kept, Added) /\ lastString_' = << >>
  BY DEF end_key_handler, Emplace
<1>6. Kept = current_item_ /\ Added = NextMember(item_, Back)
  BY <1>1, NoneInvalidated DEF Kept, Added, NextMember, Back
<1>7. /\ Grounded(item_') /\ Leads(current_item_', item_')
      /\ Len(current_item_') = Len(current_item_) + 1
      /\ \A i \in 1 .. Len(current_item_) : current_item_'[i] = current_item_[i]
      /\ Last(current_item_') = Added /\ item_'[Added] = Node("Null")
      /\ \A i \in 1 .. Len(current_item_) :
            item_'[current_item_[i]].type = item_[current_item_[i]].type
  <2>1. "Null" \in Types /\ Len(current_item_) >= 2
    BY <1>1 DEF Types
  <2>2. Grew(item_, current_item_, item_', Added, "Null")
    BY <1>1, <1>5, <1>6, <2>1, EmplaceLeads DEF Back
  <2> QED BY <1>5, <1>6, <2>2 DEF Grew
<1>8. item_'[Last(current_item_')].type = "Null"
  <2>1. "Null" \in Types
    BY DEF Types
  <2> QED BY <1>7, <2>1, NodeIsNode
<1>9. TypesMatch(frames', current_item_', item_')
  <2> SUFFICES ASSUME NEW i \in 2 .. Len(frames) - 1, frames'[i] # "key"
               PROVE  item_'[current_item_'[i]].type = Kind[frames'[i]]
    BY <1>4 DEF TypesMatch
  <2>1. i \in 1 .. Len(current_item_) /\ i \in 2 .. Len(frames)
    BY <1>1
  <2>2. item_'[current_item_'[i]].type = item_[current_item_[i]].type
    BY <1>7, <2>1
  <2>3. frames[i] # "key" /\ Kind[frames'[i]] = Kind[frames[i]]
    <3>1. CASE i = Len(frames) - 1
      <4>1. frames[i] = "object"
        BY <1>1, <1>2, <3>1, LastFrame
      <4> QED BY <1>4, <3>1, <4>1, KindOf
    <3>2. CASE i # Len(frames) - 1
      BY <1>1, <1>4, <3>2
    <3> QED BY <3>1, <3>2
  <2> QED BY <1>1, <2>1, <2>2, <2>3 DEF TypesMatch
<1>10. item_'[<< >>].type # "Null"
  <2>1. 1 \in 1 .. Len(current_item_) /\ current_item_[1] = << >>
    BY <1>1 DEF Leads
  <2> QED BY <1>1, <1>7, <2>1
<1>11. frames'[1] = "done"
  BY <1>4, LastFrame
<1>12. Len(current_item_') = PointersAt(frames') /\ lastString_' \in Seq(Pieces)
  BY <1>1, <1>4, <1>5, <1>7, EmptySeq DEF PointersAt
<1> QED BY <1>4, <1>7, <1>8, <1>9, <1>10, <1>11, <1>12 DEF IInv, Sound, InStep, Match

-----------------------------------------------------------------------------
(* The calls.                                                              *)

LEMMA Handler ==
  /\ DOMAIN P!Begins = {"begin_array", "begin_object", "begin_string", "begin_key"}
  /\ DOMAIN P!Contents = {"string_content", "key_content"}
  /\ DOMAIN P!Ends = {"end_array", "end_object", "end_string", "end_key"}
  /\ P!Contents["string_content"] = "string" /\ P!Contents["key_content"] = "key"
  /\ P!Ends["end_array"] = "array" /\ P!Ends["end_object"] = "object"
  /\ P!Ends["end_string"] = "string" /\ P!Ends["end_key"] = "key"
BY DEF P!Begins, P!Contents, P!Ends

LEMMA SameOperators ==
  ASSUME NEW s
  PROVE  P!Last(s) = Last(s) /\ P!Front(s) = Front(s)
BY DEF P!Last, P!Front, Last, Front

LEMMA Took ==
  ASSUME NEW h, NEW v, Call(h, v)
  PROVE  /\ Last(frames) \in P!Taken(h) /\ frames' = P!After(frames, h)
         /\ Last(frames) # "stopped" => frames # P!Stopped
<1>1. Last(P!Stopped) = "stopped"
  BY DEF P!Stopped, Last
<1> QED BY <1>1 DEF Call

LEMMA TookBegin ==
  ASSUME NEW h \in {"begin_array", "begin_object", "begin_string"}, NEW v, Call(h, v)
  PROVE  /\ Last(frames) \in {"root", "array", "property"} /\ frames # P!Stopped
         /\ frames' = Append(P!WithLast(frames, P!Valued(Last(frames))), P!Begins[h])
<1>1. P!Taken(h) = {"root", "array", "property"}
  BY Handler DEF P!Taken, P!Scalars
<1>2. P!After(frames, h) = Append(P!WithLast(frames, P!Valued(Last(frames))), P!Begins[h])
  BY Handler, SameOperators DEF P!After, P!Scalars
<1> QED BY <1>1, <1>2, Took

LEMMA TookScalar ==
  ASSUME NEW h \in {"double", "boolean", "null"}, NEW v, Call(h, v)
  PROVE  /\ Last(frames) \in {"array", "property"} /\ frames # P!Stopped
         /\ frames' = P!WithLast(frames, P!Valued(Last(frames)))
<1>1. P!Taken(h) = {"array", "property"}
  BY Handler DEF P!Taken, P!Scalars
<1>2. P!After(frames, h) = P!WithLast(frames, P!Valued(Last(frames)))
  BY Handler, SameOperators DEF P!After, P!Scalars
<1> QED BY <1>1, <1>2, Took

LEMMA TookEnd ==
  ASSUME NEW h \in {"end_array", "end_object", "end_string"}, NEW v, Call(h, v)
  PROVE  /\ Last(frames) \in {"array", "object", "string"} /\ frames # P!Stopped
         /\ frames' = Front(frames)
<1>1. P!Taken(h) = {P!Ends[h]} /\ P!Ends[h] \in {"array", "object", "string"}
  BY Handler DEF P!Taken, P!Scalars
<1>2. P!After(frames, h) = Front(frames)
  BY Handler, SameOperators DEF P!After, P!Scalars
<1> QED BY <1>1, <1>2, Took

LEMMA TookBeginKey ==
  ASSUME NEW v, Call("begin_key", v)
  PROVE  Last(frames) = "object" /\ frames # P!Stopped /\ frames' = Append(frames, "key")
<1>1. P!Taken("begin_key") = {"object"} /\ P!After(frames, "begin_key") = Append(frames, "key")
  BY Handler DEF P!Taken, P!After, P!Scalars
<1> QED BY <1>1, Took

LEMMA TookEndKey ==
  ASSUME NEW v, Call("end_key", v)
  PROVE  /\ Last(frames) = "key" /\ frames # P!Stopped
         /\ frames' = P!WithLast(Front(frames), "property")
<1>1. P!Taken("end_key") = {"key"}
  BY Handler DEF P!Taken, P!Scalars
<1>2. P!After(frames, "end_key") = P!WithLast(Front(frames), "property")
  BY Handler, SameOperators DEF P!After, P!Scalars
<1> QED BY <1>1, <1>2, Took

LEMMA TookContent ==
  ASSUME NEW h \in {"string_content", "key_content"}, NEW v, Call(h, v)
  PROVE  Last(frames) = P!Contents[h] /\ frames # P!Stopped /\ frames' = frames
<1>1. P!Taken(h) = {P!Contents[h]} /\ P!Contents[h] \in {"string", "key"}
  BY Handler DEF P!Taken, P!Scalars
<1>2. P!After(frames, h) = frames
  BY Handler DEF P!After, P!Scalars
<1> QED BY <1>1, <1>2, Took


\* boolean_handler and double_handler
LEMMA ScalarStep ==
  ASSUME IInv, frames # P!Stopped, Last(frames) \in {"array", "property"},
         frames' = P!WithLast(frames, P!Valued(Last(frames))),
         NEW type \in {"Boolean", "Double"}, NEW v \in Texts, scalar_handler(type, v)
  PROVE  IInv'
<1>1. /\ Grounded(item_) /\ Leads(current_item_, item_) /\ Len(current_item_) \in Nat
      /\ Len(frames) \in Nat /\ Len(frames) >= 2 /\ UNCHANGED lastString_
      /\ (Last(frames) = "array" =>
             Len(current_item_) = Len(frames) /\ Type(item_, Back) = "Array")
      /\ (Last(frames) = "property" =>
             Len(current_item_) = Len(frames) + 1 /\ Type(item_, Back) = "Null")
  BY WhereItIs, KindOf DEF IInv, Sound, scalar_handler
<1>2. type \in Types /\ << v >> \in Seq(Texts)
  BY DEF Types
<1>3. CASE Last(frames) = "array"
  <2> DEFINE u == emplace_back(item_, Back, NoName, type)
  <2>1. item_' = [u EXCEPT ![Added].value = << v >>] /\ current_item_' = Kept
    BY <1>1, <1>3 DEF scalar_handler, BackIs, set_value
  <2>2. Kept = current_item_ /\ Added = NextMember(item_, Back)
    BY <1>1, <1>3, NoneInvalidated DEF Kept, Added, NextMember, Back
  <2>3. NoName \in Seq(Pieces)
    BY EmptySeq DEF NoName
  <2>4. Grew(item_, current_item_, u, Added, type)
    BY <1>1, <1>2, <1>3, <2>2, <2>3, EmplaceLeads DEF Back
  <2> HIDE DEF u
  <2>5. /\ Grounded(u) /\ Leads(current_item_, u) /\ Added \in DOMAIN u
        /\ \A i \in 1 .. Len(current_item_) :
              u[current_item_[i]].type = item_[current_item_[i]].type
    BY <2>4 DEF Grew
  <2>6. /\ Grounded(item_') /\ DOMAIN item_' = DOMAIN u
        /\ \A q \in DOMAIN u : item_'[q].type = u[q].type /\ item_'[q].names = u[q].names
    <3>1. SameShape(u, item_')
      BY <1>2, <2>1, <2>5, ValueTree DEF WithValue
    <3> QED BY <3>1 DEF SameShape
  <2>7. \A i \in 1 .. Len(current_item_) : current_item_[i] \in DOMAIN u
    BY <2>5 DEF Leads
  <2>8. Leads(current_item_, item_')
    <3>1. \A i \in 2 .. Len(current_item_) - 1 :
            item_'[current_item_[i]].names = u[current_item_[i]].names
      BY <1>1, <2>6, <2>7
    <3> QED BY <2>5, <2>6, <3>1, LeadsSame
  <2>9. \A i \in 1 .. Len(current_item_) :
          item_'[current_item_[i]].type = item_[current_item_[i]].type
    BY <2>5, <2>6, <2>7
  <2>10. item_'[<< >>].type = item_[<< >>].type
    <3>1. 1 \in 1 .. Len(current_item_) /\ current_item_[1] = << >>
      BY <1>1, <1>3 DEF Leads
    <3> QED BY <2>9, <3>1
  <2>11. TypesStay(Len(frames), current_item_, item_, item_')
    BY <1>1, <1>3, <2>9, <2>10 DEF TypesStay
  <2> QED BY <1>1, <1>3, <2>1, <2>2, <2>6, <2>8, <2>11, ValueStep
<1>4. CASE Last(frames) = "property"
  <2> DEFINE u == morph_to(item_, Back, type)
  <2>1. item_' = [u EXCEPT ![Back].value = << v >>] /\ current_item_' = Front(current_item_)
    BY <1>1, <1>4 DEF scalar_handler, BackIs, set_value, Popped
  <2>2. /\ Grounded(u) /\ Leads(current_item_, u) /\ DOMAIN u = DOMAIN item_
        /\ \A i \in 2 .. Len(current_item_) - 1 :
              u[current_item_[i]].type = item_[current_item_[i]].type
        /\ u[<< >>].type = item_[<< >>].type
    <3>1. Changed(item_, current_item_, u, type)
      BY <1>1, <1>2, <1>4, MorphLeads DEF Back
    <3> HIDE DEF u
    <3> QED BY <1>1, <1>4, <3>1 DEF Changed
  <2>3. Back \in DOMAIN u
    BY <1>1, <2>2, LastPointer DEF Back
  <2> HIDE DEF u
  <2>4. /\ Grounded(item_') /\ DOMAIN item_' = DOMAIN u
        /\ \A q \in DOMAIN u : item_'[q].type = u[q].type /\ item_'[q].names = u[q].names
    <3>1. SameShape(u, item_')
      BY <1>2, <2>1, <2>2, <2>3, ValueTree DEF WithValue
    <3> QED BY <3>1 DEF SameShape
  <2>5. \A i \in 1 .. Len(current_item_) : current_item_[i] \in DOMAIN u
    BY <2>2 DEF Leads
  <2>6. Leads(current_item_, item_')
    <3>1. \A i \in 2 .. Len(current_item_) - 1 :
            item_'[current_item_[i]].names = u[current_item_[i]].names
      BY <1>1, <2>4, <2>5
    <3> QED BY <2>2, <2>4, <3>1, LeadsSame
  <2>8. \A i \in 2 .. Len(frames) :
          item_'[current_item_[i]].type = item_[current_item_[i]].type
    BY <1>1, <1>4, <2>2, <2>4, <2>5
  <2>9. item_'[<< >>].type = item_[<< >>].type
    <3>1. 1 \in 1 .. Len(current_item_) /\ current_item_[1] = << >>
      BY <1>1, <1>4 DEF Leads
    <3>2. << >> \in DOMAIN u
      BY <2>5, <3>1
    <3> QED BY <2>2, <2>4, <3>2
  <2>10. /\ Last(frames) = "array" => current_item_' = current_item_
         /\ Last(frames) = "property" => current_item_' = Front(current_item_)
    BY <1>4, <2>1
  <2>11. Grounded(item_') /\ UNCHANGED lastString_
    BY <1>1, <2>4
  <2>12. TypesStay(Len(frames), current_item_, item_, item_')
    BY <2>8, <2>9 DEF TypesStay
  <2> QED BY <2>6, <2>10, <2>11, <2>12, ValueStep
<1> QED BY <1>3, <1>4

LEMMA NullStep ==
  ASSUME IInv, frames # P!Stopped, Last(frames) \in {"array", "property"},
         frames' = P!WithLast(frames, P!Valued(Last(frames))), null_handler
  PROVE  IInv'
<1>1. /\ Grounded(item_) /\ Leads(current_item_, item_) /\ Len(current_item_) \in Nat
      /\ Len(frames) \in Nat /\ Len(frames) >= 2 /\ UNCHANGED lastString_
      /\ (Last(frames) = "array" =>
             Len(current_item_) = Len(frames) /\ Type(item_, Back) = "Array")
      /\ (Last(frames) = "property" =>
             Len(current_item_) = Len(frames) + 1 /\ Type(item_, Back) = "Null")
  BY WhereItIs, KindOf DEF IInv, Sound, null_handler
<1>2. "Null" \in Types
  BY DEF Types
<1>3. CASE Last(frames) = "array"
  <2>1. item_' = emplace_back(item_, Back, NoName, "Null") /\ current_item_' = Kept
    BY <1>1, <1>3 DEF null_handler, BackIs, Emplace
  <2>2. Kept = current_item_ /\ Added = NextMember(item_, Back)
    BY <1>1, <1>3, NoneInvalidated DEF Kept, Added, NextMember, Back
  <2>3. NoName \in Seq(Pieces)
    BY EmptySeq DEF NoName
  <2>4. Grew(item_, current_item_, item_', Added, "Null")
    BY <1>1, <1>2, <1>3, <2>1, <2>2, <2>3, EmplaceLeads DEF Back
  <2>5. /\ Grounded(item_') /\ Leads(current_item_, item_')
        /\ \A i \in 1 .. Len(current_item_) :
              item_'[current_item_[i]].type = item_[current_item_[i]].type
    BY <2>4 DEF Grew
  <2>6. item_'[<< >>].type = item_[<< >>].type
    <3>1. 1 \in 1 .. Len(current_item_) /\ current_item_[1] = << >>
      BY <1>1, <1>3 DEF Leads
    <3> QED BY <2>5, <3>1
  <2>7. TypesStay(Len(frames), current_item_, item_, item_')
    BY <1>1, <1>3, <2>5, <2>6 DEF TypesStay
  <2> QED BY <1>1, <1>3, <2>1, <2>2, <2>5, <2>7, ValueStep
<1>4. CASE Last(frames) = "property"
  <2>1. item_' = item_ /\ current_item_' = Front(current_item_)
    BY <1>1, <1>4 DEF null_handler, BackIs, Popped
  <2>2. Leads(current_item_, item_')
    BY <1>1, <2>1
  <2>3. TypesStay(Len(frames), current_item_, item_, item_')
    BY <2>1 DEF TypesStay
  <2> QED BY <1>1, <1>4, <2>1, <2>2, <2>3, ValueStep
<1> QED BY <1>3, <1>4

LEMMA StringContentStep ==
  ASSUME IInv, frames # P!Stopped, frames' = frames,
         NEW piece \in Pieces, string_content_handler(piece)
  PROVE  IInv'
<1>1. Grounded(item_) /\ Leads(current_item_, item_) /\ lastString_ \in Seq(Pieces)
  BY DEF IInv, Sound
<1>2. /\ item_' = [item_ EXCEPT ![Back].value = Append(@, piece)]
      /\ Back \in DOMAIN item_ /\ UNCHANGED << current_item_, lastString_ >>
  BY DEF string_content_handler, BackIs
<1> DEFINE v == Append(item_[Back].value, piece)
<1>3. v \in Seq(Texts)
  <2>1. item_[Back].value \in Seq(Texts) /\ piece \in Texts
    BY <1>1, <1>2 DEF Grounded, Nodes, Texts
  <2> QED BY <2>1
<1>4. item_' = [item_ EXCEPT ![Back].value = v]
  BY <1>2
<1> HIDE DEF v
<1>5. /\ Grounded(item_') /\ DOMAIN item_' = DOMAIN item_
      /\ \A q \in DOMAIN item_ :
            item_'[q].type = item_[q].type /\ item_'[q].names = item_[q].names
  <2>1. SameShape(item_, item_')
    BY <1>1, <1>2, <1>3, <1>4, ValueTree DEF WithValue
  <2> QED BY <2>1 DEF SameShape
<1>6. Leads(current_item_, item_')
  <2>1. \A i \in 2 .. Len(current_item_) - 1 : current_item_[i] \in DOMAIN item_
    <3>1. Len(current_item_) \in Nat
      BY <1>1, LastPointer
    <3> QED BY <1>1, <3>1 DEF Leads
  <2> QED BY <1>1, <1>5, <2>1, LeadsSame
<1> QED BY <1>1, <1>2, <1>5, <1>6, ContentStep

-----------------------------------------------------------------------------
(* The theorems.                                                           *)

LEMMA InitIInv ==
  ASSUME Init
  PROVE  IInv
<1>1. item_ = NullItem /\ current_item_ = << << >> >> /\ lastString_ = << >>
      /\ frames = << "root" >>
  BY DEF Init, BuilderInit
<1>2. /\ DOMAIN item_ = {<< >>} /\ item_[<< >>] = Node("Null")
      /\ Node("Null") \in Nodes /\ Node("Null").type = "Null"
  <2>1. "Null" \in Types
    BY DEF Types
  <2> QED BY <1>1, <2>1, NodeIsNode DEF NullItem
<1>3. << >> \in Seq(Nat) /\ lastString_ \in Seq(Pieces)
  BY <1>1, EmptySeq
<1>4. Grounded(item_)
  BY <1>2, <1>3 DEF Grounded
<1>5. current_item_ \in Seq(Seq(Nat)) /\ Len(current_item_) = 1 /\ current_item_[1] = << >>
  <2> DEFINE e == << >>
  <2>1. e \in Seq(Nat) /\ current_item_ = << e >>
    BY <1>1, <1>3
  <2> HIDE DEF e
  <2>2. current_item_ \in Seq(Seq(Nat)) /\ Len(current_item_) = 1 /\ current_item_[1] = e
    BY <2>1
  <2> QED BY <2>2 DEF e
<1>6. Leads(current_item_, item_)
  BY <1>2, <1>5 DEF Leads, Chain
<1>7. Nested(frames) /\ Len(frames) = 1 /\ frames[1] = "root" /\ Last(frames) = "root"
  BY <1>1 DEF Nested, FrameNames, Last
<1>8. Match(frames, current_item_, item_)
  BY <1>2, <1>5, <1>7 DEF Match, TypesMatch, PointersAt
<1> QED BY <1>3, <1>4, <1>6, <1>7, <1>8 DEF IInv, Sound, InStep

LEMMA CallIInv ==
  ASSUME IInv, Begins \/ Ends \/ Contents \/ Scalars
  PROVE  IInv'
<1>1. ASSUME BeginArray PROVE IInv'
  <2>1. P!Begins["begin_array"] = "array" /\ Kind["array"] = "Array"
    BY KindOf DEF P!Begins
  <2> QED BY <1>1, <2>1, TookBegin, BeginStep DEF BeginArray, begin_array_handler
<1>2. ASSUME BeginObject PROVE IInv'
  <2>1. P!Begins["begin_object"] = "object" /\ Kind["object"] = "Object"
    BY KindOf DEF P!Begins
  <2> QED BY <1>2, <2>1, TookBegin, BeginStep DEF BeginObject, begin_object_handler
<1>3. ASSUME BeginString PROVE IInv'
  <2>1. P!Begins["begin_string"] = "string" /\ Kind["string"] = "String"
    BY KindOf DEF P!Begins
  <2> QED BY <1>3, <2>1, TookBegin, BeginStep DEF BeginString, begin_string_handler
<1>4. ASSUME BeginKey PROVE IInv'
  BY <1>4, TookBeginKey, BeginKeyStep DEF BeginKey, begin_key_handler
<1>5. ASSUME EndArray PROVE IInv'
  BY <1>5, TookEnd, EndStep DEF EndArray, end_current, Popped
<1>6. ASSUME EndObject PROVE IInv'
  BY <1>6, TookEnd, EndStep DEF EndObject, end_current, Popped
<1>7. ASSUME EndString PROVE IInv'
  BY <1>7, TookEnd, EndStep DEF EndString, end_string_handler, Popped
<1>8. ASSUME EndKey PROVE IInv'
  BY <1>8, TookEndKey, EndKeyStep DEF EndKey
<1>9. ASSUME NEW s \in Pieces, StringContent(s) PROVE IInv'
  BY <1>9, TookContent, StringContentStep DEF StringContent
<1>10. ASSUME NEW s \in Pieces, KeyContent(s) PROVE IInv'
  <2>1. frames # P!Stopped /\ frames' = frames
    BY <1>10, TookContent DEF KeyContent
  <2>2. lastString_' = Append(lastString_, s) /\ UNCHANGED << item_, current_item_ >>
    BY <1>10 DEF KeyContent, key_content_handler
  <2>3. Grounded(item_) /\ Leads(current_item_, item_) /\ lastString_' \in Seq(Pieces)
    BY <2>2 DEF IInv, Sound
  <2> QED BY <2>1, <2>2, <2>3, ContentStep
<1>11. ASSUME NEW v \in Booleans, Boolean(v) PROVE IInv'
  <2>1. v \in Texts
    BY DEF Texts
  <2> QED BY <1>11, <2>1, TookScalar, ScalarStep DEF Boolean, boolean_handler
<1>12. ASSUME NEW v \in Numbers, Double(v) PROVE IInv'
  <2>1. v \in Texts
    BY DEF Texts
  <2> QED BY <1>12, <2>1, TookScalar, ScalarStep DEF Double, double_handler
<1>13. ASSUME Null PROVE IInv'
  BY <1>13, TookScalar, NullStep DEF Null
<1> QED BY <1>1, <1>2, <1>3, <1>4, <1>5, <1>6, <1>7, <1>8, <1>9, <1>10, <1>11, <1>12, <1>13
        DEF Begins, Ends, Contents, Scalars

LEMMA StepIInv ==
  ASSUME IInv, [Next]_vars
  PROVE  IInv'
<1>1. ASSUME Finish \/ UNCHANGED vars PROVE IInv'
  <2>1. UNCHANGED << frames, item_, current_item_, lastString_ >>
    BY <1>1 DEF Finish, vars, builderVars
  <2> QED BY <2>1 DEF IInv, Sound, InStep
<1>2. ASSUME GiveUp PROVE IInv'
  <2>1. frames' = P!Stopped /\ UNCHANGED << item_, current_item_, lastString_ >>
    BY <1>2 DEF GiveUp, builderVars
  <2> QED BY <2>1 DEF IInv, Sound, InStep
<1> QED BY <1>1, <1>2, CallIInv DEF Next, Finished

\* However long and deep the document, IInv holds.
THEOREM Inductive == Spec => []IInv
<1>1. Init => IInv
  BY InitIInv
<1>2. IInv /\ [Next]_vars => IInv'
  BY StepIInv
<1> QED BY <1>1, <1>2, PTL DEF Spec

LEMMA ContractsFollow ==
  ASSUME IInv
  PROVE  ContractsMet
<1>1. SUFFICES ASSUME frames # P!Stopped PROVE BackIs(Expected(Last(frames)))
  BY DEF ContractsMet
<1>2. /\ Back \in DOMAIN item_ /\ Grounded(item_) /\ Leads(current_item_, item_)
      /\ Nested(frames) /\ Len(frames) \in Nat
  BY <1>1, WhereItIs DEF IInv, Sound
<1>3. current_item_ # << >> /\ Type(item_, Back) \in Types
  BY <1>2 DEF Leads, Grounded, Nodes, Type
<1>4. Last(frames) \in FrameNames
  BY <1>2, LastFrame DEF Nested
<1>5. Type(item_, Back) \in Expected(Last(frames))
  <2>1. CASE Last(frames) = "root"
    BY <1>1, <2>1, WhereItIs DEF Expected, AtRoot
  <2>2. CASE Last(frames) = "done"
    BY <1>1, <1>3, <2>2, WhereItIs DEF Expected, AtRoot
  <2>3. CASE Last(frames) \in {"array", "object", "string"}
    BY <1>1, <2>3, WhereItIs, KindOf DEF Expected
  <2>4. CASE Last(frames) \in {"property", "key"}
    BY <1>1, <2>4, WhereItIs DEF Expected
  <2> QED BY <1>4, <2>1, <2>2, <2>3, <2>4 DEF FrameNames
<1> QED BY <1>2, <1>3, <1>5 DEF BackIs

LEMMA StackFollows ==
  ASSUME IInv
  PROVE  StackLeadsInwards
<1>1. SUFFICES ASSUME frames # P!Stopped
               PROVE  /\ Len(current_item_) = PointersAt(frames)
                      /\ \A i \in DOMAIN current_item_ :
                           current_item_[i] =
                             IF i <= 2 THEN << >>
                             ELSE Append(current_item_[i - 1],
                                         Len(item_[current_item_[i - 1]].names))
  BY DEF StackLeadsInwards
<1>2. Len(current_item_) = PointersAt(frames) /\ Leads(current_item_, item_)
  BY <1>1 DEF IInv, Sound, InStep, Match
<1>3. /\ Len(current_item_) \in Nat /\ DOMAIN current_item_ = 1 .. Len(current_item_)
      /\ current_item_[1] = << >> /\ Chain(current_item_, item_)
      /\ (Len(current_item_) >= 2 => current_item_[2] = << >>)
  BY <1>2, LastPointer DEF Leads
<1>4. ASSUME NEW i \in 1 .. Len(current_item_)
      PROVE  current_item_[i] =
               IF i <= 2 THEN << >>
               ELSE Append(current_item_[i - 1], Len(item_[current_item_[i - 1]].names))
  <2>1. CASE i = 1
    BY <1>3, <2>1
  <2>2. CASE i = 2
    BY <1>3, <2>2
  <2>3. CASE i > 2
    <3>1. i \in 3 .. Len(current_item_) /\ ~(i <= 2)
      BY <1>3, <2>3
    <3> QED BY <1>3, <3>1 DEF Chain
  <2> QED BY <2>1, <2>2, <2>3
<1> QED BY <1>2, <1>3, <1>4

\* No document makes a handler break a contract of basic_item.
THEOREM NoContractBroken == Spec => []ContractsMet
<1>1. IInv => ContractsMet
  BY ContractsFollow
<1> QED BY <1>1, Inductive, PTL

\* However deep the document, the stack of pointers leads from it inwards.
THEOREM AlwaysInwards == Spec => []StackLeadsInwards
<1>1. IInv => StackLeadsInwards
  BY StackFollows
<1> QED BY <1>1, Inductive, PTL

-----------------------------------------------------------------------------
(* The members of the items.                                               *)

\* Only arrays and objects have members.
Childless(n) == n.type \notin {"Array", "Object"} => n.names = << >>

\* The paths are those of the item and of the members of its nodes.
Closed(t) ==
  /\ \A q : q \in DOMAIN t <=> q = << >> \/ \E p \in DOMAIN t : q \in MembersOf(t, p)
  /\ \A p \in DOMAIN t : Childless(t[p])

\* The names of every node are as many as before.
LEMMA ClosedSame ==
  ASSUME NEW t, Closed(t), NEW u, DOMAIN u = DOMAIN t,
         \A p \in DOMAIN t : u[p].names = t[p].names /\ Childless(u[p])
  PROVE  Closed(u)
<1>1. \A p \in DOMAIN t : MembersOf(u, p) = MembersOf(t, p)
  BY DEF MembersOf
<1> QED BY <1>1 DEF Closed

LEMMA ClosedMorph ==
  ASSUME NEW t, Grounded(t), Closed(t), NEW p \in DOMAIN t, Type(t, p) = "Null",
         NEW type \in Types
  PROVE  Closed(morph_to(t, p, type)) /\ Grounded(morph_to(t, p, type))
<1> DEFINE u == morph_to(t, p, type)
<1>1. /\ Grounded(u) /\ DOMAIN u = DOMAIN t /\ u[p] = Node(type)
      /\ \A q \in DOMAIN t : q # p => u[q] = t[q]
  BY MorphTree
<1>2. t[p].names = << >> /\ Node(type).names = << >>
  BY NodeIsNode DEF Closed, Childless, Type
<1> HIDE DEF u
<1>3. \A q \in DOMAIN t : u[q].names = t[q].names /\ Childless(u[q])
  BY <1>1, <1>2 DEF Closed, Childless
<1>4. Closed(u)
  BY <1>1, <1>3, ClosedSame
<1> QED BY <1>1, <1>4 DEF u

LEMMA ClosedValue ==
  ASSUME NEW t, Closed(t), NEW u, SameShape(t, u)
  PROVE  Closed(u)
<1>1. DOMAIN u = DOMAIN t /\ \A q \in DOMAIN t : u[q].names = t[q].names /\ Childless(u[q])
  BY DEF SameShape, Closed, Childless
<1> QED BY <1>1, ClosedSame

LEMMA SameAppended ==
  ASSUME NEW p \in Seq(Nat), NEW q \in Seq(Nat), NEW i \in Nat, NEW j \in Nat,
         Append(q, i) = Append(p, j)
  PROVE  q = p /\ i = j
<1>1. /\ Len(Append(q, i)) = Len(q) + 1 /\ Append(q, i)[Len(q) + 1] = i
      /\ \A k \in 1 .. Len(q) : Append(q, i)[k] = q[k]
  BY AppendProperties, ZenonT(40)
<1>2. /\ Len(Append(p, j)) = Len(p) + 1 /\ Append(p, j)[Len(p) + 1] = j
      /\ \A k \in 1 .. Len(p) : Append(p, j)[k] = p[k]
  BY AppendProperties
<1>3. Len(q) = Len(p)
  <2>1. Len(q) + 1 = Len(p) + 1 /\ Len(q) \in Nat /\ Len(p) \in Nat
    BY <1>1, <1>2
  <2> QED BY <2>1
<1>4. \A k \in 1 .. Len(p) : q[k] = p[k]
  BY <1>1, <1>2, <1>3
<1>5. q = p
  BY <1>3, <1>4, SeqEqual
<1> QED BY <1>1, <1>2, <1>3, <1>5

LEMMA NewIsNew ==
  ASSUME NEW t, Grounded(t), Closed(t), NEW p \in DOMAIN t
  PROVE  NextMember(t, p) \notin DOMAIN t
<1> DEFINE new == NextMember(t, p)
           n == Len(t[p].names)
<1>1. new = Append(p, n + 1) /\ p \in Seq(Nat) /\ n \in Nat
  <2>1. t[p].names \in Seq(Seq(Pieces))
    BY DEF Grounded, Nodes
  <2>2. Len(t[p].names) \in Nat
    BY <2>1
  <2> QED BY <2>2 DEF NextMember, Grounded
<1> HIDE DEF new
<1>2. SUFFICES ASSUME new \in DOMAIN t PROVE FALSE
  BY DEF new
<1>3. new # << >>
  BY <1>1
<1>4. PICK q \in DOMAIN t : new \in MembersOf(t, q)
  BY <1>2, <1>3 DEF Closed
<1>5. PICK i \in 1 .. Len(t[q].names) : new = Append(q, i)
  BY <1>4 DEF MembersOf
<1>6. q \in Seq(Nat) /\ i \in Nat
  <2>1. t[q].names \in Seq(Seq(Pieces))
    BY DEF Grounded, Nodes
  <2>2. Len(t[q].names) \in Nat
    BY <2>1
  <2> QED BY <2>2 DEF Grounded
<1>7. q = p /\ i = n + 1
  <2>1. Append(q, i) = Append(p, n + 1) /\ n + 1 \in Nat
    BY <1>1, <1>5
  <2> QED BY <1>1, <1>6, <2>1, SameAppended
<1> QED BY <1>1, <1>5, <1>7

LEMMA ClosedEmplace ==
  ASSUME NEW t, Grounded(t), Closed(t), NEW p \in DOMAIN t, Type(t, p) \in {"Array", "Object"},
         NEW name \in Seq(Pieces), NEW type \in Types
  PROVE  /\ Closed(emplace_back(t, p, name, type)) /\ Grounded(emplace_back(t, p, name, type))
         /\ NextMember(t, p) \in DOMAIN emplace_back(t, p, name, type)
         /\ Type(emplace_back(t, p, name, type), NextMember(t, p)) = type
<1> DEFINE u == emplace_back(t, p, name, type)
           new == NextMember(t, p)
           n == Len(t[p].names)
<1>1. Emplaced(t, p, type, u, new)
  BY EmplaceTree
<1>2. /\ Grounded(u) /\ DOMAIN u = DOMAIN t \cup {new} /\ n \in Nat /\ new # p
      /\ u[new] = Node(type) /\ u[p].type = t[p].type /\ Len(u[p].names) = n + 1
      /\ \A q \in DOMAIN t : q # p /\ q # new => u[q] = t[q]
  BY <1>1 DEF Emplaced
<1>3. new = Append(p, n + 1) /\ p \in Seq(Nat) /\ Node(type).names = << >>
  BY NodeIsNode DEF NextMember, Grounded
<1> HIDE DEF u, new, n
<1>4. new \notin DOMAIN t
  BY NewIsNew DEF new
<1>5. \A q \in DOMAIN t : q # p => MembersOf(u, q) = MembersOf(t, q)
  BY <1>2, <1>4 DEF MembersOf
<1>6. MembersOf(u, new) = {}
  BY <1>2, <1>3 DEF MembersOf
<1>7. MembersOf(u, p) = MembersOf(t, p) \cup {new}
  <2>1. MembersOf(u, p) = {Append(p, i) : i \in 1 .. n + 1}
    BY <1>2 DEF MembersOf
  <2>2. MembersOf(t, p) = {Append(p, i) : i \in 1 .. n}
    BY DEF MembersOf, n
  <2>3. 1 .. n + 1 = (1 .. n) \cup {n + 1}
    BY <1>2
  <2> QED BY <1>3, <2>1, <2>2, <2>3
<1>8. ASSUME NEW r PROVE r \in DOMAIN u <=> r = << >> \/ \E q \in DOMAIN u : r \in MembersOf(u, q)
  <2>1. (\E q \in DOMAIN u : r \in MembersOf(u, q))
          <=> (\E q \in DOMAIN t : r \in MembersOf(t, q)) \/ r = new
    <3>1. CASE r = new
      BY <1>2, <1>7, <3>1
    <3>2. CASE r # new
      <4>1. \A q \in DOMAIN t : r \in MembersOf(u, q) <=> r \in MembersOf(t, q)
        BY <1>5, <1>7, <3>2
      <4> QED BY <1>2, <1>6, <3>2, <4>1
    <3> QED BY <3>1, <3>2
  <2>2. r \in DOMAIN t <=> r = << >> \/ \E q \in DOMAIN t : r \in MembersOf(t, q)
    BY DEF Closed
  <2> QED BY <1>2, <2>1, <2>2
<1>9. \A q \in DOMAIN u : Childless(u[q])
  BY <1>2, <1>3, <1>4 DEF Closed, Childless, Type
<1>10. Closed(u)
  BY <1>2, <1>8, <1>9 DEF Closed
<1> QED BY <1>2, <1>10, NodeIsNode DEF u, new, Type

\* What a handler may do to the item.
Edited(t, u) ==
  \/ u = t
  \/ \E p \in DOMAIN t, type \in Types : Type(t, p) = "Null" /\ u = morph_to(t, p, type)
  \/ \E p \in DOMAIN t, type \in Types, v \in Texts :
       Type(t, p) = "Null" /\ u = set_value(morph_to(t, p, type), p, v)
  \/ \E p \in DOMAIN t, name \in Seq(Pieces), type \in Types :
       Type(t, p) \in {"Array", "Object"} /\ u = emplace_back(t, p, name, type)
  \/ \E p \in DOMAIN t, name \in Seq(Pieces), type \in Types, v \in Texts :
       /\ Type(t, p) \in {"Array", "Object"}
       /\ u = set_value(emplace_back(t, p, name, type), NextMember(t, p), v)
  \/ \E p \in DOMAIN t, v \in Seq(Texts) : u = WithValue(t, p, v)

LEMMA ClosedSet ==
  ASSUME NEW t, Grounded(t), Closed(t), NEW p \in DOMAIN t, NEW v \in Texts
  PROVE  Closed(set_value(t, p, v))
<1>1. << v >> \in Seq(Texts) /\ set_value(t, p, v) = WithValue(t, p, << v >>)
  BY DEF set_value, WithValue
<1> QED BY <1>1, ValueTree, ClosedValue

LEMMA ClosedEdited ==
  ASSUME NEW t, Grounded(t), Closed(t), NEW u, Edited(t, u)
  PROVE  Closed(u)
<1>1. CASE u = t
  BY <1>1
<1>2. ASSUME NEW p \in DOMAIN t, NEW type \in Types, Type(t, p) = "Null"
      PROVE  /\ u = morph_to(t, p, type) => Closed(u)
             /\ \A v \in Texts : u = set_value(morph_to(t, p, type), p, v) => Closed(u)
  <2>1. /\ Closed(morph_to(t, p, type)) /\ Grounded(morph_to(t, p, type))
        /\ p \in DOMAIN morph_to(t, p, type)
    BY <1>2, ClosedMorph, MorphTree
  <2> QED BY <2>1, ClosedSet
<1>3. ASSUME NEW p \in DOMAIN t, NEW name \in Seq(Pieces), NEW type \in Types,
             Type(t, p) \in {"Array", "Object"}
      PROVE  /\ u = emplace_back(t, p, name, type) => Closed(u)
             /\ \A v \in Texts :
                  u = set_value(emplace_back(t, p, name, type), NextMember(t, p), v) => Closed(u)
  <2>1. /\ Closed(emplace_back(t, p, name, type)) /\ Grounded(emplace_back(t, p, name, type))
        /\ NextMember(t, p) \in DOMAIN emplace_back(t, p, name, type)
    BY <1>3, ClosedEmplace
  <2> QED BY <2>1, ClosedSet
<1>4. ASSUME NEW p \in DOMAIN t, NEW v \in Seq(Texts), u = WithValue(t, p, v)
      PROVE  Closed(u)
  BY <1>4, ValueTree, ClosedValue
<1> QED BY <1>1, <1>2, <1>3, <1>4 DEF Edited

\* Every handler does one of these.
LEMMA EditedBegin ==
  ASSUME IInv, NEW type \in Types, begin(type), Back \in DOMAIN item_
  PROVE  Edited(item_, item_')
<1>1. << >> \in DOMAIN item_
  BY DEF IInv, Sound, Leads
<1>2. NoName \in Seq(Pieces)
  BY EmptySeq DEF NoName
<1> QED BY <1>1, <1>2 DEF begin, AtRoot, Morph, Emplace, BackIs, Edited

LEMMA EditedScalar ==
  ASSUME NEW type \in Types, NEW v \in Texts, scalar_handler(type, v)
  PROVE  Edited(item_, item_')
<1>1. NoName \in Seq(Pieces)
  BY EmptySeq DEF NoName
<1>2. Added = NextMember(item_, Back)
  BY DEF Added, NextMember
<1> QED BY <1>1, <1>2 DEF scalar_handler, BackIs, Edited

LEMMA EditedOthers ==
  ASSUME IInv,
         null_handler \/ end_key_handler \/ end_current \/ end_string_handler \/ begin_key_handler
           \/ \E s \in Pieces : string_content_handler(s) \/ key_content_handler(s)
  PROVE  Edited(item_, item_')
<1>1. NoName \in Seq(Pieces) /\ lastString_ \in Seq(Pieces) /\ "Null" \in Types
  BY EmptySeq DEF NoName, Types, IInv, Sound
<1>2. ASSUME NEW s \in Pieces, string_content_handler(s) PROVE Edited(item_, item_')
  <2>1. Back \in DOMAIN item_ /\ item_' = [item_ EXCEPT ![Back].value = Append(@, s)]
    BY <1>2 DEF string_content_handler, BackIs
  <2>2. item_' = WithValue(item_, Back, Append(item_[Back].value, s))
    BY <2>1 DEF WithValue
  <2>3. item_[Back].value \in Seq(Texts) /\ s \in Texts
    BY <2>1 DEF IInv, Sound, Grounded, Nodes, Texts
  <2>4. Append(item_[Back].value, s) \in Seq(Texts)
    BY <2>3
  <2> QED BY <2>1, <2>2, <2>4 DEF Edited
<1>3. ASSUME null_handler \/ end_key_handler PROVE Edited(item_, item_')
  BY <1>1, <1>3 DEF null_handler, end_key_handler, Emplace, BackIs, Edited
<1> QED BY <1>2, <1>3
        DEF end_current, end_string_handler, begin_key_handler, key_content_handler, Edited

LEMMA ClosedStep ==
  ASSUME IInv, Closed(item_), [Next]_vars
  PROVE  Closed(item_')
<1>1. Grounded(item_)
  BY DEF IInv, Sound
<1>2. ASSUME Begins \/ Ends \/ Contents \/ Scalars PROVE Edited(item_, item_')
  <2>1. ASSUME BeginArray \/ BeginObject \/ BeginString PROVE Edited(item_, item_')
    <3>1. frames # P!Stopped
      BY <2>1, TookBegin DEF BeginArray, BeginObject, BeginString
    <3>2. Back \in DOMAIN item_
      BY <3>1, WhereItIs
    <3>3. {"Array", "Object", "String"} \subseteq Types
      BY DEF Types
    <3> QED BY <2>1, <3>2, <3>3, EditedBegin
            DEF BeginArray, BeginObject, BeginString, begin_array_handler, begin_object_handler,
                begin_string_handler
  <2>2. ASSUME Scalars PROVE Edited(item_, item_')
    <3>1. {"Boolean", "Double"} \subseteq Types /\ Booleans \subseteq Texts /\ Numbers \subseteq Texts
      BY DEF Types, Texts
    <3> QED BY <2>2, <3>1, EditedScalar, EditedOthers
            DEF Scalars, Boolean, Double, Null, boolean_handler, double_handler
  <2>3. ASSUME BeginKey \/ Ends \/ Contents PROVE Edited(item_, item_')
    BY <2>3, EditedOthers
       DEF BeginKey, Ends, EndArray, EndObject, EndString, EndKey, Contents, StringContent, KeyContent
  <2> QED BY <1>2, <2>1, <2>2, <2>3 DEF Begins
<1>3. ASSUME Finish \/ GiveUp \/ UNCHANGED vars PROVE item_' = item_
  BY <1>3 DEF Finish, GiveUp, vars, builderVars
<1> QED BY <1>1, <1>2, <1>3, ClosedEdited DEF Next, Finished

LEMMA InitClosed ==
  ASSUME Init
  PROVE  Closed(item_)
<1>1. /\ DOMAIN item_ = {<< >>} /\ item_[<< >>] = Node("Null") /\ Node("Null").names = << >>
  <2>1. "Null" \in Types
    BY DEF Types
  <2> QED BY <2>1, NodeIsNode DEF Init, BuilderInit, NullItem
<1>2. MembersOf(item_, << >>) = {}
  BY <1>1 DEF MembersOf
<1> QED BY <1>1, <1>2 DEF Closed, Childless

-----------------------------------------------------------------------------
(* The printer.                                                            *)

Signs == {"null", "[", "]", "{", "}", "quote", ":", ","}

\* What is printed, a byte at a time.
Glyphs == (Texts \cup Signs) \X Nat

\* The calls with the values that belong to them.
ValidCalls ==
  {c \in P!ProtocolHandlers \X (Texts \cup {""}) :
     c[1] \in {"boolean", "double", "string_content", "key_content"} => c[2] \in Texts}

LEMMA CharSeq ==
  ASSUME NEW c \in Signs
  PROVE  Char(c) \in Seq(Glyphs)
<1>1. << c, 1 >> \in Glyphs
  BY DEF Glyphs
<1> QED BY <1>1 DEF Char

LEMMA TextOfSeq ==
  ASSUME NEW v \in Texts \cup {"null"}
  PROVE  TextOf(v) \in Seq(Glyphs)
<1>1. Width[v] \in Nat
  BY TextsAssumption, WidthAssumption
<1>2. v \in Texts \cup Signs
  BY DEF Signs
<1>3. \A i \in 1 .. Width[v] : << v, i >> \in Glyphs
  BY <1>1, <1>2 DEF Glyphs
<1> QED BY <1>1, <1>3 DEF TextOf

LEMMA TextOfCallSeq ==
  ASSUME NEW c \in ValidCalls
  PROVE  TextOfCall(c) \in Seq(Glyphs)
<1>1. c[1] \in P!ProtocolHandlers
  BY DEF ValidCalls
<1>2. c[1] \in {"begin_array", "begin_object", "begin_string", "begin_key", "end_array",
                "end_object", "end_string", "end_key", "null", "boolean", "double",
                "string_content", "key_content"}
  BY <1>1, Handler DEF P!ProtocolHandlers, P!Scalars
<1>3. CASE c[1] \in {"boolean", "double", "string_content", "key_content"}
  <2>1. c[2] \in Texts
    BY <1>3 DEF ValidCalls
  <2>2. TextOfCall(c) = TextOf(c[2])
    BY <1>3 DEF TextOfCall
  <2> QED BY <2>1, <2>2, TextOfSeq
<1>4. CASE c[1] = "end_key"
  <2>1. TextOfCall(c) = Char("quote") \o Char(":")
    BY <1>4 DEF TextOfCall
  <2>2. Char("quote") \in Seq(Glyphs) /\ Char(":") \in Seq(Glyphs)
    BY CharSeq DEF Signs
  <2> QED BY <2>1, <2>2, ConcatProperties
<1>5. CASE c[1] = "null"
  BY <1>5, TextOfSeq DEF TextOfCall
<1>6. CASE c[1] \in {"begin_array", "begin_object", "begin_string", "begin_key", "end_array",
                     "end_object", "end_string"}
  <2>1. TextOfCall(c) \in {Char("["), Char("]"), Char("{"), Char("}"), Char("quote")}
    BY <1>6 DEF TextOfCall
  <2> QED BY <2>1, CharSeq DEF Signs
<1> QED BY <1>2, <1>3, <1>4, <1>5, <1>6

LEMMA FollowsSeq ==
  ASSUME NEW cs \in Seq(ValidCalls), NEW n \in 1 .. Len(cs)
  PROVE  Follows(cs, n) \in Seq(Glyphs)
<1> DEFINE comma == IF n > 1 /\ cs[n - 1][1] \in Ending /\ cs[n][1] \in Beginning
                      THEN Char(",") ELSE << >>
<1>1. comma \in Seq(Glyphs)
  BY CharSeq, EmptySeq DEF Signs
<1>2. TextOfCall(cs[n]) \in Seq(Glyphs)
  BY TextOfCallSeq
<1>3. Follows(cs, n) = comma \o TextOfCall(cs[n])
  BY DEF Follows
<1> HIDE DEF comma
<1> QED BY <1>1, <1>2, <1>3, ConcatProperties

\* A set that holds a number and with each number up to a bound the next one holds all
\* of them up to the bound.
LEMMA UpTo ==
  ASSUME NEW a \in Nat, NEW b \in Nat, NEW S, a \in S,
         \A i \in a .. b - 1 : i \in S => i + 1 \in S
  PROVE  \A i \in a .. b : i \in S
<1> DEFINE Less == {p \in Nat \X Nat : p[1] < p[2]}
           T == {k \in a .. b : k \notin S}
<1>1. SUFFICES ASSUME T # {} PROVE FALSE
  OBVIOUS
<1>2. T \subseteq Nat /\ IsWellFoundedOn(Less, Nat)
  BY NatLessThanWellFounded DEF OpToRel
<1>3. PICK m \in T : \A k \in T : << k, m >> \notin Less
  <2> HIDE DEF Less, T
  <2> QED BY <1>1, <1>2, WFMin, Zenon
<1>4. m # a /\ m - 1 \in a .. b - 1 /\ << m - 1, m >> \in Less
  OBVIOUS
<1>5. m - 1 \in S /\ (m - 1) + 1 = m
  BY <1>3, <1>4
<1> QED BY <1>4, <1>5

\* What the definition of PrintUpTo says of the text up to the n-th call.
IsPrintUpTo(cs, n, f) ==
  /\ f = [k \in 0 .. n |-> f[k]]
  /\ f[0] = << >>
  /\ \A k \in 1 .. n : f[k] = f[k - 1] \o Follows(cs, k)

\* There is such a function, so that PrintUpTo is one.
LEMMA PrintDefined ==
  ASSUME NEW cs, Len(cs) \in Nat
  PROVE  IsPrintUpTo(cs, Len(cs), PrintUpTo(cs))
<1> DEFINE S == {n \in 0 .. Len(cs) : \E f : IsPrintUpTo(cs, n, f)}
<1>1. 0 \in S
  <2> DEFINE f == [k \in 0 .. 0 |-> << >>]
  <2>1. IsPrintUpTo(cs, 0, f)
    BY DEF IsPrintUpTo
  <2> QED BY <2>1
<1>2. ASSUME NEW n \in 0 .. Len(cs) - 1, n \in S PROVE n + 1 \in S
  <2>1. PICK f : IsPrintUpTo(cs, n, f)
    BY <1>2
  <2> DEFINE g == [k \in 0 .. n + 1 |-> IF k <= n THEN f[k] ELSE f[n] \o Follows(cs, n + 1)]
  <2>2. g[0] = << >>
    BY <2>1 DEF IsPrintUpTo
  <2>3. ASSUME NEW k \in 1 .. n + 1 PROVE g[k] = g[k - 1] \o Follows(cs, k)
    <3>1. CASE k <= n
      <4>1. k \in 1 .. n
        BY <3>1
      <4>2. f[k] = f[k - 1] \o Follows(cs, k)
        BY <2>1, <4>1 DEF IsPrintUpTo
      <4>3. g[k] = f[k] /\ g[k - 1] = f[k - 1]
        BY <3>1
      <4> QED BY <4>2, <4>3
    <3>2. CASE k = n + 1
      BY <3>2
    <3> QED BY <3>1, <3>2
  <2>4. g = [k \in 0 .. n + 1 |-> g[k]]
    OBVIOUS
  <2> HIDE DEF g
  <2>5. IsPrintUpTo(cs, n + 1, g)
    BY <2>2, <2>3, <2>4 DEF IsPrintUpTo
  <2> QED BY <2>5
<1>3. \A n \in 0 .. Len(cs) : n \in S
  <2> HIDE DEF S
  <2> QED BY <1>1, <1>2, UpTo
<1>4. PICK f : IsPrintUpTo(cs, Len(cs), f)
  BY <1>3
<1>5. f = [n \in 0 .. Len(cs) |-> IF n = 0 THEN << >> ELSE f[n - 1] \o Follows(cs, n)]
  <2>1. /\ f = [n \in 0 .. Len(cs) |-> f[n]]
        /\ f[0] = << >>
        /\ \A n \in 1 .. Len(cs) : f[n] = f[n - 1] \o Follows(cs, n)
    BY <1>4 DEF IsPrintUpTo
  <2>2. \A n \in 0 .. Len(cs) : f[n] = IF n = 0 THEN << >> ELSE f[n - 1] \o Follows(cs, n)
    <3>1. /\ \A n \in 0 .. Len(cs) : n = 0 \/ n \in 1 .. Len(cs)
          /\ \A n \in 1 .. Len(cs) : n # 0
      OBVIOUS
    <3> QED BY <2>1, <3>1, Zenon
  <2> QED BY <2>1, <2>2, Zenon
<1> DEFINE Text == PrintUpTo(cs)
<1>6. Text = [n \in 0 .. Len(cs) |-> IF n = 0 THEN << >> ELSE Text[n - 1] \o Follows(cs, n)]
  BY <1>5 DEF PrintUpTo
<1> HIDE DEF Text
<1>7. \A n \in 0 .. Len(cs) : Text[n] = IF n = 0 THEN << >> ELSE Text[n - 1] \o Follows(cs, n)
  BY <1>6, Zenon
<1>8. Text = [n \in 0 .. Len(cs) |-> Text[n]]
  BY <1>6, <1>7
<1>9. IsPrintUpTo(cs, Len(cs), Text)
  BY <1>7, <1>8 DEF IsPrintUpTo
<1> QED BY <1>9 DEF Text

LEMMA PrintSeq ==
  ASSUME NEW cs \in Seq(ValidCalls)
  PROVE  PrintOf(cs) \in Seq(Glyphs)
<1> DEFINE Text == PrintUpTo(cs)
           S == {n \in 0 .. Len(cs) : Text[n] \in Seq(Glyphs)}
<1>1. Len(cs) \in Nat /\ IsPrintUpTo(cs, Len(cs), Text)
  BY PrintDefined
<1> HIDE DEF Text
<1>2. 0 \in S
  BY <1>1, EmptySeq DEF IsPrintUpTo
<1>3. ASSUME NEW n \in 0 .. Len(cs) - 1, n \in S PROVE n + 1 \in S
  <2>1. n + 1 \in 1 .. Len(cs) /\ (n + 1) - 1 = n
    BY <1>1
  <2>2. Text[n + 1] = Text[n] \o Follows(cs, n + 1)
    BY <1>1, <2>1 DEF IsPrintUpTo
  <2>3. Text[n] \in Seq(Glyphs) /\ Follows(cs, n + 1) \in Seq(Glyphs)
    BY <1>3, <2>1, FollowsSeq
  <2>4. Text[n + 1] \in Seq(Glyphs)
    BY <2>2, <2>3, ConcatProperties
  <2> QED BY <1>1, <2>1, <2>4
<1>4. Len(cs) \in S
  <2>1. Len(cs) \in 0 .. Len(cs)
    BY <1>1
  <2> HIDE DEF S
  <2> QED BY <1>1, <1>2, <1>3, <2>1, UpTo
<1> QED BY <1>4 DEF PrintOf, Text

\* One more call.
LEMMA PrintAppended ==
  ASSUME NEW cs \in Seq(ValidCalls), NEW c \in ValidCalls
  PROVE  PrintOf(Append(cs, c)) = PrintOf(cs) \o Follows(Append(cs, c), Len(cs) + 1)
<1> DEFINE ds == Append(cs, c)
           Before == PrintUpTo(cs)
           After == PrintUpTo(ds)
           S == {n \in 0 .. Len(cs) : After[n] = Before[n]}
<1>1. /\ ds \in Seq(ValidCalls) /\ Len(ds) = Len(cs) + 1 /\ Len(cs) \in Nat
      /\ \A i \in 1 .. Len(cs) : ds[i] = cs[i]
  BY AppendProperties
<1> HIDE DEF ds
<1>2. IsPrintUpTo(cs, Len(cs), Before) /\ IsPrintUpTo(ds, Len(cs) + 1, After)
  <2>1. Len(ds) \in Nat
    BY <1>1
  <2> QED BY <1>1, <2>1, PrintDefined
<1> HIDE DEF Before, After
<1>3. 0 \in S
  BY <1>1, <1>2 DEF IsPrintUpTo
<1>4. ASSUME NEW n \in 0 .. Len(cs) - 1, n \in S PROVE n + 1 \in S
  <2>1. n + 1 \in 1 .. Len(cs) /\ n + 1 \in 1 .. Len(cs) + 1 /\ (n + 1) - 1 = n
    BY <1>1
  <2>2. Follows(ds, n + 1) = Follows(cs, n + 1)
    <3>1. ds[n + 1] = cs[n + 1]
      BY <1>1, <2>1
    <3>2. n + 1 > 1 => ds[(n + 1) - 1] = cs[(n + 1) - 1]
      BY <1>1, <2>1
    <3> QED BY <3>1, <3>2 DEF Follows
  <2>3. After[n + 1] = After[n] \o Follows(ds, n + 1) /\ Before[n + 1] = Before[n] \o Follows(cs, n + 1)
    BY <1>2, <2>1 DEF IsPrintUpTo
  <2>4. n + 1 \in 0 .. Len(cs)
    BY <2>1
  <2> QED BY <1>4, <2>2, <2>3, <2>4
<1>5. After[Len(cs)] = Before[Len(cs)]
  <2>1. Len(cs) \in 0 .. Len(cs)
    BY <1>1
  <2>2. Len(cs) \in S
    <3> HIDE DEF S
    <3> QED BY <1>1, <1>3, <1>4, <2>1, UpTo
  <2> QED BY <2>2
<1>6. After[Len(cs) + 1] = After[Len(cs)] \o Follows(ds, Len(cs) + 1)
  <2>1. Len(cs) + 1 \in 1 .. Len(cs) + 1 /\ (Len(cs) + 1) - 1 = Len(cs)
    BY <1>1
  <2> QED BY <1>2, <2>1 DEF IsPrintUpTo
<1>7. PrintOf(ds) = After[Len(cs) + 1] /\ PrintOf(cs) = Before[Len(cs)]
  BY <1>1 DEF PrintOf, After, Before
<1> QED BY <1>5, <1>6, <1>7 DEF ds

\* The largest multiple below a number.
LEMMA Multiple ==
  ASSUME NEW a \in Nat, NEW b \in Nat, b > 0
  PROVE  /\ b * (a \div b) \in 0 .. a
         /\ a < b * (a \div b) + b
OBVIOUS

LEMMA Associative ==
  ASSUME NEW s \in Seq(Glyphs), NEW t \in Seq(Glyphs), NEW u \in Seq(Glyphs)
  PROVE  (s \o t) \o u = s \o (t \o u)
BY ConcatAssociative

\* Nothing is lost in the buffer, which is never left with more than it takes.
LEMMA PutWrites ==
  ASSUME out \in Seq(Glyphs), buf \in Seq(Glyphs), NEW text \in Seq(Glyphs), Put(text)
  PROVE  /\ out' \in Seq(Glyphs) /\ buf' \in Seq(Glyphs) /\ Len(buf') <= BufferSize
         /\ out' \o buf' = (out \o buf) \o text
<1> DEFINE all == buf \o text
           n == IF all = << >> THEN 0 ELSE BufferSize * ((Len(all) - 1) \div BufferSize)
<1>1. all \in Seq(Glyphs) /\ Len(all) \in Nat
  BY ConcatProperties
<1>2. out' = out \o SubSeq(all, 1, n) /\ buf' = SubSeq(all, n + 1, Len(all))
  BY DEF Put
<1> HIDE DEF all
<1>3. n \in 0 .. Len(all) /\ Len(all) - n <= BufferSize
  <2>1. CASE all = << >>
    BY <2>1, BufferSizeAssumption
  <2>2. CASE all # << >>
    <3>1. Len(all) - 1 \in Nat
      BY <1>1, <2>2, EmptySeq
    <3> DEFINE m == BufferSize * ((Len(all) - 1) \div BufferSize)
    <3>2. m \in 0 .. Len(all) - 1 /\ Len(all) - 1 < m + BufferSize
      BY <3>1, BufferSizeAssumption, Multiple
    <3>3. n = m
      BY <2>2
    <3> HIDE DEF m, n
    <3> QED BY <1>1, <3>2, <3>3, BufferSizeAssumption
  <2> QED BY <2>1, <2>2
<1> HIDE DEF n
<1>4. /\ SubSeq(all, 1, n) \in Seq(Glyphs) /\ Len(SubSeq(all, 1, n)) = n
      /\ \A i \in 1 .. n : SubSeq(all, 1, n)[i] = all[i]
  BY <1>1, <1>3, SubSeqProperties
<1>5. /\ SubSeq(all, n + 1, Len(all)) \in Seq(Glyphs)
      /\ Len(SubSeq(all, n + 1, Len(all))) = Len(all) - n
      /\ \A i \in 1 .. Len(all) - n : SubSeq(all, n + 1, Len(all))[i] = all[n + i]
  BY <1>1, <1>3, SubSeqProperties
<1>6. SubSeq(all, 1, n) \o SubSeq(all, n + 1, Len(all)) = all
  <2> DEFINE a == SubSeq(all, 1, n)
             b == SubSeq(all, n + 1, Len(all))
  <2>1. /\ a \in Seq(Glyphs) /\ Len(a) = n /\ b \in Seq(Glyphs) /\ Len(b) = Len(all) - n
        /\ \A i \in 1 .. n : a[i] = all[i]
        /\ \A i \in 1 .. Len(all) - n : b[i] = all[n + i]
    BY <1>4, <1>5
  <2> HIDE DEF a, b
  <2>2. /\ a \o b \in Seq(Glyphs) /\ Len(a \o b) = Len(a) + Len(b)
        /\ \A i \in 1 .. Len(a) + Len(b) : (a \o b)[i] = IF i <= Len(a) THEN a[i] ELSE b[i - Len(a)]
    BY <2>1, ConcatProperties
  <2>3. Len(a \o b) = Len(all)
    BY <1>1, <1>3, <2>1, <2>2
  <2>4. ASSUME NEW i \in 1 .. Len(all) PROVE (a \o b)[i] = all[i]
    <3>1. i \in 1 .. Len(a) + Len(b) /\ n \in Nat
      BY <1>1, <1>3, <2>1
    <3>2. CASE i <= n
      BY <2>1, <2>2, <3>1, <3>2
    <3>3. CASE i > n
      <4>1. i - n \in 1 .. Len(all) - n /\ n + (i - n) = i /\ ~(i <= n)
        BY <1>1, <3>1, <3>3
      <4>2. b[i - n] = all[n + (i - n)]
        BY <2>1, <4>1
      <4> QED BY <2>1, <2>2, <3>1, <4>1, <4>2
    <3>4. i <= n \/ i > n
      BY <3>1
    <3> QED BY <3>2, <3>3, <3>4
  <2>5. a \o b = all
    BY <1>1, <2>2, <2>3, <2>4, SeqEqual
  <2> QED BY <2>5 DEF a, b
<1>7. out' \in Seq(Glyphs)
  BY <1>2, <1>4, ConcatProperties
<1>8. out' \o buf' = out \o all
  <2> DEFINE a == SubSeq(all, 1, n)
             b == SubSeq(all, n + 1, Len(all))
  <2>1. a \in Seq(Glyphs) /\ b \in Seq(Glyphs) /\ a \o b = all /\ out' = out \o a /\ buf' = b
    BY <1>2, <1>4, <1>5, <1>6
  <2> HIDE DEF a, b
  <2>2. (out \o a) \o b = out \o (a \o b)
    BY <2>1, Associative
  <2> QED BY <2>1, <2>2
<1>9. out \o all = (out \o buf) \o text
  BY ConcatAssociative DEF all
<1> QED BY <1>2, <1>3, <1>5, <1>7, <1>8, <1>9

-----------------------------------------------------------------------------
(* What was printed.                                                       *)

\* The one bit tells whether a value was ended by the last call, wherever the printer
\* looks at it.
BitKnows ==
  frames # P!Stopped =>
    /\ Last(frames) \notin {"string", "key"} =>
         (previous_is_key <=> calls = << >> \/ Last(calls)[1] \notin Ending)
    /\ Last(frames) = "string" => ~previous_is_key

Buffered ==
  /\ calls \in Seq(ValidCalls)
  /\ out \in Seq(Glyphs) /\ buf \in Seq(Glyphs) /\ Len(buf) <= BufferSize
  /\ out \o buf = PrintOf(calls)

Printed == previous_is_key \in BOOLEAN /\ Buffered /\ BitKnows

LEMMA KnowsAfter ==
  ASSUME calls' # << >>, NEW h, NEW v, Last(calls') = << h, v >>,
         Last(frames') \notin {"string", "key"} => (previous_is_key' <=> h \notin Ending),
         Last(frames') = "string" => ~previous_is_key'
  PROVE  BitKnows'
<1>1. Last(calls')[1] = h
  OBVIOUS
<1> QED BY <1>1 DEF BitKnows

LEMMA LastOfAppend ==
  ASSUME NEW S, NEW s \in Seq(S), NEW x \in S
  PROVE  Append(s, x) # << >> /\ Last(Append(s, x)) = x
<1>1. Len(Append(s, x)) = Len(s) + 1 /\ Append(s, x)[Len(s) + 1] = x /\ Len(s) \in Nat
  BY AppendProperties
<1>2. Append(s, x) # << >>
  BY AppendProperties
<1> QED BY <1>1, <1>2 DEF Last

\* What one call more adds to the text: a comma if a value was ended before it.
LEMMA FollowsLast ==
  ASSUME calls \in Seq(ValidCalls), NEW c \in ValidCalls
  PROVE  Follows(Append(calls, c), Len(calls) + 1) =
           (IF calls # << >> /\ Last(calls)[1] \in Ending /\ c[1] \in Beginning
              THEN Char(",") ELSE << >>) \o TextOfCall(c)
<1> DEFINE cs == Append(calls, c)
           n == Len(calls) + 1
           Further == (IF calls # << >> /\ Last(calls)[1] \in Ending /\ c[1] \in Beginning
                         THEN Char(",") ELSE << >>) \o TextOfCall(c)
<1>1. Len(calls) \in Nat /\ cs[n] = c /\ \A i \in 1 .. Len(calls) : cs[i] = calls[i]
  BY AppendProperties
<1> HIDE DEF cs, Further
<1>2. ASSUME calls = << >> PROVE Follows(cs, n) = Further
  <2>1. n = 1 /\ ~(n > 1)
    BY <1>2
  <2> HIDE DEF n
  <2>2. Follows(cs, n) = << >> \o TextOfCall(c)
    BY <1>1, <2>1, Zenon DEF Follows
  <2> QED BY <1>2, <2>2 DEF Further
<1>3. ASSUME calls # << >> PROVE Follows(cs, n) = Further
  <2>1. n > 1 /\ n - 1 \in 1 .. Len(calls) /\ n - 1 = Len(calls)
    BY <1>1, <1>3, EmptySeq
  <2>2. cs[n - 1] = Last(calls)
    BY <1>1, <2>1 DEF Last
  <2>3. (n > 1 /\ cs[n - 1][1] \in Ending /\ cs[n][1] \in Beginning)
          <=> (calls # << >> /\ Last(calls)[1] \in Ending /\ c[1] \in Beginning)
    BY <1>1, <1>3, <2>1, <2>2
  <2>4. Follows(cs, n) = (IF n > 1 /\ cs[n - 1][1] \in Ending /\ cs[n][1] \in Beginning
                            THEN Char(",") ELSE << >>) \o TextOfCall(c)
    BY <1>1 DEF Follows
  <2> HIDE DEF n
  <2> QED BY <2>3, <2>4, Zenon DEF Further
<1>4. Follows(cs, n) = Further
  BY <1>2, <1>3
<1> QED BY <1>4 DEF cs, Further

\* A call is printed as it should be.
LEMMA CallPrinted ==
  ASSUME Buffered, NEW c \in ValidCalls, calls' = Append(calls, c),
         NEW text, Put(text), text = Follows(Append(calls, c), Len(calls) + 1)
  PROVE  Buffered' /\ calls' # << >> /\ Last(calls') = c
<1>1. calls \in Seq(ValidCalls)
  BY DEF Buffered
<1>2. calls' \in Seq(ValidCalls) /\ Len(calls') = Len(calls) + 1 /\ Len(calls) \in Nat
  BY <1>1, AppendProperties
<1>3. calls' # << >> /\ Last(calls') = c
  BY <1>1, LastOfAppend
<1>4. text \in Seq(Glyphs)
  <2>1. Len(calls) + 1 \in 1 .. Len(calls')
    BY <1>2
  <2> QED BY <1>2, <2>1, FollowsSeq
<1>5. /\ out' \in Seq(Glyphs) /\ buf' \in Seq(Glyphs) /\ Len(buf') <= BufferSize
      /\ out' \o buf' = (out \o buf) \o text
  BY <1>4, PutWrites DEF Buffered
<1>6. PrintOf(calls') = PrintOf(calls) \o text
  BY <1>1, PrintAppended
<1> QED BY <1>2, <1>3, <1>5, <1>6 DEF Buffered

\* A call that begins nothing has no comma before it.
LEMMA NoComma ==
  ASSUME Buffered, NEW c \in ValidCalls, calls' = Append(calls, c),
         c[1] \notin Beginning, Put(TextOfCall(c))
  PROVE  Buffered' /\ calls' # << >> /\ Last(calls') = c
<1>1. calls \in Seq(ValidCalls) /\ TextOfCall(c) \in Seq(Glyphs)
  BY TextOfCallSeq DEF Buffered
<1>2. Follows(Append(calls, c), Len(calls) + 1) = TextOfCall(c)
  BY <1>1, FollowsLast, ConcatEmptySeq
<1> QED BY <1>2, CallPrinted

\* Before one that begins a value or a member the bit decides.
LEMMA CommaByBit ==
  ASSUME Printed, NEW c \in ValidCalls, calls' = Append(calls, c), c[1] \in Beginning,
         frames # P!Stopped, Last(frames) \notin {"string", "key"},
         Put(Separator \o TextOfCall(c))
  PROVE  Buffered' /\ calls' # << >> /\ Last(calls') = c
<1>1. calls \in Seq(ValidCalls) /\ Buffered
  BY DEF Printed, Buffered
<1>2. previous_is_key \in BOOLEAN
      /\ (previous_is_key <=> calls = << >> \/ Last(calls)[1] \notin Ending)
  BY DEF Printed, BitKnows
<1>3. Separator = IF calls # << >> /\ Last(calls)[1] \in Ending /\ c[1] \in Beginning
                    THEN Char(",") ELSE << >>
  BY <1>2 DEF Separator
<1>4. Follows(Append(calls, c), Len(calls) + 1) = Separator \o TextOfCall(c)
  BY <1>1, <1>3, FollowsLast
<1> QED BY <1>1, <1>4, CallPrinted

LEMMA LastOfWithLast ==
  ASSUME NEW S, NEW s \in Seq(S), s # << >>, NEW f \in S
  PROVE  Last(P!WithLast(s, f)) = f /\ P!WithLast(s, f) \in Seq(S) /\ P!WithLast(s, f) # << >>
<1>1. Len(s) \in Nat /\ Len(s) > 0
  BY EmptySeq
<1>2. P!WithLast(s, f) = [s EXCEPT ![Len(s)] = f]
  BY DEF P!WithLast
<1>3. P!WithLast(s, f) \in Seq(S) /\ Len(P!WithLast(s, f)) = Len(s) /\ P!WithLast(s, f)[Len(s)] = f
  BY <1>1, <1>2
<1> QED BY <1>1, <1>3 DEF Last

LEMMA Valid ==
  /\ \A h \in P!ProtocolHandlers \ {"boolean", "double", "string_content", "key_content"} :
       << h, "" >> \in ValidCalls
  /\ \A h \in {"boolean", "double", "string_content", "key_content"}, v \in Texts :
       << h, v >> \in ValidCalls
  /\ {"begin_array", "begin_object", "begin_string", "begin_key", "end_array", "end_object",
      "end_string", "end_key", "null"}
       \subseteq P!ProtocolHandlers \ {"boolean", "double", "string_content", "key_content"}
<1>1. P!ProtocolHandlers =
        {"begin_array", "begin_object", "begin_string", "begin_key", "end_array",
         "end_object", "end_string", "end_key", "null", "boolean", "double",
         "string_content", "key_content"}
  BY Handler DEF P!ProtocolHandlers, P!Scalars
<1> QED BY <1>1 DEF ValidCalls

\* The frame that a call begins.
LEMMA Opened ==
  ASSUME IInv, NEW h \in {"begin_array", "begin_object", "begin_string"}, NEW v, Call(h, v)
  PROVE  /\ h = "begin_string" => Last(frames') = "string"
         /\ h # "begin_string" => Last(frames') \in {"array", "object"}
<1>1. /\ Last(frames) \in {"root", "array", "property"} /\ frames # P!Stopped
      /\ frames' = Append(P!WithLast(frames, P!Valued(Last(frames))), P!Begins[h])
  BY TookBegin
<1>2. /\ h = "begin_string" => P!Begins[h] = "string"
      /\ h # "begin_string" => P!Begins[h] \in {"array", "object"}
      /\ P!Begins[h] \in FrameNames
  <2>1. /\ P!Begins["begin_array"] = "array" /\ P!Begins["begin_object"] = "object"
        /\ P!Begins["begin_string"] = "string"
    BY DEF P!Begins
  <2> QED BY <2>1 DEF FrameNames
<1>3. frames \in Seq(FrameNames) /\ frames # << >>
  <2>1. frames \in Seq(FrameNames) /\ Len(frames) >= 1
    BY <1>1, WhereItIs DEF Nested
  <2> QED BY <2>1, EmptySeq
<1>4. P!Valued(Last(frames)) \in FrameNames
  BY <1>1 DEF P!Valued, FrameNames
<1>5. P!WithLast(frames, P!Valued(Last(frames))) \in Seq(FrameNames)
  BY <1>3, <1>4, LastOfWithLast
<1>6. Last(frames') = P!Begins[h]
  BY <1>1, <1>2, <1>5, LastOfAppend
<1> QED BY <1>2, <1>6

\* begin_array_handler, begin_object_handler, begin_string_handler
LEMMA PrintedBegin ==
  ASSUME IInv, Printed, NEW h \in {"begin_array", "begin_object", "begin_string"},
         Call(h, ""), Put(Separator \o TextOfCall(<< h, "" >>)),
         previous_is_key' = (h # "begin_string")
  PROVE  Printed'
<1>1. /\ Last(frames) \in {"root", "array", "property"} /\ frames # P!Stopped
      /\ frames' = Append(P!WithLast(frames, P!Valued(Last(frames))), P!Begins[h])
      /\ calls' = Append(calls, << h, "" >>)
  BY TookBegin DEF Call
<1>2. << h, "" >> \in ValidCalls
  BY Valid
<1>3. Buffered' /\ calls' # << >> /\ Last(calls') = << h, "" >>
  BY <1>1, <1>2, CommaByBit DEF Beginning
<1>4. /\ h = "begin_string" => Last(frames') = "string"
      /\ h # "begin_string" => Last(frames') \in {"array", "object"}
  BY Opened
<1>5. h \notin Ending
  BY DEF Ending
<1>6. BitKnows'
  <2>1. Last(frames') \notin {"string", "key"} => (previous_is_key' <=> h \notin Ending)
    BY <1>4, <1>5
  <2>2. Last(frames') = "string" => ~previous_is_key'
    BY <1>4
  <2> QED BY <1>3, <2>1, <2>2, KnowsAfter
<1> QED BY <1>3, <1>6 DEF Printed

\* begin_key_handler
LEMMA PrintedBeginKey ==
  ASSUME IInv, Printed, BeginKey
  PROVE  Printed'
<1>1. /\ Last(frames) = "object" /\ frames # P!Stopped /\ frames' = Append(frames, "key")
      /\ calls' = Append(calls, << "begin_key", "" >>)
      /\ Put(Separator \o Char("quote")) /\ previous_is_key' = previous_is_key
  BY TookBeginKey DEF BeginKey, Call, print_begin_key
<1>2. /\ << "begin_key", "" >> \in ValidCalls
      /\ TextOfCall(<< "begin_key", "" >>) = Char("quote")
  BY Valid DEF TextOfCall
<1>3. Buffered'
  BY <1>1, <1>2, CommaByBit DEF Beginning
<1>4. Last(frames') = "key"
  <2>1. Nested(frames)
    BY <1>1 DEF IInv, InStep
  <2>2. frames \in Seq(FrameNames) /\ "key" \in FrameNames
    BY <2>1 DEF Nested, FrameNames
  <2> QED BY <1>1, <2>2, LastOfAppend
<1> QED BY <1>1, <1>3, <1>4 DEF Printed, BitKnows

\* string_content_handler, key_content_handler
LEMMA PrintedContent ==
  ASSUME Printed, NEW h \in {"string_content", "key_content"}, NEW s \in Pieces,
         Call(h, s), print_content(s)
  PROVE  Printed'
<1>1. /\ Last(frames) = P!Contents[h] /\ frames # P!Stopped /\ frames' = frames
      /\ calls' = Append(calls, << h, s >>)
      /\ Put(TextOf(s)) /\ previous_is_key' = previous_is_key
  BY TookContent DEF Call, print_content
<1>2. /\ << h, s >> \in ValidCalls /\ TextOfCall(<< h, s >>) = TextOf(s)
      /\ h \notin Beginning /\ P!Contents[h] \in {"string", "key"}
  BY Valid, Handler DEF TextOfCall, Beginning, Texts
<1>3. Buffered'
  BY <1>1, <1>2, NoComma DEF Printed
<1> QED BY <1>1, <1>2, <1>3 DEF Printed, BitKnows

\* boolean_handler, double_handler, null_handler
LEMMA PrintedScalar ==
  ASSUME Printed, NEW h \in {"boolean", "double", "null"}, NEW v, << h, v >> \in ValidCalls,
         Call(h, v), Put(Separator \o TextOfCall(<< h, v >>)), previous_is_key' = FALSE
  PROVE  Printed'
<1>1. /\ Last(frames) \in {"array", "property"} /\ frames # P!Stopped
      /\ calls' = Append(calls, << h, v >>)
  BY TookScalar DEF Call
<1>2. Buffered' /\ calls' # << >> /\ Last(calls') = << h, v >>
  BY <1>1, CommaByBit DEF Beginning
<1>3. h \in Ending /\ previous_is_key' \in BOOLEAN
  BY DEF Ending
<1>4. BitKnows'
  BY <1>2, <1>3, KnowsAfter
<1> QED BY <1>2, <1>3, <1>4 DEF Printed

\* end_array_handler, end_object_handler, end_string_handler
LEMMA PrintedEnd ==
  ASSUME Printed, NEW h \in {"end_array", "end_object", "end_string"}, Call(h, ""),
         Put(TextOfCall(<< h, "" >>)),
         previous_is_key' = FALSE \/ (h = "end_string" /\ previous_is_key' = previous_is_key)
  PROVE  Printed'
<1>1. frames # P!Stopped /\ calls' = Append(calls, << h, "" >>)
  BY TookEnd DEF Call
<1>2. << h, "" >> \in ValidCalls /\ h \notin Beginning
  BY Valid DEF Beginning
<1>3. Buffered' /\ calls' # << >> /\ Last(calls') = << h, "" >>
  BY <1>1, <1>2, NoComma DEF Printed
<1>4. ~previous_is_key' /\ previous_is_key' \in BOOLEAN
  <2>1. CASE previous_is_key' = FALSE
    BY <2>1
  <2>2. CASE h = "end_string" /\ previous_is_key' = previous_is_key
    <3>1. Last(frames) = "string"
      BY <2>2, Handler DEF Call, P!Taken, P!Scalars
    <3> QED BY <1>1, <2>2, <3>1 DEF Printed, BitKnows
  <2> QED BY <2>1, <2>2
<1>5. h \in Ending
  BY DEF Ending
<1>6. BitKnows'
  BY <1>3, <1>4, <1>5, KnowsAfter
<1> QED BY <1>3, <1>4, <1>6 DEF Printed

\* end_key_handler
LEMMA PrintedEndKey ==
  ASSUME IInv, Printed, EndKey
  PROVE  Printed'
<1>1. /\ Last(frames) = "key" /\ frames # P!Stopped
      /\ frames' = P!WithLast(Front(frames), "property")
      /\ calls' = Append(calls, << "end_key", "" >>)
      /\ Put(Char("quote") \o Char(":")) /\ previous_is_key' = TRUE
  BY TookEndKey DEF EndKey, Call, print_end_key
<1>2. /\ << "end_key", "" >> \in ValidCalls /\ "end_key" \notin Beginning
      /\ TextOfCall(<< "end_key", "" >>) = Char("quote") \o Char(":")
  BY Valid DEF TextOfCall, Beginning
<1>3. Buffered' /\ calls' # << >> /\ Last(calls') = << "end_key", "" >>
  BY <1>1, <1>2, NoComma DEF Printed
<1>4. Last(frames') = "property"
  <2>1. Nested(frames) /\ Len(frames) >= 3 /\ Len(frames) \in Nat
    BY <1>1, WhereItIs
  <2>2. /\ frames \in Seq(FrameNames) /\ "property" \in FrameNames
        /\ Front(frames) = SubSeq(frames, 1, Len(frames) - 1)
    BY <2>1 DEF Nested, FrameNames, Front
  <2>3. Front(frames) \in Seq(FrameNames) /\ Len(Front(frames)) = Len(frames) - 1
    BY <2>1, <2>2, SubSeqProperties
  <2>4. Front(frames) # << >>
    BY <2>1, <2>3, EmptySeq
  <2> QED BY <1>1, <2>2, <2>3, <2>4, LastOfWithLast
<1>5. "end_key" \notin Ending
  BY DEF Ending
<1>6. BitKnows'
  BY <1>1, <1>3, <1>4, <1>5, KnowsAfter
<1>7. previous_is_key' \in BOOLEAN
  BY <1>1
<1> QED BY <1>3, <1>6, <1>7 DEF Printed

LEMMA PrintedStep ==
  ASSUME IInv, Printed, [Next]_vars
  PROVE  Printed'
<1>1. ASSUME BeginArray \/ BeginObject \/ BeginString PROVE Printed'
  <2>1. ASSUME NEW h \in {"begin_array", "begin_object", "begin_string"}
        PROVE  TextOfCall(<< h, "" >>) =
                 CASE h = "begin_array" -> Char("[") [] h = "begin_object" -> Char("{")
                   [] h = "begin_string" -> Char("quote")
    BY DEF TextOfCall
  <2>2. CASE BeginArray
    BY <2>1, <2>2, PrintedBegin DEF BeginArray, print_begin
  <2>3. CASE BeginObject
    BY <2>1, <2>3, PrintedBegin DEF BeginObject, print_begin
  <2>4. CASE BeginString
    BY <2>1, <2>4, PrintedBegin DEF BeginString, print_begin_string
  <2> QED BY <1>1, <2>2, <2>3, <2>4
<1>2. ASSUME EndArray \/ EndObject \/ EndString PROVE Printed'
  <2>1. /\ TextOfCall(<< "end_array", "" >>) = Char("]")
        /\ TextOfCall(<< "end_object", "" >>) = Char("}")
        /\ TextOfCall(<< "end_string", "" >>) = Char("quote")
    BY DEF TextOfCall
  <2> QED BY <1>2, <2>1, PrintedEnd
          DEF EndArray, EndObject, EndString, print_end, print_end_string
<1>3. ASSUME Contents PROVE Printed'
  BY <1>3, PrintedContent DEF Contents, StringContent, KeyContent
<1>4. ASSUME Scalars PROVE Printed'
  <2>1. ASSUME NEW v \in Booleans, Boolean(v) PROVE Printed'
    <3>1. << "boolean", v >> \in ValidCalls /\ TextOfCall(<< "boolean", v >>) = TextOf(v)
      BY Valid DEF Texts, TextOfCall
    <3> QED BY <2>1, <3>1, PrintedScalar DEF Boolean, print_scalar
  <2>2. ASSUME NEW v \in Numbers, Double(v) PROVE Printed'
    <3>1. << "double", v >> \in ValidCalls /\ TextOfCall(<< "double", v >>) = TextOf(v)
      BY Valid DEF Texts, TextOfCall
    <3> QED BY <2>2, <3>1, PrintedScalar DEF Double, print_scalar
  <2>3. ASSUME Null PROVE Printed'
    <3>1. << "null", "" >> \in ValidCalls /\ TextOfCall(<< "null", "" >>) = TextOf("null")
      BY Valid DEF TextOfCall
    <3> QED BY <2>3, <3>1, PrintedScalar DEF Null, print_scalar
  <2> QED BY <1>4, <2>1, <2>2, <2>3 DEF Scalars
<1>5. ASSUME Finish PROVE Printed'
  <2>1. out' = out \o buf /\ buf' = << >> /\ UNCHANGED << frames, calls, previous_is_key >>
    BY <1>5 DEF Finish, flushbuffer
  <2>2. out \o buf \in Seq(Glyphs) /\ << >> \in Seq(Glyphs) /\ out \o buf = PrintOf(calls)
    BY ConcatProperties, EmptySeq DEF Printed, Buffered
  <2>3. out' \o buf' = PrintOf(calls)
    BY <2>1, <2>2, ConcatEmptySeq
  <2>4. Len(buf') <= BufferSize
    BY <2>1, BufferSizeAssumption
  <2> QED BY <2>1, <2>2, <2>3, <2>4 DEF Printed, Buffered, BitKnows
<1>6. ASSUME GiveUp PROVE Printed'
  BY <1>6 DEF GiveUp, printerVars, Printed, Buffered, BitKnows
<1>7. ASSUME UNCHANGED vars PROVE Printed'
  BY <1>7 DEF vars, printerVars, Printed, Buffered, BitKnows
<1> QED BY <1>1, <1>2, <1>3, <1>4, <1>5, <1>6, <1>7, PrintedBeginKey, PrintedEndKey
        DEF Next, Finished, Begins, Ends

LEMMA InitPrinted ==
  ASSUME Init
  PROVE  Printed
<1>1. /\ frames = << "root" >> /\ calls = << >> /\ previous_is_key = TRUE
      /\ buf = << >> /\ out = << >>
  BY DEF Init, PrinterInit
<1>2. << >> \in Seq(ValidCalls) /\ << >> \in Seq(Glyphs)
  BY EmptySeq
<1>3. PrintOf(<< >>) = << >>
  <2>1. IsPrintUpTo(<< >>, 0, PrintUpTo(<< >>))
    <3>1. Len(<< >>) = 0
      OBVIOUS
    <3> QED BY <3>1, PrintDefined
  <2> QED BY <2>1 DEF PrintOf, IsPrintUpTo
<1>4. out \o buf = PrintOf(calls)
  BY <1>1, <1>2, <1>3, ConcatEmptySeq
<1>5. Last(frames) = "root"
  BY <1>1 DEF Last
<1> QED BY <1>1, <1>2, <1>4, <1>5, BufferSizeAssumption DEF Printed, Buffered, BitKnows

\* What was printed, and the members of the items, in every state.
THEOREM WholeInductive == Spec => [](IInv /\ Closed(item_) /\ Printed)
<1>1. Init => Closed(item_) /\ Printed
  BY InitClosed, InitPrinted
<1>2. IInv /\ Closed(item_) /\ Printed /\ [Next]_vars => (Closed(item_) /\ Printed)'
  BY ClosedStep, PrintedStep
<1> QED BY <1>1, <1>2, Inductive, PTL DEF Spec

LEMMA SeqOfMembers ==
  ASSUME NEW S, NEW T, NEW s \in Seq(S), \A i \in 1 .. Len(s) : s[i] \in T
  PROVE  s \in Seq(T)
<1>1. Len(s) \in Nat /\ s = [i \in 1 .. Len(s) |-> s[i]]
  OBVIOUS
<1>2. [i \in 1 .. Len(s) |-> s[i]] \in [1 .. Len(s) -> T]
  OBVIOUS
<1>3. s \in [1 .. Len(s) -> T]
  BY <1>1, <1>2, Zenon
<1> QED BY <1>1, <1>3, SeqDef

LEMMA SeqOfSubset ==
  ASSUME NEW S, NEW T, S \subseteq T, NEW s \in Seq(S)
  PROVE  s \in Seq(T)
<1>1. \A i \in 1 .. Len(s) : s[i] \in T
  OBVIOUS
<1> QED BY <1>1, SeqOfMembers

\* Every variable keeps its type: the pointers on the stack are paths of the item, whose
\* nodes are exactly the root and the members of its arrays and objects, and the
\* printer's buffer never holds more than its size.
THEOREM TypeCorrect == Spec => []TypeOK
<1>1. IInv /\ Closed(item_) /\ Printed => TypeOK
  <2> SUFFICES ASSUME IInv, Closed(item_), Printed PROVE TypeOK
    OBVIOUS
  <2>1. calls \in Seq(P!ProtocolHandlers \X (Texts \cup {""}))
    <3>1. calls \in Seq(ValidCalls)
      BY DEF Printed, Buffered
    <3>2. ValidCalls \subseteq P!ProtocolHandlers \X (Texts \cup {""})
      BY DEF ValidCalls
    <3> QED BY <3>1, <3>2, SeqOfSubset
  <2>2. DOMAIN item_ = {<< >>} \cup UNION {MembersOf(item_, p) : p \in DOMAIN item_}
    BY DEF Closed
  <2>3. \A p \in DOMAIN item_ : IsNode(item_[p])
    BY DEF IInv, Sound, Grounded, Nodes, IsNode
  <2>4. current_item_ \in Seq(DOMAIN item_)
    <3>1. current_item_ \in Seq(Seq(Nat)) /\ \A i \in 1 .. Len(current_item_) : current_item_[i] \in DOMAIN item_
      BY DEF IInv, Sound, Leads
    <3> QED BY <3>1, SeqOfMembers
  <2>5. lastString_ \in Seq(Pieces) /\ previous_is_key \in BOOLEAN /\ Len(buf) <= BufferSize
    BY DEF IInv, Sound, Printed, Buffered
  <2> QED BY <2>1, <2>2, <2>3, <2>4, <2>5 DEF TypeOK
<1> QED BY <1>1, WholeInductive, PTL

\* For documents of every length and depth and a buffer of any size, the bit that
\* decides about the comma is right: what jsonprint has printed is the text of the calls.
THEOREM PrintsRight == Spec => []PrintsWhatWasGiven
<1>1. IInv /\ Closed(item_) /\ Printed => PrintsWhatWasGiven
  BY DEF Printed, Buffered, PrintsWhatWasGiven
<1> QED BY <1>1, WholeInductive, PTL

-----------------------------------------------------------------------------
(* The places of calls.                                                    *)

LEMMA OneFurther ==
  ASSUME NEW b \in Seq(Int), NEW k \in Int
  PROVE  /\ Append(b, k) \in Seq(Int) /\ Len(Append(b, k)) = Len(b) + 1 /\ Len(b) \in Nat
         /\ DOMAIN b = 1 .. Len(b) /\ DOMAIN Append(b, k) = 1 .. Len(b) + 1
         /\ Append(b, k)[Len(b) + 1] = k
         /\ \A i \in 1 .. Len(b) : Append(b, k)[i] = b[i]
BY AppendProperties

\* Two places differ first at the i-th number, and there a is less.
LessAt(a, b, i) == a[i] < b[i] /\ \A j \in 1 .. i - 1 : a[j] = b[j]

LEMMA PrecedesIs ==
  ASSUME NEW a \in Seq(Int), NEW b \in Seq(Int)
  PROVE  Precedes(a, b) <=> \E i \in Nat : i >= 1 /\ i <= Len(a) /\ i <= Len(b) /\ LessAt(a, b, i)
<1>1. /\ DOMAIN a = 1 .. Len(a) /\ DOMAIN b = 1 .. Len(b) /\ Len(a) \in Nat /\ Len(b) \in Nat
  OBVIOUS
<1>2. ASSUME NEW i PROVE i \in DOMAIN a /\ i \in DOMAIN b <=> i \in Nat /\ i >= 1 /\ i <= Len(a) /\ i <= Len(b)
  BY <1>1
<1> QED BY <1>2 DEF Precedes, LessAt

\* What is before a place is before all that is in it.
LEMMA Within ==
  ASSUME NEW a \in Seq(Int), NEW b \in Seq(Int), NEW k \in Int, Precedes(a, b)
  PROVE  Precedes(a, Append(b, k))
<1> DEFINE c == Append(b, k)
<1>1. c \in Seq(Int) /\ Len(c) = Len(b) + 1 /\ Len(b) \in Nat /\ \A i \in 1 .. Len(b) : c[i] = b[i]
  BY OneFurther
<1> HIDE DEF c
<1>2. PICK i \in Nat : i >= 1 /\ i <= Len(a) /\ i <= Len(b) /\ LessAt(a, b, i)
  BY PrecedesIs
<1>3. i <= Len(c) /\ LessAt(a, c, i)
  BY <1>1, <1>2 DEF LessAt
<1>4. Precedes(a, c)
  BY <1>1, <1>2, <1>3, PrecedesIs
<1> QED BY <1>4 DEF c

\* And before what follows it.
LEMMA Beside ==
  ASSUME NEW a \in Seq(Int), NEW b \in Seq(Int), NEW k \in Int, NEW j \in Int, k <= j,
         Precedes(a, Append(b, k))
  PROVE  Precedes(a, Append(b, j))
<1> DEFINE c == Append(b, k)
           d == Append(b, j)
<1>1. /\ c \in Seq(Int) /\ Len(c) = Len(b) + 1 /\ Len(b) \in Nat /\ c[Len(b) + 1] = k
      /\ d \in Seq(Int) /\ Len(d) = Len(b) + 1 /\ d[Len(b) + 1] = j
      /\ \A i \in 1 .. Len(b) : c[i] = b[i] /\ d[i] = b[i]
  BY OneFurther
<1>0. Precedes(a, c)
  OBVIOUS
<1> HIDE DEF c, d
<1>2. PICK i \in Nat : i >= 1 /\ i <= Len(a) /\ i <= Len(c) /\ LessAt(a, c, i)
  BY <1>0, <1>1, PrecedesIs
<1>3. i <= Len(d) /\ \A m \in 1 .. i - 1 : a[m] = d[m]
  <2> SUFFICES ASSUME NEW m \in 1 .. i - 1 PROVE a[m] = d[m]
    BY <1>1, <1>2
  <2>1. m \in 1 .. Len(b)
    <3>1. i - 1 <= Len(b) /\ Len(b) \in Nat
      BY <1>1, <1>2
    <3> QED BY <3>1
  <2>2. a[m] = c[m]
    BY <1>2 DEF LessAt
  <2> QED BY <1>1, <2>1, <2>2
<1>4. a[i] < d[i]
  <2>0. a[i] \in Int /\ a[i] < c[i]
    BY <1>2 DEF LessAt
  <2>1. CASE i = Len(b) + 1
    BY <1>1, <2>0, <2>1
  <2>2. CASE i # Len(b) + 1
    <3>1. i \in 1 .. Len(b)
      BY <1>1, <1>2, <2>2
    <3> QED BY <1>1, <2>0, <3>1
  <2> QED BY <2>1, <2>2
<1>5. Precedes(a, d)
  BY <1>1, <1>2, <1>3, <1>4, PrecedesIs DEF LessAt
<1> QED BY <1>5 DEF d

\* What is before a place in a node is before what follows the node.
LEMMA Behind ==
  ASSUME NEW a \in Seq(Int), NEW b \in Seq(Int), NEW i \in Int, NEW k \in Int, NEW j \in Int,
         i < j, Precedes(a, Append(Append(b, i), k))
  PROVE  Precedes(a, Append(b, j))
<1> DEFINE p == Append(b, i)
           c == Append(p, k)
           d == Append(b, j)
<1>1. /\ p \in Seq(Int) /\ Len(p) = Len(b) + 1 /\ Len(b) \in Nat /\ p[Len(b) + 1] = i
      /\ d \in Seq(Int) /\ Len(d) = Len(b) + 1 /\ d[Len(b) + 1] = j
      /\ \A m \in 1 .. Len(b) : p[m] = b[m] /\ d[m] = b[m]
  BY OneFurther
<1> HIDE DEF p
<1>2. c \in Seq(Int) /\ Len(c) = Len(p) + 1 /\ \A m \in 1 .. Len(p) : c[m] = p[m]
  BY <1>1, OneFurther
<1>0. Precedes(a, c)
  BY DEF p
<1> HIDE DEF c, d
<1>3. PICK n \in Nat : n >= 1 /\ n <= Len(a) /\ n <= Len(c) /\ LessAt(a, c, n)
  BY <1>0, <1>2, PrecedesIs
<1>4. c[Len(b) + 1] = i /\ \A m \in 1 .. Len(b) : c[m] = b[m]
  <2>1. Len(b) + 1 \in 1 .. Len(p) /\ \A m \in 1 .. Len(b) : m \in 1 .. Len(p)
    BY <1>1
  <2> QED BY <1>1, <1>2, <2>1
<1>5. CASE n <= Len(b)
  <2>1. n <= Len(d) /\ n \in 1 .. Len(b)
    BY <1>1, <1>3, <1>5
  <2>2. a[n] < d[n]
    BY <1>1, <1>3, <1>4, <2>1 DEF LessAt
  <2>3. \A m \in 1 .. n - 1 : a[m] = d[m]
    <3>1. \A m \in 1 .. n - 1 : m \in 1 .. Len(b)
      BY <1>1, <1>5
    <3> QED BY <1>1, <1>3, <1>4, <3>1 DEF LessAt
  <2>4. Precedes(a, d)
    BY <1>1, <1>3, <2>1, <2>2, <2>3, PrecedesIs DEF LessAt
  <2> QED BY <2>4 DEF d
<1>6. CASE n > Len(b)
  <2> DEFINE m == Len(b) + 1
  <2>1. m \in Nat /\ m >= 1 /\ m <= Len(a) /\ m <= Len(d) /\ a[m] \in Int
    BY <1>1, <1>3, <1>6
  <2>2. a[m] <= i
    <3>1. CASE n = m
      BY <1>3, <1>4, <2>1, <3>1 DEF LessAt
    <3>2. CASE n # m
      <4>1. m \in 1 .. n - 1
        BY <1>1, <1>3, <1>6, <3>2
      <4>2. a[m] = c[m]
        BY <1>3, <4>1 DEF LessAt
      <4> QED BY <1>4, <2>1, <4>2
    <3> QED BY <3>1, <3>2
  <2>3. a[m] < d[m]
    BY <1>1, <2>1, <2>2
  <2>4. \A l \in 1 .. m - 1 : a[l] = d[l]
    <3> SUFFICES ASSUME NEW l \in 1 .. Len(b) PROVE a[l] = d[l]
      BY <1>1
    <3>1. l \in 1 .. n - 1
      BY <1>1, <1>6
    <3> QED BY <1>1, <1>3, <1>4, <3>1 DEF LessAt
  <2>5. Precedes(a, d)
    <3> HIDE DEF m
    <3>1. LessAt(a, d, m)
      BY <2>3, <2>4 DEF LessAt
    <3> QED BY <1>1, <2>1, <3>1, PrecedesIs
  <2> QED BY <2>5 DEF d
<1> QED BY <1>1, <1>3, <1>5, <1>6

\* The parts of a node are in the order of their numbers.
LEMMA InTurn ==
  ASSUME NEW b \in Seq(Int), NEW i \in Int, NEW j \in Int, i < j
  PROVE  Precedes(Append(b, i), Append(b, j))
<1> DEFINE c == Append(b, i)
           d == Append(b, j)
<1>1. /\ c \in Seq(Int) /\ Len(c) = Len(b) + 1 /\ Len(b) \in Nat /\ c[Len(b) + 1] = i
      /\ d \in Seq(Int) /\ Len(d) = Len(b) + 1 /\ d[Len(b) + 1] = j
      /\ \A m \in 1 .. Len(b) : c[m] = b[m] /\ d[m] = b[m]
  BY OneFurther
<1> HIDE DEF c, d
<1>2. LessAt(c, d, Len(b) + 1)
  BY <1>1 DEF LessAt
<1>3. Len(b) + 1 \in Nat /\ Len(b) + 1 >= 1 /\ Len(b) + 1 <= Len(c) /\ Len(b) + 1 <= Len(d)
  BY <1>1
<1>4. Precedes(c, d)
  BY <1>1, <1>2, <1>3, PrecedesIs
<1> QED BY <1>4 DEF c, d

\* A node's own calls are before what follows the node.
LEMMA NodeBehind ==
  ASSUME NEW b \in Seq(Int), NEW i \in Int, NEW k \in Int, NEW j \in Int, i < j
  PROVE  Precedes(Append(Append(b, i), k), Append(b, j))
<1> DEFINE p == Append(b, i)
<1>1. p \in Seq(Int) /\ Precedes(p, Append(b, j))
  BY OneFurther, InTurn
<1>2. Append(p, k) \in Seq(Int) /\ Append(p, k + 1) \in Seq(Int) /\ k + 1 \in Int
  BY <1>1, OneFurther
<1> HIDE DEF p
<1>3. Precedes(Append(p, k), Append(p, k + 1))
  <2>1. k < k + 1
    OBVIOUS
  <2> QED BY <1>1, <1>2, <2>1, InTurn
<1>4. Precedes(Append(Append(b, i), k), Append(Append(b, i), k + 1))
      /\ Append(Append(b, i), k) \in Seq(Int)
  BY <1>2, <1>3 DEF p
<1> QED BY <1>2, <1>4, Behind

LEMMA NotItself ==
  ASSUME NEW a \in Seq(Int)
  PROVE  ~Precedes(a, a)
<1> SUFFICES ASSUME Precedes(a, a) PROVE FALSE
  OBVIOUS
<1>1. PICK i \in Nat : i >= 1 /\ i <= Len(a) /\ LessAt(a, a, i)
  BY PrecedesIs
<1>2. a[i] \in Int /\ a[i] < a[i]
  BY <1>1 DEF LessAt
<1> QED BY <1>2

LEMMA NotBoth ==
  ASSUME NEW a \in Seq(Int), NEW b \in Seq(Int), Precedes(a, b)
  PROVE  ~Precedes(b, a)
<1> SUFFICES ASSUME Precedes(b, a) PROVE FALSE
  OBVIOUS
<1>1. PICK i \in Nat : i >= 1 /\ i <= Len(a) /\ i <= Len(b) /\ LessAt(a, b, i)
  BY PrecedesIs
<1>2. PICK j \in Nat : j >= 1 /\ j <= Len(a) /\ j <= Len(b) /\ LessAt(b, a, j)
  BY PrecedesIs
<1>3. a[i] \in Int /\ b[i] \in Int /\ a[j] \in Int /\ b[j] \in Int
  BY <1>1, <1>2
<1>4. CASE i = j
  BY <1>1, <1>2, <1>3, <1>4 DEF LessAt
<1>5. CASE i < j
  <2>1. i \in 1 .. j - 1
    BY <1>1, <1>5
  <2> QED BY <1>1, <1>2, <1>3, <2>1 DEF LessAt
<1>6. CASE j < i
  <2>1. j \in 1 .. i - 1
    BY <1>2, <1>6
  <2> QED BY <1>1, <1>2, <1>3, <2>1 DEF LessAt
<1> QED BY <1>4, <1>5, <1>6

-----------------------------------------------------------------------------
(* Counting what is told.                                                  *)

\* The calls at the places of a set, in their order, are these.
Tells(told, cs) ==
  /\ IsFiniteSet(told) /\ Cardinality(told) = Len(cs)
  /\ \A t \in told : t[1] \in Seq(Int) /\ Rank(told, t[1]) < Len(cs)
  /\ \A s, t \in told : Rank(told, s[1]) = Rank(told, t[1]) => s = t
  /\ \A n \in 1 .. Len(cs) : \E t \in told : Rank(told, t[1]) = n - 1 /\ t[2] = cs[n]

AllBefore(told, place) == \A t \in told : Precedes(t[1], place)

LEMMA RankType ==
  ASSUME NEW told, IsFiniteSet(told), NEW place
  PROVE  Rank(told, place) \in Nat
<1>1. IsFiniteSet({t \in told : Precedes(t[1], place)})
  BY FS_Subset
<1> QED BY <1>1, FS_CardinalityType DEF Rank

LEMMA TellsInOrder ==
  ASSUME NEW told, NEW S, NEW cs \in Seq(S), Tells(told, cs)
  PROVE  InOrder(told) = cs
<1> DEFINE ranked == {<< Rank(told, t[1]) + 1, t[2] >> : t \in told}
           Nth(n) == CHOOSE r \in ranked : r[1] = n
<1>1. InOrder(told) = [n \in 1 .. Len(cs) |-> Nth(n)[2]]
  BY DEF InOrder, Tells
<1>2. ASSUME NEW r \in ranked PROVE \E t \in told : r[1] = Rank(told, t[1]) + 1 /\ r[2] = t[2]
  OBVIOUS
<1>3. ASSUME NEW t \in told
      PROVE  \E r \in ranked : r[1] = Rank(told, t[1]) + 1 /\ r[2] = t[2]
  <2>1. << Rank(told, t[1]) + 1, t[2] >> \in ranked
    OBVIOUS
  <2> HIDE DEF ranked
  <2>2. << Rank(told, t[1]) + 1, t[2] >>[1] = Rank(told, t[1]) + 1
        /\ << Rank(told, t[1]) + 1, t[2] >>[2] = t[2]
    OBVIOUS
  <2> QED BY <2>1, <2>2
<1>4. \A t \in told : Rank(told, t[1]) \in Nat
  BY RankType DEF Tells
<1> HIDE DEF ranked
<1>5. ASSUME NEW n \in 1 .. Len(cs) PROVE Nth(n)[2] = cs[n]
  <2>1. PICK t \in told : Rank(told, t[1]) = n - 1 /\ t[2] = cs[n]
    BY DEF Tells
  <2>2. \E r \in ranked : r[1] = n
    BY <1>3, <2>1
  <2>3. Nth(n) \in ranked /\ Nth(n)[1] = n
    BY <2>2
  <2> HIDE DEF Nth
  <2>4. PICK s \in told : n = Rank(told, s[1]) + 1 /\ Nth(n)[2] = s[2]
    BY <1>2, <2>3
  <2>5. Rank(told, s[1]) = Rank(told, t[1])
    BY <1>4, <2>1, <2>4
  <2>6. s = t
    BY <2>5 DEF Tells
  <2> QED BY <2>1, <2>4, <2>6
<1> HIDE DEF Nth
<1>6. InOrder(told) = [n \in 1 .. Len(cs) |-> cs[n]]
  BY <1>1, <1>5
<1>7. cs = [n \in 1 .. Len(cs) |-> cs[n]]
  OBVIOUS
<1> QED BY <1>6, <1>7

LEMMA TellsNothing == Tells({}, << >>)
<1>1. IsFiniteSet({}) /\ Cardinality({}) = 0
  BY FS_EmptySet
<1>2. Len(<< >>) = 0
  OBVIOUS
<1> QED BY <1>1, <1>2 DEF Tells

\* A call is told of after all others.
LEMMA TellsOneMore ==
  ASSUME NEW told, NEW S, NEW cs \in Seq(S), Tells(told, cs), NEW c \in S,
         NEW place \in Seq(Int), AllBefore(told, place)
  PROVE  Tells(told \cup {<< place, c >>}, Append(cs, c))
<1> DEFINE new == << place, c >>
           more == told \cup {new}
           ds == Append(cs, c)
<1>1. /\ Len(cs) \in Nat /\ Len(ds) = Len(cs) + 1 /\ ds[Len(cs) + 1] = c
      /\ \A n \in 1 .. Len(cs) : ds[n] = cs[n]
  BY AppendProperties
<1>2. new[1] = place /\ new[2] = c
  OBVIOUS
<1> HIDE DEF new, ds
<1>3. new \notin told
  BY <1>2, NotItself DEF AllBefore
<1>4. IsFiniteSet(more) /\ Cardinality(more) = Len(ds)
  BY <1>1, <1>3, FS_AddElement DEF Tells
<1>5. ASSUME NEW t \in told PROVE Rank(more, t[1]) = Rank(told, t[1])
  <2>1. ~Precedes(place, t[1])
    BY NotBoth DEF AllBefore, Tells
  <2>2. {s \in more : Precedes(s[1], t[1])} = {s \in told : Precedes(s[1], t[1])}
    BY <1>2, <2>1
  <2> QED BY <2>2 DEF Rank
<1>6. Rank(more, place) = Len(cs)
  <2>1. {s \in more : Precedes(s[1], place)} = told
    BY <1>2, <1>3, NotItself DEF AllBefore
  <2> QED BY <2>1 DEF Rank, Tells
<1> HIDE DEF more
<1>7. \A t : t \in more <=> t \in told \/ t = new
  BY DEF more
<1>8. ASSUME NEW t \in more
      PROVE  t[1] \in Seq(Int) /\ Rank(more, t[1]) < Len(ds)
  <2>1. CASE t = new
    BY <1>1, <1>2, <1>6, <2>1
  <2>2. CASE t \in told
    <3>1. t[1] \in Seq(Int) /\ Rank(told, t[1]) < Len(cs)
      BY <2>2 DEF Tells
    <3>2. Rank(told, t[1]) \in Nat
      BY RankType DEF Tells
    <3> QED BY <1>1, <1>5, <2>2, <3>1, <3>2
  <2> QED BY <1>7, <2>1, <2>2
<1>9. ASSUME NEW s \in more, NEW t \in more, Rank(more, s[1]) = Rank(more, t[1])
      PROVE  s = t
  <2>1. \A r \in told : Rank(more, r[1]) # Len(cs)
    <3> SUFFICES ASSUME NEW r \in told PROVE Rank(told, r[1]) # Len(cs)
      BY <1>5
    <3>1. Rank(told, r[1]) < Len(cs)
      BY DEF Tells
    <3> QED BY <1>1, <3>1
  <2>2. CASE s \in told /\ t \in told
    BY <1>5, <1>9, <2>2 DEF Tells
  <2>3. CASE s = new \/ t = new
    BY <1>2, <1>6, <1>7, <1>9, <2>1, <2>3
  <2> QED BY <1>7, <2>2, <2>3
<1>10. ASSUME NEW n \in 1 .. Len(ds)
       PROVE  \E t \in more : Rank(more, t[1]) = n - 1 /\ t[2] = ds[n]
  <2>1. CASE n = Len(cs) + 1
    BY <1>1, <1>2, <1>6, <1>7, <2>1
  <2>2. CASE n # Len(cs) + 1
    <3>1. n \in 1 .. Len(cs)
      BY <1>1, <2>2
    <3>2. PICK t \in told : Rank(told, t[1]) = n - 1 /\ t[2] = cs[n]
      BY <3>1 DEF Tells
    <3> QED BY <1>1, <1>5, <1>7, <3>1, <3>2
  <2> QED BY <2>1, <2>2
<1>11. Tells(more, ds)
  BY <1>4, <1>8, <1>9, <1>10 DEF Tells
<1> QED BY <1>11 DEF more, ds, new

-----------------------------------------------------------------------------
(* What a node tells.                                                      *)

LEMMA PieceAdded ==
  ASSUME NEW S, NEW s \in Seq(S), NEW x \in S, NEW p, NEW h
  PROVE  PiecesAt(p, h, Append(s, x))
           = PiecesAt(p, h, s) \cup {<< Append(p, Len(s) + 1), << h, x >> >>}
<1> DEFINE r == Append(s, x)
           new == << Append(p, Len(s) + 1), << h, x >> >>
           At(i) == << Append(p, i), << h, s[i] >> >>
           Then(i) == << Append(p, i), << h, r[i] >> >>
<1>1. /\ DOMAIN s = 1 .. Len(s) /\ DOMAIN r = 1 .. Len(s) + 1 /\ Len(s) \in Nat
      /\ r[Len(s) + 1] = x /\ \A i \in 1 .. Len(s) : r[i] = s[i]
  BY AppendProperties
<1>2. PiecesAt(p, h, r) = {Then(i) : i \in 1 .. Len(s) + 1}
      /\ PiecesAt(p, h, s) = {At(i) : i \in 1 .. Len(s)}
  BY <1>1 DEF PiecesAt
<1>3. Then(Len(s) + 1) = new /\ \A i \in 1 .. Len(s) : Then(i) = At(i)
  BY <1>1
<1>4. 1 .. Len(s) + 1 = (1 .. Len(s)) \cup {Len(s) + 1}
  BY <1>1
<1> HIDE DEF At, Then, new, r
<1>5. {Then(i) : i \in 1 .. Len(s) + 1} = {At(i) : i \in 1 .. Len(s)} \cup {new}
  BY <1>3, <1>4
<1> QED BY <1>2, <1>5 DEF r, new

LEMMA NoPieces ==
  ASSUME NEW p, NEW h
  PROVE  PiecesAt(p, h, << >>) = {}
BY DEF PiecesAt

LEMMA OpeningClosing ==
  /\ DOMAIN Closing = {"String", "Array", "Object"}
  /\ Opening["Null"] = "null"
  /\ Opening["Boolean"] = "boolean" /\ Opening["Double"] = "double"
  /\ Opening["String"] = "begin_string" /\ Opening["Array"] = "begin_array"
  /\ Opening["Object"] = "begin_object"
  /\ Closing["String"] = "end_string" /\ Closing["Array"] = "end_array"
  /\ Closing["Object"] = "end_object"
BY DEF Closing, Opening

LEMMA PendingTells ==
  ASSUME NEW p, NEW n, n.type = "Null", NEW open, p \in open
  PROVE  ToldBy(p, n, open) = {}
BY OpeningClosing DEF ToldBy

LEMMA NullTells ==
  ASSUME NEW p, NEW n, n.type = "Null", NEW open, p \notin open
  PROVE  ToldBy(p, n, open) = {<< Append(p, 0), << "null", "" >> >>}
BY OpeningClosing DEF ToldBy, ValueOf

OnlyOne(told, place, call) == told = {<< place, call >>}

ScalarCall(type, v) == << Opening[type], v >>

LEMMA ScalarTells ==
  ASSUME NEW p, NEW n, NEW type \in {"Boolean", "Double"}, n.type = type,
         NEW v, n.value = << v >>, NEW open
  PROVE  OnlyOne(ToldBy(p, n, open), Append(p, 0), ScalarCall(type, v))
<1>1. ValueOf(n) = v
  BY DEF ValueOf
<1>2. ToldBy(p, n, open) = {<< Append(p, 0), << Opening[n.type], v >> >>}
  BY <1>1, OpeningClosing DEF ToldBy
<1> QED BY <1>2 DEF OnlyOne, ScalarCall

LEMMA BegunTells ==
  ASSUME NEW p, NEW type \in {"String", "Array", "Object"}, NEW open, p \in open
  PROVE  ToldBy(p, Node(type), open) = {<< Append(p, 0), << Opening[type], "" >> >>}
<1> DEFINE n == Node(type)
<1>1. n.type = type /\ n.value = << >> /\ n.names = << >>
  BY DEF Node
<1> HIDE DEF n
<1>2. PiecesAt(p, "string_content", n.value) = {}
  BY <1>1, NoPieces
<1>3. UNION {WholeName(NameAt(p, i), n.names[i]) : i \in DOMAIN n.names} = {}
  BY <1>1
<1>4. ValueOf(n) = ""
  BY <1>1 DEF ValueOf
<1>5. ToldBy(p, n, open) = {<< Append(p, 0), << Opening[type], "" >> >>}
  BY <1>1, <1>2, <1>3, <1>4, OpeningClosing DEF ToldBy
<1> QED BY <1>5 DEF n

\* One call more is told of.
OneMore(more, told, place, call) == more = told \cup {<< place, call >>}

ClosingCall(type) == << Closing[type], "" >>

LEMMA EndTells ==
  ASSUME NEW p, NEW n, n.type \in {"String", "Array", "Object"},
         NEW open, p \in open, NEW still, p \notin still
  PROVE  OneMore(ToldBy(p, n, still), ToldBy(p, n, open),
                 Append(p, Len(Parts(n)) + 1), ClosingCall(n.type))
BY OpeningClosing DEF ToldBy, OneMore, ClosingCall

LEMMA ArrayTells ==
  ASSUME NEW p, NEW n, NEW m, n.type = "Array", m.type = "Array",
         NEW open, p \in open, NEW still, p \in still
  PROVE  ToldBy(p, m, still) = ToldBy(p, n, open)
BY OpeningClosing DEF ToldBy, ValueOf

LEMMA StringTells ==
  ASSUME NEW p, NEW n, NEW m, n.type = "String", m.type = "String",
         n.value \in Seq(Texts), NEW x \in Texts, m.value = Append(n.value, x),
         NEW open, p \in open
  PROVE  OneMore(ToldBy(p, m, open), ToldBy(p, n, open),
                 Append(p, Len(Parts(n)) + 1), << "string_content", x >>)
<1>1. PiecesAt(p, "string_content", m.value)
        = PiecesAt(p, "string_content", n.value)
            \cup {<< Append(p, Len(n.value) + 1), << "string_content", x >> >>}
  BY PieceAdded
<1>2. Parts(n) = n.value
  BY DEF Parts
<1> DEFINE begun == {<< Append(p, 0), << Opening["String"], ValueOf(n) >> >>}
<1>3. "String" \in DOMAIN Closing /\ "String" # "Null" /\ "String" # "Object"
  BY OpeningClosing
<1>4. ASSUME NEW k, k.type = "String", ValueOf(k) = ValueOf(n)
      PROVE  ToldBy(p, k, open) = begun \cup PiecesAt(p, "string_content", k.value)
  BY <1>3, <1>4, ZenonT(60) DEF ToldBy
<1>5. ValueOf(m) = ValueOf(n)
  BY Zenon DEF ValueOf
<1>6. /\ ToldBy(p, m, open) = begun \cup PiecesAt(p, "string_content", m.value)
      /\ ToldBy(p, n, open) = begun \cup PiecesAt(p, "string_content", n.value)
  BY <1>4, <1>5
<1> HIDE DEF begun
<1> QED BY <1>1, <1>2, <1>6 DEF OneMore

\* The name of the next member is told of, too.
NameToo(more, told, p, n, name) ==
  more = told \cup WholeName(NameAt(p, Len(n.names) + 1), name)

LEMMA ObjectTells ==
  ASSUME NEW p, NEW n, NEW m, n.type = "Object", m.type = "Object",
         n.names \in Seq(Seq(Pieces)), NEW x \in Seq(Pieces), m.names = Append(n.names, x),
         NEW open, p \in open, NEW still, p \in still
  PROVE  NameToo(ToldBy(p, m, still), ToldBy(p, n, open), p, n, x)
<1> DEFINE Before(i) == WholeName(NameAt(p, i), n.names[i])
           After(i) == WholeName(NameAt(p, i), m.names[i])
           k == Len(n.names)
           new == WholeName(NameAt(p, k + 1), x)
           begun == {<< Append(p, 0), << Opening["Object"], "" >> >>}
           names == UNION {Before(i) : i \in 1 .. k}
           more == UNION {After(i) : i \in 1 .. k + 1}
<1>1. /\ DOMAIN n.names = 1 .. k /\ DOMAIN m.names = 1 .. k + 1 /\ k \in Nat
      /\ m.names[k + 1] = x /\ \A i \in 1 .. k : m.names[i] = n.names[i]
  BY AppendProperties
<1>2. After(k + 1) = new /\ \A i \in 1 .. k : After(i) = Before(i)
  BY <1>1
<1>3. 1 .. k + 1 = (1 .. k) \cup {k + 1}
  BY <1>1
<1>4. ToldBy(p, m, still) = begun \cup more /\ ToldBy(p, n, open) = begun \cup names
  BY <1>1, OpeningClosing DEF ToldBy, ValueOf
<1>5. more = names \cup new
  <2> HIDE DEF Before, After, new, k
  <2>1. \A z : z \in more <=> \E i \in 1 .. k + 1 : z \in After(i)
    OBVIOUS
  <2>2. \A z : z \in names <=> \E i \in 1 .. k : z \in Before(i)
    OBVIOUS
  <2> HIDE DEF names, more
  <2>3. ASSUME NEW z PROVE z \in more <=> z \in names \cup new
    <3>1. (\E i \in 1 .. k + 1 : z \in After(i))
            <=> (\E i \in 1 .. k : z \in After(i)) \/ z \in After(k + 1)
      BY <1>3
    <3>2. (\E i \in 1 .. k : z \in After(i)) <=> \E i \in 1 .. k : z \in Before(i)
      BY <1>2
    <3> QED BY <1>2, <2>1, <2>2, <3>1, <3>2
  <2> QED BY <2>3
<1> HIDE DEF begun, names, more
<1>6. ToldBy(p, m, still) = (begun \cup names) \cup new
  BY <1>4, <1>5
<1>7. ToldBy(p, m, still) = ToldBy(p, n, open) \cup WholeName(NameAt(p, Len(n.names) + 1), x)
  BY <1>4, <1>6 DEF new, k
<1> QED BY <1>7 DEF NameToo

-----------------------------------------------------------------------------
(* What an item tells.                                                     *)

\* The other nodes, and whether they are under construction, stay as they are.
OthersStay(t, u, p, new, open, still) ==
  \A q \in DOMAIN t : q # p /\ q # new => u[q] = t[q] /\ (q \in still <=> q \in open)

LEMMA SameTold ==
  ASSUME NEW q, NEW n, NEW open, NEW still, q \in still <=> q \in open
  PROVE  ToldBy(q, n, still) = ToldBy(q, n, open)
BY DEF ToldBy

LEMMA ChangeTells ==
  ASSUME NEW t, NEW u, NEW p \in DOMAIN t, DOMAIN u = DOMAIN t, NEW open, NEW still, NEW X,
         OthersStay(t, u, p, p, open, still),
         ToldBy(p, u[p], still) = ToldBy(p, t[p], open) \cup X
  PROVE  Told(u, still) = Told(t, open) \cup X
<1>1. ASSUME NEW q \in DOMAIN t, q # p PROVE ToldBy(q, u[q], still) = ToldBy(q, t[q], open)
  BY <1>1, SameTold DEF OthersStay
<1>2. \A x : x \in Told(u, still) <=> \E q \in DOMAIN t : x \in ToldBy(q, u[q], still)
  BY DEF Told
<1>3. \A x : x \in Told(t, open) <=> \E q \in DOMAIN t : x \in ToldBy(q, t[q], open)
  BY DEF Told
<1>4. ASSUME NEW x PROVE x \in Told(u, still) <=> x \in Told(t, open) \cup X
  <2>1. ASSUME x \in Told(u, still) PROVE x \in Told(t, open) \cup X
    <3>1. PICK q \in DOMAIN t : x \in ToldBy(q, u[q], still)
      BY <1>2, <2>1
    <3> QED BY <1>1, <1>3, <3>1
  <2>2. ASSUME x \in Told(t, open) PROVE x \in Told(u, still)
    <3>1. PICK q \in DOMAIN t : x \in ToldBy(q, t[q], open)
      BY <1>3, <2>2
    <3>2. x \in ToldBy(q, u[q], still)
      BY <1>1, <3>1
    <3> QED BY <1>2, <3>2
  <2>3. ASSUME x \in X PROVE x \in Told(u, still)
    BY <1>2, <2>3
  <2> QED BY <2>1, <2>2, <2>3
<1> QED BY <1>4

\* There is one node more.
Joined(t, u, new) == new \notin DOMAIN t /\ DOMAIN u = DOMAIN t \cup {new}

LEMMA MemberTells ==
  ASSUME NEW t, NEW u, NEW p \in DOMAIN t, NEW new, Joined(t, u, new),
         NEW open, NEW still, NEW X,
         OthersStay(t, u, p, new, open, still),
         ToldBy(p, u[p], still) = ToldBy(p, t[p], open) \cup X
  PROVE  Told(u, still) = (Told(t, open) \cup X) \cup ToldBy(new, u[new], still)
<1>1. ASSUME NEW q \in DOMAIN t, q # p PROVE ToldBy(q, u[q], still) = ToldBy(q, t[q], open)
  BY <1>1, SameTold DEF OthersStay, Joined
<1>2. \A x : x \in Told(u, still) <=> x \in ToldBy(new, u[new], still)
                                        \/ \E q \in DOMAIN t : x \in ToldBy(q, u[q], still)
  BY DEF Told, Joined
<1>3. \A x : x \in Told(t, open) <=> \E q \in DOMAIN t : x \in ToldBy(q, t[q], open)
  BY DEF Told
<1>4. ASSUME NEW x
      PROVE  x \in Told(u, still)
               <=> x \in (Told(t, open) \cup X) \cup ToldBy(new, u[new], still)
  <2>1. ASSUME x \in Told(u, still)
        PROVE  x \in (Told(t, open) \cup X) \cup ToldBy(new, u[new], still)
    <3>1. ASSUME NEW q \in DOMAIN t, x \in ToldBy(q, u[q], still)
          PROVE  x \in Told(t, open) \cup X
      BY <1>1, <1>3, <3>1
    <3> QED BY <1>2, <2>1, <3>1
  <2>2. ASSUME x \in Told(t, open) PROVE x \in Told(u, still)
    <3>1. PICK q \in DOMAIN t : x \in ToldBy(q, t[q], open)
      BY <1>3, <2>2
    <3>2. x \in ToldBy(q, u[q], still)
      BY <1>1, <3>1
    <3> QED BY <1>2, <3>2
  <2>3. ASSUME x \in X PROVE x \in Told(u, still)
    BY <1>2, <2>3
  <2> QED BY <1>2, <2>1, <2>2, <2>3
<1> QED BY <1>4

\* Pointers under construction.
LEMMA UnderPush ==
  ASSUME NEW S, NEW cs \in Seq(S), Len(cs) >= 1, NEW x \in S
  PROVE  UnderConstruction(Append(cs, x)) = UnderConstruction(cs) \cup {x}
<1> DEFINE ds == Append(cs, x)
<1>1. /\ Len(ds) = Len(cs) + 1 /\ Len(cs) \in Nat /\ ds[Len(cs) + 1] = x
      /\ \A i \in 1 .. Len(cs) : ds[i] = cs[i]
  BY AppendProperties
<1> HIDE DEF ds
<1>2. 2 .. Len(ds) = (2 .. Len(cs)) \cup {Len(cs) + 1} /\ 2 .. Len(cs) \subseteq 1 .. Len(cs)
  BY <1>1
<1>3. UnderConstruction(ds) = {ds[i] : i \in 2 .. Len(cs)} \cup {x}
  BY <1>1, <1>2 DEF UnderConstruction
<1>4. {ds[i] : i \in 2 .. Len(cs)} = {cs[i] : i \in 2 .. Len(cs)}
  BY <1>1, <1>2
<1>5. UnderConstruction(ds) = UnderConstruction(cs) \cup {x}
  BY <1>3, <1>4 DEF UnderConstruction
<1> QED BY <1>5 DEF ds

LEMMA UnderPop ==
  ASSUME NEW cs, NEW t, Leads(cs, t), Len(cs) >= 2
  PROVE  /\ Last(cs) \in UnderConstruction(cs)
         /\ Last(cs) \notin UnderConstruction(Front(cs))
         /\ \A q : q # Last(cs) =>
              (q \in UnderConstruction(Front(cs)) <=> q \in UnderConstruction(cs))
<1>1. Len(cs) \in Nat /\ Last(cs) = cs[Len(cs)]
  BY LastPointer
<1>2. /\ Len(Front(cs)) = Len(cs) - 1
      /\ \A i \in 1 .. Len(cs) - 1 : Front(cs)[i] = cs[i]
  BY LeadsPop
<1>3. \A i \in 2 .. Len(cs) - 1 : cs[i] # Last(cs)
  BY PointersDiffer
<1> DEFINE ds == Front(cs)
<1> HIDE DEF ds
<1>4. 2 .. Len(cs) = (2 .. Len(cs) - 1) \cup {Len(cs)}
      /\ \A i \in 2 .. Len(cs) - 1 : i \in 1 .. Len(cs) - 1
  BY <1>1
<1>5. UnderConstruction(Front(cs)) = {cs[i] : i \in 2 .. Len(cs) - 1}
  BY <1>2, <1>4 DEF UnderConstruction
<1>6. UnderConstruction(cs) = {cs[i] : i \in 2 .. Len(cs) - 1} \cup {Last(cs)}
  BY <1>1, <1>4 DEF UnderConstruction
<1>7. Last(cs) \notin UnderConstruction(Front(cs))
  BY <1>3, <1>5
<1> QED BY <1>5, <1>6, <1>7

\* A member that is not there yet is not under construction.
LEMMA NewIsNotUnder ==
  ASSUME NEW cs, NEW t, Leads(cs, t), Len(cs) >= 2, Len(t[Last(cs)].names) \in Nat
  PROVE  NextMember(t, Last(cs)) \notin UnderConstruction(cs)
<1>1. \A i \in 1 .. Len(cs), k \in Nat : cs[i] # Append(Last(cs), k)
  BY PointersDiffer
<1>2. Len(t[Last(cs)].names) + 1 \in Nat /\ Len(cs) \in Nat
  BY LastPointer
<1>3. \A i \in 2 .. Len(cs) : i \in 1 .. Len(cs)
  BY <1>2
<1> QED BY <1>1, <1>2, <1>3 DEF UnderConstruction, NextMember

-----------------------------------------------------------------------------
(* The calls that were told of, and where the next one belongs.            *)

NextPlace(t, cs, fs, name) ==
  CASE Last(fs) = "property" -> Append(Last(cs), 0)
    [] Last(fs) = "key" ->
         Append(NameAt(Last(cs), Len(t[Last(cs)].names) + 1), Len(name) + 1)
    [] OTHER -> Append(Last(cs), Len(Parts(t[Last(cs)])) + 1)

ToldNow == ToldByBuilder(item_, current_item_, frames, lastString_)

Under == UnderConstruction(current_item_)

NextNow == NextPlace(item_, current_item_, frames, lastString_)

\* The calls made are told of, and all of them before the place of the next one.
Telling ==
  frames # P!Stopped =>
    IF Last(frames) = "root" THEN item_ = NullItem /\ calls = << >>
    ELSE Tells(ToldNow, calls) /\ (Last(frames) # "done" => AllBefore(ToldNow, NextNow))

\* A step that tells of one call more, behind all others, and leaves the next place
\* behind it.
LEMMA Continue ==
  ASSUME frames # P!Stopped, calls \in Seq(ValidCalls), Tells(ToldNow, calls),
         NEW c \in ValidCalls, calls' = Append(calls, c),
         NEW place \in Seq(Int), AllBefore(ToldNow, place),
         ToldNow' = ToldNow \cup {<< place, c >>},
         Last(frames') # "root",
         Last(frames') # "done" => AllBefore(ToldNow, NextNow') /\ Precedes(place, NextNow')
  PROVE  Telling'
<1>1. Tells(ToldNow', calls')
  BY TellsOneMore
<1>2. Last(frames') # "done" => AllBefore(ToldNow', NextNow')
  BY DEF AllBefore
<1> QED BY <1>1, <1>2 DEF Telling

LEMMA AllWithin ==
  ASSUME NEW told, NEW cs, Tells(told, cs), NEW b \in Seq(Int), NEW k \in Int,
         AllBefore(told, b)
  PROVE  AllBefore(told, Append(b, k))
BY Within DEF AllBefore, Tells

LEMMA AllBeside ==
  ASSUME NEW told, NEW cs, Tells(told, cs), NEW b \in Seq(Int), NEW k \in Int, NEW j \in Int,
         k <= j, AllBefore(told, Append(b, k))
  PROVE  AllBefore(told, Append(b, j))
BY Beside DEF AllBefore, Tells

LEMMA AllBehind ==
  ASSUME NEW told, NEW cs, Tells(told, cs), NEW b \in Seq(Int),
         NEW i \in Int, NEW k \in Int, NEW j \in Int,
         i < j, AllBefore(told, Append(Append(b, i), k))
  PROVE  AllBefore(told, Append(b, j))
BY Behind DEF AllBefore, Tells

LEMMA PathIsPlace ==
  ASSUME NEW p \in Seq(Nat)
  PROVE  p \in Seq(Int)
<1>1. Nat \subseteq Int
  OBVIOUS
<1> QED BY <1>1, SeqOfSubset

\* The node under construction.
LEMMA HereIs ==
  ASSUME IInv, frames # P!Stopped
  PROVE  /\ Back \in DOMAIN item_ /\ Back \in Seq(Nat) /\ Back \in Seq(Int)
         /\ item_[Back] \in Nodes
         /\ Len(item_[Back].names) \in Nat /\ Len(item_[Back].value) \in Nat
         /\ Len(Parts(item_[Back])) \in Nat
<1>1. Back \in DOMAIN item_ /\ Grounded(item_)
  BY WhereItIs DEF IInv, Sound
<1>2. Back \in Seq(Nat) /\ item_[Back] \in Nodes
  BY <1>1 DEF Grounded
<1>3. item_[Back].names \in Seq(Seq(Pieces)) /\ item_[Back].value \in Seq(Texts)
  BY <1>2 DEF Nodes
<1>4. Len(item_[Back].names) \in Nat /\ Len(item_[Back].value) \in Nat
  BY <1>3
<1> QED BY <1>1, <1>2, <1>4, PathIsPlace DEF Parts

\* Nothing of a name is known outside of keys.
LEMMA NoNameToTell ==
  ASSUME NEW t, NEW cs, NEW fs, Last(fs) # "key", NEW name
  PROVE  ToldByBuilder(t, cs, fs, name) = Told(t, UnderConstruction(cs))
BY DEF ToldByBuilder, ToldByName

\* The node under construction tells of one call more.
LEMMA NodeTellsMore ==
  ASSUME IInv, frames # P!Stopped, Last(frames) # "key", Last(frames') # "key",
         DOMAIN item_' = DOMAIN item_,
         OthersStay(item_, item_', Back, Back, Under, Under'),
         NEW place, NEW c,
         ToldBy(Back, item_'[Back], Under')
           = ToldBy(Back, item_[Back], Under) \cup {<< place, c >>}
  PROVE  ToldNow' = ToldNow \cup {<< place, c >>}
<1>1. Back \in DOMAIN item_
  BY HereIs
<1>2. ToldNow = Told(item_, Under)
  BY NoNameToTell DEF ToldNow, Under
<1>3. ToldNow' = Told(item_', Under')
  BY NoNameToTell DEF ToldNow, Under
<1>4. Told(item_', Under') = Told(item_, Under) \cup {<< place, c >>}
  <2> DEFINE X == {<< place, c >>}
  <2>1. ToldBy(Back, item_'[Back], Under') = ToldBy(Back, item_[Back], Under) \cup X
    OBVIOUS
  <2> HIDE DEF X
  <2>2. Told(item_', Under') = Told(item_, Under) \cup X
    BY <1>1, <2>1, ChangeTells
  <2> QED BY <2>2 DEF X
<1> QED BY <1>2, <1>3, <1>4

LEMMA ArrayGrows ==
  ASSUME NEW t, NEW u, NEW p \in DOMAIN t, NEW new, Joined(t, u, new), NEW open, NEW still,
         t[p].type = "Array", u[p].type = "Array", p \in open, p \in still,
         OthersStay(t, u, p, new, open, still)
  PROVE  Told(u, still) = Told(t, open) \cup ToldBy(new, u[new], still)
<1> DEFINE X == {}
<1>1. ToldBy(p, u[p], still) = ToldBy(p, t[p], open) \cup X
  BY ArrayTells
<1> HIDE DEF X
<1>2. Told(u, still) = (Told(t, open) \cup X) \cup ToldBy(new, u[new], still)
  BY <1>1, MemberTells
<1> QED BY <1>2 DEF X

\* An element was added to the array under construction, and tells of one call.
LEMMA ElementTells ==
  ASSUME IInv, Closed(item_), frames # P!Stopped, Last(frames) = "array",
         Last(frames') # "key",
         DOMAIN item_' = DOMAIN item_ \cup {NextMember(item_, Back)},
         item_'[Back].type = "Array", Back \in Under', 
         OthersStay(item_, item_', Back, NextMember(item_, Back), Under, Under'),
         NEW place, NEW c,
         ToldBy(NextMember(item_, Back), item_'[NextMember(item_, Back)], Under')
           = {<< place, c >>}
  PROVE  ToldNow' = ToldNow \cup {<< place, c >>}
<1> DEFINE new == NextMember(item_, Back)
<1>1. Back \in DOMAIN item_ /\ new \notin DOMAIN item_
  BY HereIs, NewIsNew DEF IInv, Sound
<1>2. ToldNow = Told(item_, Under)
  BY NoNameToTell DEF ToldNow, Under
<1>3. ToldNow' = Told(item_', Under')
  BY NoNameToTell DEF ToldNow, Under
<1>4. item_[Back].type = "Array" /\ Back \in Under
  <2>1. Len(current_item_) >= 2 /\ Type(item_, Back) = "Array"
    BY WhereItIs, KindOf
  <2>2. Leads(current_item_, item_)
    BY DEF IInv, Sound
  <2> QED BY <2>1, <2>2, UnderPop DEF Under, Back, Type
<1>5. Told(item_', Under') = Told(item_, Under) \cup ToldBy(new, item_'[new], Under')
  <2>1. Joined(item_, item_', new)
    BY <1>1 DEF Joined
  <2>2. OthersStay(item_, item_', Back, new, Under, Under')
    OBVIOUS
  <2> HIDE DEF new
  <2> QED BY <1>1, <1>4, <2>1, <2>2, ArrayGrows
<1> QED BY <1>2, <1>3, <1>5

\* The node behind the one that has ended: the array or object that it is the last member
\* of.
LEMMA Outwards ==
  ASSUME NEW cs, NEW t, Leads(cs, t), Grounded(t), Len(cs) >= 3,
         NEW u, u[Last(Front(cs))].names = t[Last(Front(cs))].names,
         u[Last(Front(cs))].type \in {"Array", "Object"}
  PROVE  /\ Last(Front(cs)) \in Seq(Int) /\ Len(Parts(u[Last(Front(cs))])) \in Nat
         /\ Last(cs) = Append(Last(Front(cs)), Len(Parts(u[Last(Front(cs))])))
<1> DEFINE q == Last(Front(cs))
<1>1. q = cs[Len(cs) - 1] /\ Last(cs) = cs[Len(cs)] /\ Len(cs) \in Nat
  <2>1. Len(cs) \in Nat /\ Last(cs) = cs[Len(cs)]
    BY LastPointer
  <2>2. Len(cs) >= 2
    BY <2>1
  <2> QED BY <2>1, <2>2, LeadsPop
<1>2. Last(cs) = Append(q, Len(t[q].names))
  <2>1. Len(cs) \in 3 .. Len(cs)
    BY <1>1
  <2> QED BY <1>1, <2>1 DEF Leads, Chain
<1>3. q \in DOMAIN t
  <2>1. Len(cs) - 1 \in 1 .. Len(cs)
    BY <1>1
  <2> QED BY <1>1, <2>1 DEF Leads
<1>4. q \in Seq(Nat) /\ t[q].names \in Seq(Seq(Pieces))
  BY <1>3 DEF Grounded, Nodes
<1>5. Len(t[q].names) \in Nat /\ q \in Seq(Int)
  BY <1>4, PathIsPlace
<1>6. Parts(u[q]) = t[q].names
  BY DEF Parts
<1> QED BY <1>2, <1>5, <1>6

\* What the node on top was told to begin or end at a place in it is before what follows it.
LEMMA NextOutwards ==
  ASSUME IInv, Tells(ToldNow, calls), Len(current_item_) >= 3,
         current_item_' = Front(current_item_),
         Last(frames') \in {"array", "object"},
         item_'[Last(current_item_')].names = item_[Last(current_item_')].names,
         item_'[Last(current_item_')].type \in {"Array", "Object"},
         NEW k \in Int, AllBefore(ToldNow, Append(Back, k))
  PROVE  AllBefore(ToldNow, NextNow') /\ Precedes(Append(Back, k), NextNow')
<1> DEFINE q == Last(Front(current_item_))
           n == Len(Parts(item_'[q]))
<1>1. q \in Seq(Int) /\ n \in Nat /\ Back = Append(q, n)
  BY Outwards DEF IInv, Sound, Back
<1>2. NextNow' = Append(q, n + 1)
  BY DEF NextNow, NextPlace
<1> HIDE DEF q, n
<1>3. n \in Int /\ n + 1 \in Int /\ n < n + 1
  BY <1>1
<1>4. AllBefore(ToldNow, Append(q, n + 1)) /\ Precedes(Append(Append(q, n), k), Append(q, n + 1))
  BY <1>1, <1>3, AllBehind, NodeBehind
<1> QED BY <1>1, <1>2, <1>4

-----------------------------------------------------------------------------
(* Each step tells of one call more.                                       *)

\* The calls made so far are told of.
Earlier ==
  /\ frames # P!Stopped /\ calls \in Seq(ValidCalls) /\ Tells(ToldNow, calls)

\* An array, object or string begins at a place that is behind all others.
LEMMA NodeBegun ==
  ASSUME Earlier, NEW p \in Seq(Int), AllBefore(ToldNow, Append(p, 0)),
         Last(current_item_') = p,
         NEW type \in {"String", "Array", "Object"}, item_'[p] = Node(type),
         Last(frames') \in {"array", "object", "string"},
         NEW c \in ValidCalls, calls' = Append(calls, c),
         ToldNow' = ToldNow \cup {<< Append(p, 0), c >>}
  PROVE  Telling'
<1>1. Parts(item_'[p]) = << >>
  BY DEF Parts, Node
<1>2. NextNow' = Append(p, 1)
  <2>1. Len(<< >>) + 1 = 1
    OBVIOUS
  <2>2. NextNow' = Append(p, Len(Parts(item_'[p])) + 1)
    BY DEF NextNow, NextPlace
  <2> QED BY <1>1, <2>1, <2>2
<1>3. AllBefore(ToldNow, Append(p, 1)) /\ Precedes(Append(p, 0), Append(p, 1))
      /\ Append(p, 0) \in Seq(Int)
  BY AllBeside, InTurn, OneFurther DEF Earlier
<1> QED BY <1>2, <1>3, Continue DEF Earlier

LEMMA OnTop ==
  ASSUME NEW cs \in Seq(Seq(Nat)), Len(cs) >= 1, NEW x \in Seq(Nat), NEW ds, ds = Append(cs, x)
  PROVE  UnderConstruction(ds) = UnderConstruction(cs) \cup {x} /\ Last(ds) = x
<1>1. UnderConstruction(Append(cs, x)) = UnderConstruction(cs) \cup {x}
  BY UnderPush
<1>2. Len(Append(cs, x)) = Len(cs) + 1 /\ Append(cs, x)[Len(cs) + 1] = x
  BY AppendProperties
<1> QED BY <1>1, <1>2 DEF Last

OpeningCall(type) == << Opening[type], "" >>

LEMMA BegunOpens ==
  ASSUME NEW p, NEW type \in {"String", "Array", "Object"}, NEW open, p \in open
  PROVE  ToldBy(p, Node(type), open) = {<< Append(p, 0), OpeningCall(type) >>}
BY BegunTells DEF OpeningCall

LEMMA BeginIsFirst ==
  ASSUME NEW p \in Seq(Int)
  PROVE  /\ Append(p, 0) \in Seq(Int) /\ Append(p, 1) \in Seq(Int)
         /\ Precedes(Append(p, 0), Append(p, 1))
<1>1. 0 \in Int /\ 1 \in Int /\ 0 < 1
  OBVIOUS
<1> QED BY <1>1, OneFurther, InTurn

LEMMA RootTells ==
  ASSUME NEW u, NEW e, DOMAIN u = {e}, NEW type \in {"String", "Array", "Object"},
         u[e] = Node(type), NEW open, e \in open
  PROVE  Told(u, open) = {<< Append(e, 0), OpeningCall(type) >>}
<1>1. ToldBy(e, u[e], open) = {<< Append(e, 0), OpeningCall(type) >>}
  BY BegunOpens
<1>2. Told(u, open) = ToldBy(e, u[e], open)
  BY DEF Told
<1> QED BY <1>1, <1>2

LEMMA OnBottom ==
  ASSUME NEW cs \in Seq(Seq(Nat)), Len(cs) = 1, NEW x \in Seq(Nat), NEW ds, ds = Append(cs, x)
  PROVE  UnderConstruction(ds) = {x} /\ Last(ds) = x
<1>1. UnderConstruction(cs) = {}
  BY DEF UnderConstruction
<1>2. UnderConstruction(ds) = UnderConstruction(cs) \cup {x} /\ Last(ds) = x
  <2>1. Len(cs) >= 1
    OBVIOUS
  <2> QED BY <2>1, OnTop
<1>3. {} \cup {x} = {x}
  OBVIOUS
<1> QED BY <1>1, <1>2, <1>3

LEMMA FirstIsTold ==
  ASSUME NEW c \in ValidCalls, NEW place \in Seq(Int)
  PROVE  Tells({<< place, c >>}, Append(<< >>, c))
<1>1. PICK none, before : none = {} /\ before = << >>
  OBVIOUS
<1>2. Tells(none, before) /\ AllBefore(none, place) /\ before \in Seq(ValidCalls)
  BY <1>1, TellsNothing, EmptySeq DEF AllBefore
<1>3. Tells(none \cup {<< place, c >>}, Append(before, c))
  BY <1>2, TellsOneMore
<1>4. none \cup {<< place, c >>} = {<< place, c >>}
  BY <1>1
<1> QED BY <1>1, <1>3, <1>4

\* The document itself begins.
LEMMA RootBegun ==
  ASSUME IInv, Telling, frames # P!Stopped, Last(frames) = "root",
         Last(frames') \in {"array", "object", "string"}, frames' # P!Stopped,
         NEW type \in {"String", "Array", "Object"}, begin(type),
         NEW c \in ValidCalls, c = OpeningCall(type), calls' = Append(calls, c)
  PROVE  Telling'
<1>1. item_ = NullItem /\ calls = << >>
  BY DEF Telling
<1>2. Len(current_item_) = 1 /\ AtRoot /\ current_item_ \in Seq(Seq(Nat))
  BY WhereItIs DEF IInv, Sound, Leads
<1>3. PICK e : e = << >>
  OBVIOUS
<1>4. e \in Seq(Nat) /\ e \in Seq(Int)
  BY <1>3, EmptySeq
<1>5. item_' = morph_to(item_, e, type) /\ current_item_' = Append(current_item_, e)
  BY <1>2, <1>3 DEF begin, Morph
<1>6. DOMAIN item_' = {e} /\ item_'[e] = Node(type)
  BY <1>1, <1>3, <1>5 DEF NullItem, morph_to
<1>7. Under' = {e} /\ Last(current_item_') = e
  <2>1. UnderConstruction(current_item_') = {e} /\ Last(current_item_') = e
    BY <1>2, <1>4, <1>5, OnBottom
  <2> QED BY <2>1 DEF Under
<1>8. ToldNow' = {<< Append(e, 0), c >>}
  <2>1. ToldNow' = Told(item_', Under')
    BY NoNameToTell DEF ToldNow, Under
  <2>2. e \in Under'
    BY <1>7
  <2> QED BY <1>6, <2>1, <2>2, RootTells
<1>9. /\ Append(e, 0) \in Seq(Int) /\ Append(e, 1) \in Seq(Int)
      /\ Precedes(Append(e, 0), Append(e, 1))
  BY <1>4, BeginIsFirst
<1>10. Tells(ToldNow', calls')
  BY <1>1, <1>8, <1>9, FirstIsTold
<1>11. NextNow' = Append(e, 1)
  <2>1. Parts(item_'[e]) = << >>
    BY <1>6 DEF Parts, Node
  <2>2. NextNow' = Append(e, Len(Parts(item_'[e])) + 1)
    BY <1>7 DEF NextNow, NextPlace
  <2>3. Len(<< >>) + 1 = 1
    OBVIOUS
  <2> QED BY <2>1, <2>2, <2>3
<1>12. AllBefore(ToldNow', NextNow')
  <2>1. << Append(e, 0), c >>[1] = Append(e, 0)
    OBVIOUS
  <2>2. ASSUME NEW t \in {<< Append(e, 0), c >>} PROVE Precedes(t[1], Append(e, 1))
    BY <1>9, <2>1
  <2> QED BY <1>8, <1>11, <2>2 DEF AllBefore
<1>13. Last(frames') # "root"
  OBVIOUS
<1> QED BY <1>10, <1>12, <1>13 DEF Telling

LEMMA WasTold ==
  ASSUME Telling, frames # P!Stopped, Last(frames) \notin {"root", "done"},
         calls \in Seq(ValidCalls)
  PROVE  Earlier /\ AllBefore(ToldNow, NextNow)
BY DEF Telling, Earlier

\* An element is added.
ElementAdded(t, u, p, new) ==
  /\ DOMAIN u = DOMAIN t \cup {new}
  /\ u[p].type = "Array" /\ Len(u[p].names) = Len(t[p].names) + 1
  /\ \A q \in DOMAIN t : q # p /\ q # new => u[q] = t[q]

\* Where an array is.
LEMMA ArrayIs ==
  ASSUME IInv, Closed(item_), Telling, frames # P!Stopped, calls \in Seq(ValidCalls),
         Last(frames) = "array"
  PROVE  /\ Type(item_, Back) = "Array" /\ Back \in Under
         /\ NextMember(item_, Back) \in Seq(Int)
         /\ AllBefore(ToldNow, NextMember(item_, Back))
         /\ NextMember(item_, Back) \notin Under
         /\ current_item_ \in Seq(Seq(Nat)) /\ NextMember(item_, Back) \in Seq(Nat)
         /\ Len(current_item_) \in Nat /\ Len(current_item_) >= 1
         /\ Len(current_item_) >= 2 /\ Leads(current_item_, item_) /\ Grounded(item_)
<1>1. /\ Len(current_item_) >= 2 /\ Len(current_item_) \in Nat /\ Len(current_item_) >= 1
      /\ Type(item_, Back) = "Array"
  BY WhereItIs, KindOf
<1>2. Leads(current_item_, item_) /\ Grounded(item_)
  BY DEF IInv, Sound
<1>3. Back \in Seq(Nat) /\ Len(item_[Back].names) \in Nat
  BY HereIs
<1>4. NextMember(item_, Back) \in Seq(Nat)
  BY <1>3 DEF NextMember
<1>5. NextNow = NextMember(item_, Back)
  BY <1>1 DEF NextNow, NextPlace, NextMember, Back, Parts, Type
<1>6. AllBefore(ToldNow, NextNow)
  BY WasTold
<1>7. NextMember(item_, Back) \notin Under
  BY <1>1, <1>2, <1>3, NewIsNotUnder DEF Under, Back
<1>8. Back \in Under
  BY <1>1, <1>2, UnderPop DEF Under, Back
<1> QED BY <1>1, <1>2, <1>4, <1>5, <1>6, <1>7, <1>8, PathIsPlace DEF Leads

LEMMA EmplacedElement ==
  ASSUME NEW t, Grounded(t), NEW p \in DOMAIN t, t[p].type = "Array", NEW type \in Types,
         NEW u, u = emplace_back(t, p, NoName, type)
  PROVE  ElementAdded(t, u, p, NextMember(t, p)) /\ u[NextMember(t, p)] = Node(type)
<1>1. NoName \in Seq(Pieces)
  BY EmptySeq DEF NoName
<1>2. Emplaced(t, p, type, u, NextMember(t, p))
  BY <1>1, EmplaceTree
<1> QED BY <1>2 DEF Emplaced, ElementAdded

\* An array, object or string begins in an array.
LEMMA ElementBegun ==
  ASSUME IInv, Closed(item_), Telling, frames # P!Stopped, calls \in Seq(ValidCalls),
         Last(frames) = "array", Last(frames') \in {"array", "object", "string"},
         NEW type \in {"String", "Array", "Object"}, begin(type),
         NEW c \in ValidCalls, c = OpeningCall(type), calls' = Append(calls, c)
  PROVE  Telling'
<1> DEFINE new == NextMember(item_, Back)
<1>1. /\ Type(item_, Back) = "Array" /\ Back \in Under /\ new \in Seq(Int)
      /\ AllBefore(ToldNow, new) /\ new \notin Under
      /\ current_item_ \in Seq(Seq(Nat)) /\ new \in Seq(Nat)
      /\ Len(current_item_) >= 2 /\ Leads(current_item_, item_) /\ Grounded(item_)
  BY ArrayIs
<1>2. ~AtRoot
  BY WhereItIs
<1>3. item_' = emplace_back(item_, Back, NoName, type) /\ current_item_' = Append(Kept, Added)
  BY <1>1, <1>2 DEF begin, Emplace, BackIs
<1>4. current_item_' = Append(current_item_, new)
  <2>1. Kept = current_item_ /\ Added = new
    BY <1>1, NoneInvalidated DEF Kept, Added, NextMember, Back
  <2> QED BY <1>3, <2>1
<1>5. ElementAdded(item_, item_', Back, new) /\ item_'[new] = Node(type)
  <2>1. type \in Types /\ Back \in DOMAIN item_
    BY HereIs DEF Types
  <2> QED BY <1>1, <1>3, <2>1, EmplacedElement DEF Type
<1>12. new \in Seq(Int) /\ AllBefore(ToldNow, new)
  BY <1>1
<1>13. /\ current_item_ \in Seq(Seq(Nat)) /\ new \in Seq(Nat)
       /\ Len(current_item_) \in Nat /\ Len(current_item_) >= 1
  BY ArrayIs
<1> HIDE DEF new
<1>14. UnderConstruction(current_item_') = UnderConstruction(current_item_) \cup {new}
       /\ Last(current_item_') = new
  BY <1>4, <1>13, OnTop
<1>6. Under' = Under \cup {new}
  BY <1>14 DEF Under
<1>7. ToldBy(new, item_'[new], Under') = {<< Append(new, 0), c >>}
  <2>1. new \in Under'
    BY <1>6
  <2>2. ToldBy(new, Node(type), Under') = {<< Append(new, 0), c >>}
    BY <2>1, BegunOpens
  <2> QED BY <1>5, <2>2
<1>8. ToldNow' = ToldNow \cup {<< Append(new, 0), c >>}
  <2>1. OthersStay(item_, item_', Back, new, Under, Under')
    BY <1>5, <1>6 DEF OthersStay, ElementAdded
  <2> QED BY <1>1, <1>5, <1>6, <1>7, <2>1, ElementTells DEF ElementAdded, new
<1>9. Last(current_item_') = new
  BY <1>14
<1>10. Earlier
  BY WasTold
<1>11. AllBefore(ToldNow, Append(new, 0))
  <2>1. Tells(ToldNow, calls) /\ new \in Seq(Int) /\ 0 \in Int
    BY <1>10, <1>12 DEF Earlier
  <2> QED BY <1>12, <2>1, AllWithin
<1> QED BY <1>5, <1>8, <1>9, <1>12, <1>10, <1>11, NodeBegun

\* A scalar or null is added to an array.
LEMMA ElementGiven ==
  ASSUME IInv, Closed(item_), Telling, frames # P!Stopped, calls \in Seq(ValidCalls),
         Last(frames) = "array", Last(frames') = "array",
         current_item_' = current_item_,
         ElementAdded(item_, item_', Back, NextMember(item_, Back)),
         NEW c \in ValidCalls, calls' = Append(calls, c),
         ToldBy(NextMember(item_, Back), item_'[NextMember(item_, Back)], Under)
           = {<< Append(NextMember(item_, Back), 0), c >>}
  PROVE  Telling'
<1> DEFINE new == NextMember(item_, Back)
           n == Len(item_[Back].names)
<1>1. /\ Back \in Under /\ new \in Seq(Int) /\ AllBefore(ToldNow, new)
  BY ArrayIs
<1>2. Back \in Seq(Int) /\ n \in Nat /\ new = Append(Back, n + 1)
  BY HereIs DEF NextMember
<1>3. Under' = Under
  BY DEF Under
<1>4. OthersStay(item_, item_', Back, new, Under, Under')
  BY <1>3 DEF OthersStay, ElementAdded
<1>5. ToldNow' = ToldNow \cup {<< Append(new, 0), c >>}
  BY <1>1, <1>3, <1>4, ElementTells DEF ElementAdded
<1>6. NextNow' = Append(Back, n + 2)
  <2>1. Parts(item_'[Back]) = item_'[Back].names /\ Len(item_'[Back].names) = n + 1
    BY DEF ElementAdded, Parts
  <2>2. NextNow' = Append(Back, Len(Parts(item_'[Back])) + 1)
    BY DEF NextNow, NextPlace, Back
  <2>3. n + 1 + 1 = n + 2
    BY <1>2
  <2> QED BY <2>1, <2>2, <2>3
<1> HIDE DEF new, n
<1>7. Earlier
  BY WasTold
<1>8. n + 1 \in Int /\ n + 2 \in Int /\ n + 1 < n + 2 /\ n + 1 <= n + 2
  BY <1>2
<1>9. AllBefore(ToldNow, Append(Back, n + 2))
  BY <1>1, <1>2, <1>7, <1>8, AllBeside DEF Earlier
<1>10. Precedes(Append(new, 0), Append(Back, n + 2))
  BY <1>2, <1>8, NodeBehind
<1>11. AllBefore(ToldNow, Append(new, 0)) /\ Append(new, 0) \in Seq(Int)
  BY <1>1, <1>7, AllWithin, OneFurther DEF Earlier
<1> QED BY <1>5, <1>6, <1>7, <1>9, <1>10, <1>11, Continue DEF Earlier

-----------------------------------------------------------------------------
(* The value of a property, and ends.                                      *)

\* Where a property is.
LEMMA PropertyIs ==
  ASSUME IInv, Telling, frames # P!Stopped, calls \in Seq(ValidCalls),
         Last(frames) = "property"
  PROVE  /\ item_[Back].type = "Null" /\ Back \in Under /\ Back \in DOMAIN item_
         /\ Back \in Seq(Int)
         /\ Earlier /\ AllBefore(ToldNow, Append(Back, 0))
         /\ Len(current_item_) \in Nat /\ Len(current_item_) >= 3
         /\ ToldBy(Back, item_[Back], Under) = {}
<1>1. /\ Len(current_item_) \in Nat /\ Len(current_item_) >= 3 /\ item_[Back].type = "Null"
  BY WhereItIs DEF Type
<1>2. Leads(current_item_, item_)
  BY DEF IInv, Sound
<1>3. Back \in Under
  BY <1>1, <1>2, UnderPop DEF Under, Back
<1>4. Earlier /\ AllBefore(ToldNow, NextNow)
  BY WasTold
<1>5. NextNow = Append(Back, 0)
  BY DEF NextNow, NextPlace, Back
<1> QED BY <1>1, <1>3, <1>4, <1>5, HereIs, PendingTells

\* An array, object or string begins as the value of a property.
LEMMA PropertyBegun ==
  ASSUME IInv, Telling, frames # P!Stopped, calls \in Seq(ValidCalls),
         Last(frames) = "property", Last(frames') \in {"array", "object", "string"},
         NEW type \in {"String", "Array", "Object"}, begin(type),
         NEW c \in ValidCalls, c = OpeningCall(type), calls' = Append(calls, c)
  PROVE  Telling'
<1>1. /\ item_[Back].type = "Null" /\ Back \in Under /\ Back \in DOMAIN item_
      /\ Back \in Seq(Int)
      /\ Earlier /\ AllBefore(ToldNow, Append(Back, 0))
      /\ ToldBy(Back, item_[Back], Under) = {}
  BY PropertyIs
<1>2. item_' = morph_to(item_, Back, type) /\ current_item_' = current_item_
  <2>1. ~AtRoot
    BY WhereItIs
  <2> QED BY <1>1, <2>1 DEF begin, Morph, BackIs, Type
<1>3. /\ DOMAIN item_' = DOMAIN item_ /\ item_'[Back] = Node(type)
      /\ \A q \in DOMAIN item_ : q # Back => item_'[q] = item_[q]
  BY <1>1, <1>2 DEF morph_to
<1>4. Under' = Under /\ Last(current_item_') = Back
  BY <1>2 DEF Under, Back
<1>5. ToldBy(Back, item_'[Back], Under') = {<< Append(Back, 0), c >>}
  <2>1. ToldBy(Back, Node(type), Under) = {<< Append(Back, 0), OpeningCall(type) >>}
    BY <1>1, BegunOpens
  <2> QED BY <1>3, <1>4, <2>1
<1>6. ToldNow' = ToldNow \cup {<< Append(Back, 0), c >>}
  <2>1. OthersStay(item_, item_', Back, Back, Under, Under')
    BY <1>3, <1>4 DEF OthersStay
  <2>2. ToldBy(Back, item_'[Back], Under')
          = ToldBy(Back, item_[Back], Under) \cup {<< Append(Back, 0), c >>}
    BY <1>1, <1>5
  <2> QED BY <1>3, <2>1, <2>2, NodeTellsMore
<1> QED BY <1>1, <1>3, <1>4, <1>6, NodeBegun

\* The type of the array or object on top of the stack.
LEMMA TopIs ==
  ASSUME NEW fs, Nested(fs), NEW cs, NEW t, Leads(cs, t), Match(fs, cs, t),
         Last(fs) \in {"array", "object"}
  PROVE  t[Last(cs)].type \in {"Array", "Object"} /\ Len(cs) = Len(fs) /\ Len(fs) >= 2
         /\ Len(fs) \in Nat
<1>1. Len(fs) \in Nat /\ Len(fs) >= 2 /\ Last(fs) = fs[Len(fs)]
  BY LastFrame
<1>2. Len(cs) = Len(fs) /\ Last(cs) = cs[Len(cs)]
  BY LastPointer DEF Match, PointersAt
<1>3. Len(fs) \in 2 .. Len(fs)
  BY <1>1
<1>4. t[Last(cs)].type = Kind[Last(fs)]
  BY <1>1, <1>2, <1>3 DEF Match, TypesMatch
<1> QED BY <1>1, <1>2, <1>4, KindOf

\* The node behind, once the value on top is complete.
LEMMA BehindIs ==
  ASSUME IInv, IInv', frames # P!Stopped, frames' # P!Stopped,
         Last(frames') \in {"array", "object"},
         Len(current_item_) \in Nat, Len(current_item_) >= 2,
         current_item_' = Front(current_item_),
         \A q \in DOMAIN item_ : q # Back => item_'[q] = item_[q]
  PROVE  /\ Len(current_item_) >= 3
         /\ item_'[Last(current_item_')].names = item_[Last(current_item_')].names
         /\ item_'[Last(current_item_')].type \in {"Array", "Object"}
<1>1. item_'[Last(current_item_')].type \in {"Array", "Object"}
      /\ Len(current_item_') = Len(frames') /\ Len(frames') >= 2 /\ Len(frames') \in Nat
  BY TopIs DEF IInv, Sound, InStep
<1>2. Leads(current_item_, item_)
  BY DEF IInv, Sound
<1>3. Len(Front(current_item_)) = Len(current_item_) - 1
      /\ Last(Front(current_item_)) = current_item_[Len(current_item_) - 1]
  BY <1>2, LeadsPop
<1>4. Len(current_item_) >= 3
  BY <1>1, <1>3
<1>5. Last(current_item_') \in DOMAIN item_ /\ Last(current_item_') # Back
  <2>1. Len(current_item_) - 1 \in 2 .. Len(current_item_) - 1
        /\ Len(current_item_) - 1 \in 1 .. Len(current_item_)
    BY <1>4
  <2>2. current_item_[Len(current_item_) - 1] # Last(current_item_)
    BY <1>2, <2>1, PointersDiffer
  <2>3. current_item_[Len(current_item_) - 1] \in DOMAIN item_
    BY <1>2, <2>1 DEF Leads
  <2> QED BY <1>3, <2>2, <2>3 DEF Back
<1> QED BY <1>1, <1>4, <1>5

\* The node on top tells of the last call it can tell of.
LEMMA NodeComplete ==
  ASSUME IInv, IInv', Earlier, frames' # P!Stopped,
         Last(frames) # "key", Last(frames') \in {"done", "array", "object"},
         Len(current_item_) \in Nat, Len(current_item_) >= 2,
         current_item_' = Front(current_item_),
         DOMAIN item_' = DOMAIN item_,
         \A q \in DOMAIN item_ : q # Back => item_'[q] = item_[q],
         NEW k \in Int, AllBefore(ToldNow, Append(Back, k)),
         NEW c \in ValidCalls, calls' = Append(calls, c),
         ToldBy(Back, item_'[Back], Under')
           = ToldBy(Back, item_[Back], Under) \cup {<< Append(Back, k), c >>}
  PROVE  Telling'
<1>1. frames # P!Stopped /\ Tells(ToldNow, calls)
  BY DEF Earlier
<1>2. Leads(current_item_, item_)
  BY DEF IInv, Sound
<1>3. OthersStay(item_, item_', Back, Back, Under, Under')
  <2>1. \A q : q # Back => (q \in Under' <=> q \in Under)
    BY <1>2, UnderPop DEF Under, Back
  <2> QED BY <2>1 DEF OthersStay
<1>4. ToldNow' = ToldNow \cup {<< Append(Back, k), c >>}
  BY <1>1, <1>3, NodeTellsMore
<1>5. Append(Back, k) \in Seq(Int)
  BY <1>1, HereIs, OneFurther
<1>6. Last(frames') # "done" => AllBefore(ToldNow, NextNow') /\ Precedes(Append(Back, k), NextNow')
  <2> SUFFICES ASSUME Last(frames') # "done"
               PROVE  AllBefore(ToldNow, NextNow') /\ Precedes(Append(Back, k), NextNow')
    OBVIOUS
  <2>1. /\ Len(current_item_) >= 3
        /\ item_'[Last(current_item_')].names = item_[Last(current_item_')].names
        /\ item_'[Last(current_item_')].type \in {"Array", "Object"}
    BY <1>1, BehindIs
  <2> QED BY <1>1, <2>1, NextOutwards
<1>7. Last(frames') # "root"
  OBVIOUS
<1> QED BY <1>4, <1>5, <1>6, <1>7, Continue DEF Earlier

\* A scalar or null is the value of a property.
LEMMA PropertyGiven ==
  ASSUME IInv, IInv', Telling, frames # P!Stopped, frames' # P!Stopped,
         calls \in Seq(ValidCalls),
         Last(frames) = "property", Last(frames') = "object",
         current_item_' = Front(current_item_),
         DOMAIN item_' = DOMAIN item_,
         \A q \in DOMAIN item_ : q # Back => item_'[q] = item_[q],
         NEW c \in ValidCalls, calls' = Append(calls, c),
         Back \notin Under' => ToldBy(Back, item_'[Back], Under') = {<< Append(Back, 0), c >>}
  PROVE  Telling'
<1>1. /\ Earlier /\ AllBefore(ToldNow, Append(Back, 0))
      /\ Len(current_item_) \in Nat /\ Len(current_item_) >= 2
      /\ ToldBy(Back, item_[Back], Under) = {}
  BY PropertyIs
<1>2. Back \notin Under'
  <2>1. Leads(current_item_, item_)
    BY DEF IInv, Sound
  <2> QED BY <1>1, <2>1, UnderPop DEF Under, Back
<1>3. ToldBy(Back, item_'[Back], Under')
        = ToldBy(Back, item_[Back], Under) \cup {<< Append(Back, 0), c >>}
  BY <1>1, <1>2
<1> QED BY <1>1, <1>3, NodeComplete

\* An array, object or string ends.
LEMMA NodeEnded ==
  ASSUME IInv, IInv', Telling, frames # P!Stopped, frames' # P!Stopped,
         calls \in Seq(ValidCalls),
         Last(frames) \in {"array", "object", "string"},
         Last(frames') \in {"done", "array", "object"},
         current_item_' = Front(current_item_), item_' = item_,
         NEW c \in ValidCalls, c = ClosingCall(Kind[Last(frames)]),
         calls' = Append(calls, c)
  PROVE  Telling'
<1> DEFINE n == item_[Back]
           k == Len(Parts(n)) + 1
<1>1. /\ Len(current_item_) \in Nat /\ Len(current_item_) >= 2 /\ n.type = Kind[Last(frames)]
  BY WhereItIs DEF Type
<1>2. n.type \in {"String", "Array", "Object"}
  BY <1>1, KindOf
<1>3. Leads(current_item_, item_)
  BY DEF IInv, Sound
<1>4. Back \in Under /\ Back \notin Under'
  BY <1>1, <1>3, UnderPop DEF Under, Back
<1>5. Earlier /\ AllBefore(ToldNow, NextNow)
  BY WasTold
<1>6. NextNow = Append(Back, k)
  BY DEF NextNow, NextPlace, Back
<1>7. k \in Int
  <2>1. Len(Parts(item_[Back])) \in Nat
    BY HereIs
  <2> QED BY <2>1
<1>8. ToldBy(Back, n, Under') = ToldBy(Back, n, Under) \cup {<< Append(Back, k), c >>}
  <2>1. OneMore(ToldBy(Back, n, Under'), ToldBy(Back, n, Under),
                Append(Back, Len(Parts(n)) + 1), ClosingCall(n.type))
    <3>1. n.type \in {"String", "Array", "Object"} /\ Back \in Under /\ Back \notin Under'
      BY <1>2, <1>4
    <3> HIDE DEF n, k
    <3> QED BY <3>1, EndTells
  <2>2. OneMore(ToldBy(Back, n, Under'), ToldBy(Back, n, Under), Append(Back, k), c)
    BY <1>1, <2>1
  <2> QED BY <2>2 DEF OneMore
<1>9. item_'[Back] = n
  OBVIOUS
<1> HIDE DEF n, k
<1>10. ToldBy(Back, item_'[Back], Under')
         = ToldBy(Back, item_[Back], Under) \cup {<< Append(Back, k), c >>}
  BY <1>8, <1>9 DEF n
<1>11. AllBefore(ToldNow, Append(Back, k)) /\ Last(frames) # "key"
       /\ DOMAIN item_' = DOMAIN item_ /\ \A q \in DOMAIN item_ : item_'[q] = item_[q]
  BY <1>5, <1>6
<1> QED BY <1>1, <1>5, <1>7, <1>10, <1>11, NodeComplete

\* A piece of a string.
LEMMA StringGrown ==
  ASSUME IInv, Telling, frames # P!Stopped, calls \in Seq(ValidCalls),
         Last(frames) = "string", frames' = frames, NEW s \in Texts,
         string_content_handler(s),
         NEW c \in ValidCalls, c = << "string_content", s >>, calls' = Append(calls, c)
  PROVE  Telling'
<1> DEFINE n == item_[Back]
           m == item_'[Back]
           k == Len(n.value) + 1
<1>1. /\ Len(current_item_) \in Nat /\ Len(current_item_) >= 2 /\ n.type = "String"
  BY WhereItIs, KindOf DEF Type
<1>2. Back \in DOMAIN item_ /\ Back \in Seq(Int) /\ n \in Nodes /\ Len(n.value) \in Nat
  BY HereIs
<1>3. item_' = [item_ EXCEPT ![Back].value = Append(@, s)] /\ current_item_' = current_item_
  BY DEF string_content_handler
<1>4. /\ DOMAIN item_' = DOMAIN item_ /\ m.type = "String" /\ m.value = Append(n.value, s)
      /\ \A q \in DOMAIN item_ : q # Back => item_'[q] = item_[q]
  BY <1>1, <1>2, <1>3 DEF Nodes
<1>5. Leads(current_item_, item_) /\ n.value \in Seq(Texts)
  BY <1>2 DEF IInv, Sound, Nodes
<1>6. Back \in Under /\ Under' = Under
  BY <1>1, <1>3, <1>5, UnderPop DEF Under, Back
<1>7. Earlier /\ AllBefore(ToldNow, NextNow)
  BY WasTold
<1>8. Parts(n) = n.value /\ Parts(m) = m.value /\ Len(m.value) = Len(n.value) + 1
  BY <1>1, <1>4, <1>5 DEF Parts
<1>9. NextNow = Append(Back, k) /\ NextNow' = Append(Back, k + 1)
  <2>1. NextNow = Append(Back, Len(Parts(n)) + 1)
    BY DEF NextNow, NextPlace, Back
  <2>2. NextNow' = Append(Back, Len(Parts(m)) + 1)
    BY <1>3 DEF NextNow, NextPlace, Back
  <2> QED BY <1>8, <2>1, <2>2
<1>10. ToldBy(Back, m, Under') = ToldBy(Back, n, Under) \cup {<< Append(Back, k), c >>}
  <2>1. OneMore(ToldBy(Back, m, Under), ToldBy(Back, n, Under),
                Append(Back, Len(Parts(n)) + 1), << "string_content", s >>)
    <3>1. n.type = "String" /\ m.type = "String" /\ n.value \in Seq(Texts)
          /\ m.value = Append(n.value, s) /\ Back \in Under
      BY <1>1, <1>4, <1>5, <1>6
    <3> HIDE DEF n, m
    <3> QED BY <3>1, StringTells
  <2> QED BY <1>6, <1>8, <2>1 DEF OneMore
<1>11. ToldNow' = ToldNow \cup {<< Append(Back, k), c >>}
  <2>1. OthersStay(item_, item_', Back, Back, Under, Under')
    BY <1>4, <1>6 DEF OthersStay
  <2>2. Last(frames) # "key" /\ Last(frames') # "key"
    OBVIOUS
  <2> HIDE DEF k
  <2> QED BY <1>4, <1>10, <2>1, <2>2, NodeTellsMore
<1>12. k \in Int /\ k + 1 \in Int /\ k < k + 1 /\ k <= k + 1
  BY <1>2
<1> HIDE DEF n, m, k
<1>13. AllBefore(ToldNow, Append(Back, k + 1)) /\ Precedes(Append(Back, k), Append(Back, k + 1))
       /\ Append(Back, k) \in Seq(Int)
  BY <1>2, <1>7, <1>9, <1>12, AllBeside, InTurn, OneFurther DEF Earlier
<1>14. Last(frames') # "root"
  OBVIOUS
<1> QED BY <1>7, <1>9, <1>11, <1>13, <1>14, Continue DEF Earlier

-----------------------------------------------------------------------------
(* The name of a member.                                                   *)

\* Where the name of the next member is told of.
NextName == NameAt(Back, Len(item_[Back].names) + 1)

\* Where an object is that waits for a key or gets one.
LEMMA ObjectIs ==
  ASSUME IInv, frames # P!Stopped, Last(frames) \in {"object", "key"}
  PROVE  /\ item_[Back].type = "Object" /\ Back \in Under
         /\ Back \in DOMAIN item_ /\ Back \in Seq(Nat)
         /\ Len(current_item_) \in Nat /\ Len(current_item_) >= 2
         /\ NextMember(item_, Back) \in Seq(Int) /\ NextMember(item_, Back) \in Seq(Nat)
         /\ NextName = Append(NextMember(item_, Back), -1) /\ NextName \in Seq(Int)
<1>1. item_[Back].type = "Object" /\ Len(current_item_) \in Nat /\ Len(current_item_) >= 2
  BY WhereItIs, KindOf DEF Type
<1>2. Leads(current_item_, item_)
  BY DEF IInv, Sound
<1>3. Back \in Under
  BY <1>1, <1>2, UnderPop DEF Under, Back
<1>4. Back \in DOMAIN item_ /\ Back \in Seq(Nat) /\ Len(item_[Back].names) \in Nat
  BY HereIs
<1>5. NextMember(item_, Back) \in Seq(Nat)
  BY <1>4 DEF NextMember
<1>6. NextMember(item_, Back) \in Seq(Int)
  BY <1>5, PathIsPlace
<1>7. NextName = Append(NextMember(item_, Back), -1)
  BY DEF NextName, NameAt, NextMember
<1>8. -1 \in Int
  OBVIOUS
<1>9. Append(NextMember(item_, Back), -1) \in Seq(Int)
  BY <1>6, <1>8, OneFurther
<1> QED BY <1>1, <1>3, <1>4, <1>5, <1>6, <1>7, <1>9

Calling(h, v) == << h, v >>

CallOf(h) == Calling(h, "")

LEMMA NameBegins ==
  ASSUME NEW p
  PROVE  BegunName(p, << >>) = {<< Append(p, 0), CallOf("begin_key") >>}
BY NoPieces DEF BegunName, Calling, CallOf

LEMMA NameGrows ==
  ASSUME NEW p, NEW s \in Seq(Pieces), NEW x \in Pieces
  PROVE  OneMore(BegunName(p, Append(s, x)), BegunName(p, s),
                 Append(p, Len(s) + 1), Calling("key_content", x))
<1>1. PiecesAt(p, "key_content", Append(s, x))
        = PiecesAt(p, "key_content", s)
            \cup {<< Append(p, Len(s) + 1), << "key_content", x >> >>}
  BY PieceAdded
<1>2. PiecesAt(p, "key_content", Append(s, x))
        = PiecesAt(p, "key_content", s) \cup {<< Append(p, Len(s) + 1), Calling("key_content", x) >>}
  BY <1>1 DEF Calling
<1> QED BY <1>2 DEF BegunName, OneMore

\* A key begins.
LEMMA KeyBegun ==
  ASSUME IInv, Telling, frames # P!Stopped, calls \in Seq(ValidCalls),
         Last(frames) = "object", Last(frames') = "key",
         begin_key_handler,
         NEW c \in ValidCalls, c = CallOf("begin_key"), calls' = Append(calls, c)
  PROVE  Telling'
<1>1. /\ item_[Back].type = "Object" /\ NextMember(item_, Back) \in Seq(Int)
      /\ NextName = Append(NextMember(item_, Back), -1) /\ NextName \in Seq(Int)
  BY ObjectIs
<1>2. item_' = item_ /\ current_item_' = current_item_ /\ lastString_' = << >>
  BY DEF begin_key_handler
<1>3. Earlier /\ AllBefore(ToldNow, NextNow)
  BY WasTold
<1>4. NextNow = NextMember(item_, Back)
  BY <1>1 DEF NextNow, NextPlace, NextMember, Back, Parts
<1>5. AllBefore(ToldNow, NextName)
  <2>1. -1 \in Int /\ Tells(ToldNow, calls)
    BY <1>3 DEF Earlier
  <2> QED BY <1>1, <1>3, <1>4, <2>1, AllWithin
<1>6. /\ AllBefore(ToldNow, Append(NextName, 0)) /\ AllBefore(ToldNow, Append(NextName, 1))
  <2>1. 0 \in Int /\ 1 \in Int /\ Tells(ToldNow, calls)
    BY <1>3 DEF Earlier
  <2> QED BY <1>1, <1>5, <2>1, AllWithin
<1>7. /\ Append(NextName, 0) \in Seq(Int)
      /\ Precedes(Append(NextName, 0), Append(NextName, 1))
  BY <1>1, BeginIsFirst
<1>8. ToldNow' = ToldNow \cup {<< Append(NextName, 0), c >>}
  <2>1. ToldNow = Told(item_, Under)
    BY NoNameToTell DEF ToldNow, Under
  <2>2. ToldByName(item_, current_item_, frames', << >>) = BegunName(NextName, << >>)
    BY DEF ToldByName, NextName, Back
  <2>3. ToldNow' = Told(item_, Under) \cup BegunName(NextName, << >>)
    BY <1>2, <2>2 DEF ToldNow, ToldByBuilder, Under
  <2> QED BY <2>1, <2>3, NameBegins
<1>9. NextNow' = Append(NextName, 1)
  <2>1. Len(<< >>) + 1 = 1
    OBVIOUS
  <2>2. NextNow' = Append(NextName, Len(<< >>) + 1)
    BY <1>2 DEF NextNow, NextPlace, NextName, Back
  <2> QED BY <2>1, <2>2
<1>10. Last(frames') # "root"
  OBVIOUS
<1> QED BY <1>3, <1>6, <1>7, <1>8, <1>9, <1>10, Continue DEF Earlier

\* What is told while a key is given.
LEMMA KeyIs ==
  ASSUME IInv, Telling, frames # P!Stopped, calls \in Seq(ValidCalls), Last(frames) = "key"
  PROVE  /\ Earlier /\ lastString_ \in Seq(Pieces) /\ Len(lastString_) \in Nat
         /\ AllBefore(ToldNow, Append(NextName, Len(lastString_) + 1))
         /\ ToldNow = Told(item_, Under) \cup BegunName(NextName, lastString_)
<1>1. Earlier /\ AllBefore(ToldNow, NextNow)
  BY WasTold
<1>2. lastString_ \in Seq(Pieces) /\ Len(lastString_) \in Nat
  BY DEF IInv, Sound
<1>3. NextNow = Append(NextName, Len(lastString_) + 1)
  BY DEF NextNow, NextPlace, NextName, Back
<1>4. ToldByName(item_, current_item_, frames, lastString_) = BegunName(NextName, lastString_)
  BY DEF ToldByName, NextName, Back
<1>5. ToldNow = Told(item_, Under) \cup BegunName(NextName, lastString_)
  BY <1>4 DEF ToldNow, ToldByBuilder, Under
<1> QED BY <1>1, <1>2, <1>3, <1>5

\* A piece of a name.
LEMMA NameGrown ==
  ASSUME IInv, Telling, frames # P!Stopped, calls \in Seq(ValidCalls),
         Last(frames) = "key", frames' = frames, NEW s \in Pieces, key_content_handler(s),
         NEW c \in ValidCalls, c = Calling("key_content", s), calls' = Append(calls, c)
  PROVE  Telling'
<1> DEFINE k == Len(lastString_) + 1
<1>1. /\ Earlier /\ lastString_ \in Seq(Pieces) /\ Len(lastString_) \in Nat
      /\ AllBefore(ToldNow, Append(NextName, k))
      /\ ToldNow = Told(item_, Under) \cup BegunName(NextName, lastString_)
  BY KeyIs
<1>2. /\ item_' = item_ /\ current_item_' = current_item_
      /\ lastString_' = Append(lastString_, s)
  BY DEF key_content_handler
<1>3. NextName \in Seq(Int)
  BY ObjectIs
<1>4. ToldNow' = ToldNow \cup {<< Append(NextName, k), c >>}
  <2>1. ToldByName(item_, current_item_, frames', lastString_') = BegunName(NextName, lastString_')
    BY DEF ToldByName, NextName, Back
  <2>2. ToldNow' = Told(item_, Under) \cup BegunName(NextName, lastString_')
    BY <1>2, <2>1 DEF ToldNow, ToldByBuilder, Under
  <2>3. OneMore(BegunName(NextName, lastString_'), BegunName(NextName, lastString_),
                Append(NextName, k), c)
    BY <1>1, <1>2, NameGrows
  <2> HIDE DEF k
  <2> QED BY <1>1, <2>2, <2>3 DEF OneMore
<1>5. NextNow' = Append(NextName, k + 1)
  <2>1. Len(lastString_') = k
    BY <1>1, <1>2
  <2>2. NextNow' = Append(NextName, Len(lastString_') + 1)
    BY <1>2 DEF NextNow, NextPlace, NextName, Back
  <2> QED BY <2>1, <2>2
<1>6. k \in Int /\ k + 1 \in Int /\ k < k + 1 /\ k <= k + 1
  BY <1>1
<1> HIDE DEF k
<1>7. AllBefore(ToldNow, Append(NextName, k + 1))
      /\ Precedes(Append(NextName, k), Append(NextName, k + 1))
      /\ Append(NextName, k) \in Seq(Int)
  BY <1>1, <1>3, <1>6, AllBeside, InTurn, OneFurther DEF Earlier
<1>8. Last(frames') # "root"
  OBVIOUS
<1> QED BY <1>1, <1>4, <1>5, <1>7, <1>8, Continue DEF Earlier

\* A member is added to an object.
LEMMA EmplacedMember ==
  ASSUME NEW t, Grounded(t), Closed(t), NEW p \in DOMAIN t, t[p].type = "Object",
         NEW name \in Seq(Pieces),
         NEW u, u = emplace_back(t, p, name, "Null"),
         NEW new, new = NextMember(t, p)
  PROVE  /\ Joined(t, u, new) /\ u[new].type = "Null" /\ new # p
         /\ u[p].type = "Object" /\ u[p].names = Append(t[p].names, name)
         /\ \A q \in DOMAIN t : q # p /\ q # new => u[q] = t[q]
<1>1. "Null" \in Types
  BY DEF Types
<1>2. Emplaced(t, p, "Null", u, new)
  BY <1>1, EmplaceTree
<1>3. new \notin DOMAIN t
  BY NewIsNew
<1>4. u[p] = [t[p] EXCEPT !.names = Append(@, name)]
  <2>1. u = [q \in DOMAIN t \cup {new} |->
               CASE q = new -> Node("Null")
                 [] q = p -> [t[p] EXCEPT !.names = Append(@, name)]
                 [] OTHER -> t[q]]
    BY DEF emplace_back, NextMember
  <2> QED BY <1>3, <2>1
<1>5. u[p].names = Append(t[p].names, name)
  <2>1. t[p] \in Nodes
    BY DEF Grounded
  <2> QED BY <1>4, <2>1 DEF Nodes
<1>6. u[new].type = "Null"
  BY <1>1, <1>2, NodeIsNode DEF Emplaced
<1> QED BY <1>2, <1>3, <1>5, <1>6 DEF Emplaced, Joined

LEMMA WholeIs ==
  ASSUME NEW p, NEW name
  PROVE  WholeName(p, name)
           = BegunName(p, name) \cup {<< Append(p, Len(name) + 1), CallOf("end_key") >>}
BY DEF WholeName, Calling, CallOf

\* A key ends, and its property is there.
LEMMA KeyEnded ==
  ASSUME IInv, Closed(item_), Telling, frames # P!Stopped, calls \in Seq(ValidCalls),
         Last(frames) = "key", Last(frames') = "property",
         end_key_handler,
         NEW c \in ValidCalls, c = CallOf("end_key"), calls' = Append(calls, c)
  PROVE  Telling'
<1> DEFINE k == Len(lastString_) + 1
           new == NextMember(item_, Back)
           X == WholeName(NextName, lastString_)
<1>1. /\ Earlier /\ lastString_ \in Seq(Pieces) /\ Len(lastString_) \in Nat
      /\ AllBefore(ToldNow, Append(NextName, k))
      /\ ToldNow = Told(item_, Under) \cup BegunName(NextName, lastString_)
  BY KeyIs
<1>2. /\ item_[Back].type = "Object" /\ Back \in Under
      /\ Back \in DOMAIN item_ /\ Back \in Seq(Nat)
      /\ Len(current_item_) \in Nat /\ Len(current_item_) >= 2
  BY ObjectIs
<1>3. /\ new \in Seq(Int) /\ new \in Seq(Nat)
      /\ NextName = Append(new, -1) /\ NextName \in Seq(Int)
  BY ObjectIs
<1>4. Leads(current_item_, item_) /\ Grounded(item_)
  BY DEF IInv, Sound
<1>5. item_' = emplace_back(item_, Back, lastString_, "Null") /\ current_item_' = Append(Kept, Added)
  BY DEF end_key_handler, Emplace
<1>6. current_item_' = Append(current_item_, new)
  <2>1. Kept = current_item_ /\ Added = new
    BY <1>2, <1>4, NoneInvalidated DEF Kept, Added, NextMember, Back
  <2> QED BY <1>5, <2>1
<1>7. /\ Joined(item_, item_', new) /\ item_'[new].type = "Null" /\ new # Back
      /\ item_'[Back].type = "Object" /\ item_'[Back].names = Append(item_[Back].names, lastString_)
      /\ \A q \in DOMAIN item_ : q # Back /\ q # new => item_'[q] = item_[q]
  BY <1>1, <1>2, <1>4, <1>5, EmplacedMember, SMTT(30)
<1>8. Under' = Under \cup {new} /\ Last(current_item_') = new
  <2>1. current_item_ \in Seq(Seq(Nat)) /\ Len(current_item_) >= 1
    BY <1>2, <1>4 DEF Leads
  <2>2. new \in Seq(Nat)
    BY <1>3
  <2> HIDE DEF new
  <2>3. UnderConstruction(current_item_') = UnderConstruction(current_item_) \cup {new}
        /\ Last(current_item_') = new
    BY <1>6, <2>1, <2>2, OnTop
  <2> QED BY <2>3 DEF Under
<1>9. Back \in Under' /\ new \in Under'
  BY <1>2, <1>8
<1> HIDE DEF new
<1>10. ToldBy(Back, item_'[Back], Under') = ToldBy(Back, item_[Back], Under) \cup X
  <2>1. item_[Back].names \in Seq(Seq(Pieces))
    BY <1>2, <1>4 DEF Grounded, Nodes
  <2>2. ToldBy(Back, item_'[Back], Under')
          = ToldBy(Back, item_[Back], Under)
              \cup WholeName(NameAt(Back, Len(item_[Back].names) + 1), lastString_)
    <3>1. NameToo(ToldBy(Back, item_'[Back], Under'), ToldBy(Back, item_[Back], Under),
                  Back, item_[Back], lastString_)
      BY <1>1, <1>2, <1>7, <1>9, <2>1, ObjectTells
    <3> QED BY <3>1 DEF NameToo
  <2> QED BY <2>2 DEF NextName
<1>11. ToldBy(new, item_'[new], Under') = {}
  BY <1>7, <1>9, PendingTells
<1> HIDE DEF X
<1>12. ToldNow' = Told(item_, Under) \cup X
  <2>1. OthersStay(item_, item_', Back, new, Under, Under')
    BY <1>7, <1>8 DEF OthersStay
  <2>2. Told(item_', Under')
          = (Told(item_, Under) \cup X) \cup ToldBy(new, item_'[new], Under')
    BY <1>2, <1>7, <1>10, <2>1, MemberTells
  <2>3. ToldNow' = Told(item_', Under')
    BY NoNameToTell DEF ToldNow, Under
  <2> QED BY <1>11, <2>2, <2>3
<1>13. ToldNow' = ToldNow \cup {<< Append(NextName, k), c >>}
  <2>1. X = BegunName(NextName, lastString_) \cup {<< Append(NextName, k), c >>}
    BY WholeIs DEF X
  <2> HIDE DEF k
  <2> QED BY <1>1, <1>12, <2>1
<1>14. NextNow' = Append(new, 0)
  BY <1>8 DEF NextNow, NextPlace
<1>15. k \in Int /\ -1 \in Int /\ 0 \in Int /\ -1 < 0
  BY <1>1
<1> HIDE DEF k
<1>16. AllBefore(ToldNow, Append(new, 0)) /\ Precedes(Append(NextName, k), Append(new, 0))
       /\ Append(NextName, k) \in Seq(Int)
  <2>1. Tells(ToldNow, calls) /\ AllBefore(ToldNow, Append(Append(new, -1), k))
    BY <1>1, <1>3 DEF Earlier
  <2>2. new \in Seq(Int) /\ NextName = Append(new, -1) /\ NextName \in Seq(Int)
    BY <1>3
  <2>3. AllBefore(ToldNow, Append(new, 0))
    BY <1>15, <2>1, <2>2, AllBehind
  <2>4. Precedes(Append(Append(new, -1), k), Append(new, 0))
    BY <1>15, <2>2, NodeBehind
  <2>5. Append(NextName, k) \in Seq(Int)
    BY <1>15, <2>2, OneFurther
  <2> QED BY <2>2, <2>3, <2>4, <2>5
<1>17. Last(frames') # "root"
  OBVIOUS
<1> QED BY <1>1, <1>13, <1>14, <1>16, <1>17, Continue DEF Earlier

-----------------------------------------------------------------------------
(* Each call is told of.                                                   *)

LEMMA NotStopped ==
  ASSUME NEW fs, Last(fs) # "stopped"
  PROVE  fs # P!Stopped
BY DEF P!Stopped, Last

\* begin_array_handler, begin_object_handler, begin_string_handler
LEMMA BeginTold ==
  ASSUME IInv, Closed(item_), Telling, calls \in Seq(ValidCalls),
         NEW h \in {"begin_array", "begin_object", "begin_string"}, Call(h, ""),
         NEW type \in {"String", "Array", "Object"}, begin(type),
         << h, "" >> = OpeningCall(type)
  PROVE  Telling'
<1>1. /\ Last(frames) \in {"root", "array", "property"} /\ frames # P!Stopped
      /\ Last(frames') \in {"array", "object", "string"}
  BY TookBegin, Opened
<1>2. PICK c : c = OpeningCall(type)
  OBVIOUS
<1>3. c \in ValidCalls /\ calls' = Append(calls, c)
  BY <1>2, Valid DEF Call
<1>4. frames' # P!Stopped
  BY <1>1, NotStopped
<1>5. CASE Last(frames) = "root"
  BY <1>1, <1>2, <1>3, <1>4, <1>5, RootBegun
<1>6. CASE Last(frames) = "array"
  BY <1>1, <1>2, <1>3, <1>6, ElementBegun
<1>7. CASE Last(frames) = "property"
  BY <1>1, <1>2, <1>3, <1>7, PropertyBegun
<1> QED BY <1>1, <1>5, <1>6, <1>7

\* The frame after a scalar or null.
LEMMA ValueTaken ==
  ASSUME IInv, frames # P!Stopped, Last(frames) \in {"array", "property"},
         frames' = P!WithLast(frames, P!Valued(Last(frames)))
  PROVE  /\ Last(frames) = "array" => Last(frames') = "array"
         /\ Last(frames) = "property" => Last(frames') = "object"
         /\ frames' # P!Stopped
<1>1. P!Valued(Last(frames)) = IF Last(frames) = "array" THEN "array" ELSE "object"
  BY DEF P!Valued
<1>2. Last(frames') = P!Valued(Last(frames))
  <2>1. Nested(frames)
    BY WhereItIs
  <2> QED BY <1>1, <2>1, NestedBecome
<1> QED BY <1>1, <1>2, NotStopped

\* The value of an element that was added.
LEMMA SetElement ==
  ASSUME NEW t, NEW p \in DOMAIN t, NEW new, new \notin DOMAIN t, NEW u,
         ElementAdded(t, u, p, new), NEW type \in Types, u[new] = Node(type),
         NEW v, NEW w, w = set_value(u, new, v)
  PROVE  ElementAdded(t, w, p, new) /\ w[new].type = type /\ w[new].value = << v >>
<1>1. new \in DOMAIN u /\ new # p
  BY DEF ElementAdded
<1>2. /\ DOMAIN w = DOMAIN u /\ w[new] = [u[new] EXCEPT !.value = << v >>]
      /\ \A q \in DOMAIN u : q # new => w[q] = u[q]
  BY <1>1 DEF set_value
<1>3. w[new].type = type /\ w[new].value = << v >>
  BY <1>2 DEF Node
<1>4. ElementAdded(t, w, p, new)
  BY <1>1, <1>2 DEF ElementAdded
<1> QED BY <1>3, <1>4

LEMMA SetProperty ==
  ASSUME NEW t, NEW p \in DOMAIN t, NEW type \in Types, NEW v,
         NEW w, w = set_value(morph_to(t, p, type), p, v)
  PROVE  /\ DOMAIN w = DOMAIN t /\ w[p].type = type /\ w[p].value = << v >>
         /\ \A q \in DOMAIN t : q # p => w[q] = t[q]
<1>1. PICK u : u = morph_to(t, p, type)
  OBVIOUS
<1>2. DOMAIN u = DOMAIN t /\ u[p] = Node(type) /\ \A q \in DOMAIN t : q # p => u[q] = t[q]
  BY <1>1 DEF morph_to
<1>3. /\ DOMAIN w = DOMAIN u /\ w[p] = [u[p] EXCEPT !.value = << v >>]
      /\ \A q \in DOMAIN u : q # p => w[q] = u[q]
  BY <1>1, <1>2 DEF set_value
<1>4. w[p].type = type /\ w[p].value = << v >>
  BY <1>2, <1>3 DEF Node
<1> QED BY <1>2, <1>3, <1>4

\* boolean_handler, double_handler
LEMMA ScalarTold ==
  ASSUME IInv, IInv', Closed(item_), Telling, calls \in Seq(ValidCalls),
         frames # P!Stopped, Last(frames) \in {"array", "property"},
         frames' = P!WithLast(frames, P!Valued(Last(frames))),
         NEW type \in {"Boolean", "Double"}, NEW v \in Texts, scalar_handler(type, v),
         NEW c \in ValidCalls, c = ScalarCall(type, v), calls' = Append(calls, c)
  PROVE  Telling'
<1>1. /\ Last(frames) = "array" => Last(frames') = "array"
      /\ Last(frames) = "property" => Last(frames') = "object"
      /\ frames' # P!Stopped
  BY ValueTaken
<1>2. type \in Types /\ Back \in DOMAIN item_
  BY HereIs DEF Types
<1>3. CASE Last(frames) = "array"
  <2>1. PICK new : new = NextMember(item_, Back)
    OBVIOUS
  <2>2. /\ Type(item_, Back) = "Array" /\ Len(current_item_) >= 2
        /\ Leads(current_item_, item_) /\ Grounded(item_) /\ new \notin Under
    BY <1>3, <2>1, ArrayIs
  <2>3. item_' = set_value(emplace_back(item_, Back, NoName, type), Added, v)
        /\ current_item_' = Kept
    BY <2>2 DEF scalar_handler, BackIs
  <2>4. Kept = current_item_ /\ Added = new
    BY <2>1, <2>2, NoneInvalidated DEF Kept, Added, NextMember, Back
  <2>5. PICK u : u = emplace_back(item_, Back, NoName, type)
    OBVIOUS
  <2>6. ElementAdded(item_, u, Back, new) /\ u[new] = Node(type)
    BY <1>2, <2>1, <2>2, <2>5, EmplacedElement DEF Type
  <2>7. new \notin DOMAIN item_
    BY <1>2, <2>1, <2>2, NewIsNew
  <2>8. /\ ElementAdded(item_, item_', Back, new)
        /\ item_'[new].type = type /\ item_'[new].value = << v >>
    <3>1. item_' = set_value(u, new, v)
      BY <2>3, <2>4, <2>5
    <3> QED BY <1>2, <2>6, <2>7, <3>1, SetElement
  <2>9. ToldBy(new, item_'[new], Under) = {<< Append(new, 0), c >>}
    <3>1. OnlyOne(ToldBy(new, item_'[new], Under), Append(new, 0), ScalarCall(type, v))
      BY <2>8, ScalarTells
    <3> QED BY <3>1 DEF OnlyOne
  <2> QED BY <1>1, <1>3, <2>1, <2>3, <2>4, <2>8, <2>9, ElementGiven
<1>4. CASE Last(frames) = "property"
  <2>1. item_[Back].type = "Null"
    BY <1>4, PropertyIs
  <2>2. item_' = set_value(morph_to(item_, Back, type), Back, v)
        /\ current_item_' = Front(current_item_)
    BY <2>1 DEF scalar_handler, BackIs, Popped, Type
  <2>3. /\ DOMAIN item_' = DOMAIN item_
        /\ item_'[Back].type = type /\ item_'[Back].value = << v >>
        /\ \A q \in DOMAIN item_ : q # Back => item_'[q] = item_[q]
    BY <1>2, <2>2, SetProperty
  <2>4. ToldBy(Back, item_'[Back], Under') = {<< Append(Back, 0), c >>}
    <3>1. OnlyOne(ToldBy(Back, item_'[Back], Under'), Append(Back, 0), ScalarCall(type, v))
      BY <2>3, ScalarTells
    <3> QED BY <3>1 DEF OnlyOne
  <2> QED BY <1>1, <1>4, <2>2, <2>3, <2>4, PropertyGiven
<1> QED BY <1>3, <1>4

LEMMA NullIsTold ==
  ASSUME NEW p, NEW n, n.type = "Null", NEW open, p \notin open
  PROVE  ToldBy(p, n, open) = {<< Append(p, 0), CallOf("null") >>}
BY NullTells DEF CallOf, Calling

\* null_handler
LEMMA NullTold ==
  ASSUME IInv, IInv', Closed(item_), Telling, calls \in Seq(ValidCalls),
         frames # P!Stopped, Last(frames) \in {"array", "property"},
         frames' = P!WithLast(frames, P!Valued(Last(frames))),
         null_handler,
         NEW c \in ValidCalls, c = CallOf("null"), calls' = Append(calls, c)
  PROVE  Telling'
<1>1. /\ Last(frames) = "array" => Last(frames') = "array"
      /\ Last(frames) = "property" => Last(frames') = "object"
      /\ frames' # P!Stopped
  BY ValueTaken
<1>2. "Null" \in Types /\ Back \in DOMAIN item_
  BY HereIs DEF Types
<1>3. CASE Last(frames) = "array"
  <2>1. PICK new : new = NextMember(item_, Back)
    OBVIOUS
  <2>2. /\ Type(item_, Back) = "Array" /\ Len(current_item_) >= 2
        /\ Leads(current_item_, item_) /\ Grounded(item_) /\ new \notin Under
    BY <1>3, <2>1, ArrayIs
  <2>3. item_' = emplace_back(item_, Back, NoName, "Null") /\ current_item_' = Kept
    BY <2>2 DEF null_handler, BackIs, Emplace
  <2>4. Kept = current_item_
    BY <2>2, NoneInvalidated DEF Kept, Back
  <2>5. ElementAdded(item_, item_', Back, new) /\ item_'[new] = Node("Null")
    BY <1>2, <2>1, <2>2, <2>3, EmplacedElement DEF Type
  <2>6. item_'[new].type = "Null"
    BY <1>2, <2>5, NodeIsNode
  <2>7. ToldBy(new, item_'[new], Under) = {<< Append(new, 0), c >>}
    BY <2>2, <2>6, NullIsTold
  <2> QED BY <1>1, <1>3, <2>1, <2>3, <2>4, <2>5, <2>7, ElementGiven
<1>4. CASE Last(frames) = "property"
  <2>1. item_[Back].type = "Null"
    BY <1>4, PropertyIs
  <2>2. item_' = item_ /\ current_item_' = Front(current_item_)
    BY <2>1 DEF null_handler, BackIs, Popped, Type
  <2>3. Back \notin Under' => ToldBy(Back, item_'[Back], Under') = {<< Append(Back, 0), c >>}
    BY <2>1, <2>2, NullIsTold
  <2>4. DOMAIN item_' = DOMAIN item_ /\ \A q \in DOMAIN item_ : item_'[q] = item_[q]
    BY <2>2
  <2> QED BY <1>1, <1>4, <2>2, <2>3, <2>4, PropertyGiven
<1> QED BY <1>3, <1>4

\* end_array_handler, end_object_handler, end_string_handler
LEMMA EndTold ==
  ASSUME IInv, IInv', Telling, calls \in Seq(ValidCalls),
         NEW h \in {"end_array", "end_object", "end_string"}, Call(h, ""),
         current_item_' = Front(current_item_), item_' = item_,
         << h, "" >> = ClosingCall(Kind[P!Ends[h]])
  PROVE  Telling'
<1>1. Last(frames) \in {"array", "object", "string"} /\ frames # P!Stopped
      /\ frames' = Front(frames)
  BY TookEnd
<1>2. Last(frames) = P!Ends[h]
  BY Handler DEF Call, P!Taken, P!Scalars
<1>3. Last(frames') \in {"done", "array", "object"}
  <2>1. Nested(frames) /\ Len(frames) >= 2
    BY <1>1, WhereItIs
  <2> QED BY <1>1, <2>1, NestedPop
<1>4. frames' # P!Stopped
  BY <1>3, NotStopped
<1>5. PICK c : c = ClosingCall(Kind[P!Ends[h]])
  OBVIOUS
<1>6. c \in ValidCalls /\ calls' = Append(calls, c)
  BY <1>5, Valid DEF Call
<1> QED BY <1>1, <1>2, <1>3, <1>4, <1>5, <1>6, NodeEnded

\* string_content_handler, key_content_handler
LEMMA ContentTold ==
  ASSUME IInv, Telling, calls \in Seq(ValidCalls), NEW s \in Pieces,
         StringContent(s) \/ KeyContent(s)
  PROVE  Telling'
<1>1. s \in Texts
  BY DEF Texts
<1>2. CASE StringContent(s)
  <2>1. Last(frames) = "string" /\ frames # P!Stopped /\ frames' = frames
    BY <1>2, TookContent, Handler DEF StringContent
  <2>2. PICK c : c = << "string_content", s >>
    OBVIOUS
  <2>3. c \in ValidCalls /\ calls' = Append(calls, c) /\ string_content_handler(s)
    BY <1>1, <1>2, <2>2, Valid DEF StringContent, Call
  <2> QED BY <1>1, <2>1, <2>2, <2>3, StringGrown
<1>3. CASE KeyContent(s)
  <2>1. Last(frames) = "key" /\ frames # P!Stopped /\ frames' = frames
    BY <1>3, TookContent, Handler DEF KeyContent
  <2>2. PICK c : c = Calling("key_content", s)
    OBVIOUS
  <2>3. c \in ValidCalls /\ calls' = Append(calls, c) /\ key_content_handler(s)
    BY <1>1, <1>3, <2>2, Valid DEF KeyContent, Call, Calling
  <2> QED BY <2>1, <2>2, <2>3, NameGrown
<1> QED BY <1>2, <1>3

LEMMA ValidMarks ==
  \A h \in {"begin_key", "end_key", "null"} : CallOf(h) \in ValidCalls
BY Valid DEF CallOf, Calling

\* begin_key_handler
LEMMA BeginKeyTold ==
  ASSUME IInv, Telling, calls \in Seq(ValidCalls), BeginKey
  PROVE  Telling'
<1>1. Last(frames) = "object" /\ frames # P!Stopped /\ frames' = Append(frames, "key")
  BY TookBeginKey DEF BeginKey
<1>2. Last(frames') = "key"
  <2>1. Nested(frames)
    BY <1>1, WhereItIs
  <2>2. Pushed(frames, "key", frames')
    BY <1>1, <2>1, NestedPush
  <2> QED BY <2>2 DEF Pushed
<1>3. PICK c : c = CallOf("begin_key")
  OBVIOUS
<1>4. c \in ValidCalls /\ calls' = Append(calls, c) /\ begin_key_handler
  BY <1>3, ValidMarks DEF BeginKey, Call, CallOf, Calling
<1> QED BY <1>1, <1>2, <1>3, <1>4, KeyBegun

\* end_key_handler
LEMMA EndKeyTold ==
  ASSUME IInv, Closed(item_), Telling, calls \in Seq(ValidCalls), EndKey
  PROVE  Telling'
<1>1. Last(frames) = "key" /\ frames # P!Stopped
      /\ frames' = P!WithLast(Front(frames), "property")
  BY TookEndKey DEF EndKey
<1>2. Last(frames') = "property"
  <2>1. Nested(frames) /\ Len(frames) >= 2
    BY <1>1, WhereItIs
  <2>2. PICK fs : fs = Front(frames)
    OBVIOUS
  <2>3. Nested(fs) /\ Last(fs) = "object"
    BY <1>1, <2>1, <2>2, NestedPop
  <2> QED BY <1>1, <2>2, <2>3, NestedBecome
<1>3. PICK c : c = CallOf("end_key")
  OBVIOUS
<1>4. c \in ValidCalls /\ calls' = Append(calls, c) /\ end_key_handler
  BY <1>3, ValidMarks DEF EndKey, Call, CallOf, Calling
<1> QED BY <1>1, <1>2, <1>3, <1>4, KeyEnded

LEMMA BeginsTold ==
  ASSUME IInv, Closed(item_), Telling, calls \in Seq(ValidCalls),
         BeginArray \/ BeginObject \/ BeginString
  PROVE  Telling'
<1>1. /\ << "begin_array", "" >> = OpeningCall("Array")
      /\ << "begin_object", "" >> = OpeningCall("Object")
      /\ << "begin_string", "" >> = OpeningCall("String")
  BY OpeningClosing DEF OpeningCall
<1>2. CASE BeginArray
  BY <1>1, <1>2, BeginTold DEF BeginArray, begin_array_handler
<1>3. CASE BeginObject
  BY <1>1, <1>3, BeginTold DEF BeginObject, begin_object_handler
<1>4. CASE BeginString
  BY <1>1, <1>4, BeginTold DEF BeginString, begin_string_handler
<1> QED BY <1>2, <1>3, <1>4

LEMMA EndsTold ==
  ASSUME IInv, IInv', Telling, calls \in Seq(ValidCalls),
         EndArray \/ EndObject \/ EndString
  PROVE  Telling'
<1>1. /\ << "end_array", "" >> = ClosingCall(Kind[P!Ends["end_array"]])
      /\ << "end_object", "" >> = ClosingCall(Kind[P!Ends["end_object"]])
      /\ << "end_string", "" >> = ClosingCall(Kind[P!Ends["end_string"]])
  BY OpeningClosing, KindOf, Handler DEF ClosingCall
<1>2. CASE EndArray
  BY <1>1, <1>2, EndTold DEF EndArray, end_current, Popped
<1>3. CASE EndObject
  BY <1>1, <1>3, EndTold DEF EndObject, end_current, Popped
<1>4. CASE EndString
  BY <1>1, <1>4, EndTold DEF EndString, end_string_handler, Popped
<1> QED BY <1>2, <1>3, <1>4

LEMMA ScalarsTold ==
  ASSUME IInv, IInv', Closed(item_), Telling, calls \in Seq(ValidCalls), Scalars
  PROVE  Telling'
<1>1. ASSUME NEW h \in {"boolean", "double"}, NEW type \in {"Boolean", "Double"},
             NEW v \in Texts, Call(h, v), scalar_handler(type, v),
             << h, v >> = ScalarCall(type, v)
      PROVE  Telling'
  <2>1. /\ Last(frames) \in {"array", "property"} /\ frames # P!Stopped
        /\ frames' = P!WithLast(frames, P!Valued(Last(frames)))
    BY <1>1, TookScalar
  <2>2. PICK c : c = ScalarCall(type, v)
    OBVIOUS
  <2>3. c \in ValidCalls /\ calls' = Append(calls, c)
    BY <1>1, <2>2, Valid DEF Call
  <2> QED BY <1>1, <2>1, <2>2, <2>3, ScalarTold
<1>2. ASSUME NEW v \in Booleans, Boolean(v) PROVE Telling'
  <2>1. << "boolean", v >> = ScalarCall("Boolean", v) /\ v \in Texts
    BY OpeningClosing DEF ScalarCall, Texts
  <2> QED BY <1>1, <1>2, <2>1 DEF Boolean, boolean_handler
<1>3. ASSUME NEW v \in Numbers, Double(v) PROVE Telling'
  <2>1. << "double", v >> = ScalarCall("Double", v) /\ v \in Texts
    BY OpeningClosing DEF ScalarCall, Texts
  <2> QED BY <1>1, <1>3, <2>1 DEF Double, double_handler
<1>4. ASSUME Null PROVE Telling'
  <2>1. /\ Last(frames) \in {"array", "property"} /\ frames # P!Stopped
        /\ frames' = P!WithLast(frames, P!Valued(Last(frames)))
    BY <1>4, TookScalar DEF Null
  <2>2. PICK c : c = CallOf("null")
    OBVIOUS
  <2>3. c \in ValidCalls /\ calls' = Append(calls, c) /\ null_handler
    BY <1>4, <2>2, ValidMarks DEF Null, Call, CallOf, Calling
  <2> QED BY <2>1, <2>2, <2>3, NullTold
<1> QED BY <1>2, <1>3, <1>4 DEF Scalars

LEMMA TellingStep ==
  ASSUME IInv, Closed(item_), Printed, Telling, [Next]_vars
  PROVE  Telling'
<1>1. IInv' /\ calls \in Seq(ValidCalls)
  BY StepIInv DEF Printed, Buffered
<1>2. ASSUME Begins PROVE Telling'
  BY <1>1, <1>2, BeginsTold, BeginKeyTold DEF Begins
<1>3. ASSUME Ends PROVE Telling'
  BY <1>1, <1>3, EndsTold, EndKeyTold DEF Ends
<1>4. ASSUME Contents PROVE Telling'
  BY <1>1, <1>4, ContentTold DEF Contents
<1>5. ASSUME Scalars PROVE Telling'
  BY <1>1, <1>5, ScalarsTold
<1>6. ASSUME Finish \/ UNCHANGED vars PROVE Telling'
  <2>1. UNCHANGED << frames, calls, item_, current_item_, lastString_ >>
    BY <1>6 DEF Finish, vars, builderVars
  <2>2. ToldNow' = ToldNow /\ NextNow' = NextNow
    BY <2>1 DEF ToldNow, NextNow
  <2> QED BY <2>1, <2>2 DEF Telling
<1>7. ASSUME GiveUp PROVE Telling'
  BY <1>7 DEF GiveUp, Telling
<1> QED BY <1>2, <1>3, <1>4, <1>5, <1>6, <1>7 DEF Next, Finished

LEMMA InitTelling ==
  ASSUME Init
  PROVE  Telling
<1>1. frames = << "root" >> /\ calls = << >> /\ item_ = NullItem
  BY DEF Init, BuilderInit
<1>2. Last(frames) = "root"
  BY <1>1 DEF Last
<1> QED BY <1>1, <1>2 DEF Telling

\* All that is known of a document while it is given.
Known == IInv /\ Closed(item_) /\ Printed /\ Telling

\* It holds in every state: each step tells of exactly one call more, at a place behind
\* those of all others.
THEOREM KnownInductive == Spec => []Known
<1>1. Init => Telling
  BY InitTelling
<1>2. IInv /\ Closed(item_) /\ Printed /\ Telling /\ [Next]_vars => Telling'
  BY TellingStep
<1>3. (IInv /\ Closed(item_) /\ Printed) /\ Telling => Known
  BY DEF Known
<1> QED BY <1>1, <1>2, <1>3, WholeInductive, PTL DEF Spec

LEMMA TellsCalls ==
  ASSUME Known
  PROVE  ItemTellsCalls
<1> SUFFICES ASSUME Made PROVE calls = InOrder(ToldNow)
  BY DEF ItemTellsCalls, ToldNow
<1>1. frames # P!Stopped /\ IInv
  BY DEF Made, Known
<1>2. Last(frames) # "root"
  <2> SUFFICES ASSUME Last(frames) = "root" PROVE FALSE
    OBVIOUS
  <2>1. Nested(frames) /\ Len(frames) = 1
    BY <1>1, WhereItIs
  <2>2. frames \in Seq(FrameNames) /\ frames[1] = "root"
    BY <2>1, LastFrame DEF Nested
  <2>3. frames = << "root" >>
    BY <2>1, <2>2
  <2> QED BY <2>3 DEF Made
<1>3. Tells(ToldNow, calls) /\ calls \in Seq(ValidCalls)
  BY <1>1, <1>2 DEF Known, Telling, Printed, Buffered
<1> QED BY <1>3, TellsInOrder

\* For documents of every length and depth: the item tells of the calls that were made, in
\* their order and with their values, and of nothing else.
THEOREM ItemTells == Spec => []ItemTellsCalls
<1>1. Known => ItemTellsCalls
  BY TellsCalls
<1> QED BY <1>1, KnownInductive, PTL

\* What jsonprint has printed when a document of any length and depth was given is the
\* text of the item that was built of it.
THEOREM ItemIsPrinted == Spec => []PrintsItem
<1>1. Known => PrintsItem
  <2> SUFFICES ASSUME Known, frames = << "done" >>, buf = << >>
               PROVE  out = PrintOf(InOrder(Told(item_, {})))
    BY DEF PrintsItem
  <2>1. Last(frames) = "done" /\ frames # P!Stopped /\ frames # << "root" >>
    BY DEF Last, P!Stopped
  <2>2. calls = InOrder(ToldNow)
    BY <2>1, TellsCalls DEF ItemTellsCalls, Made, ToldNow
  <2>3. ToldNow = Told(item_, {})
    <3>1. Len(current_item_) = 1
      BY <2>1, WhereItIs DEF Known
    <3>2. UnderConstruction(current_item_) = {}
      BY <3>1 DEF UnderConstruction
    <3> QED BY <2>1, <3>2, NoNameToTell DEF ToldNow
  <2>4. out = PrintOf(calls)
    BY ConcatEmptySeq DEF Known, Printed, Buffered
  <2> QED BY <2>2, <2>3, <2>4
<1> QED BY <1>1, KnownInductive, PTL

==============================================================================
