----------------------------- MODULE BasicItem ------------------------------
(***************************************************************************)
(* basic_item (basic_item.h): a document in memory.  An item is a function *)
(* from paths to nodes, the root at << >>, the i-th member of the node at p *)
(* at Append(p, i).  A pointer to an item inside of a document is its path. *)
(* value is the text of a string, in pieces, or one value of a scalar, and *)
(* << >> before it was set; names are those of the properties, in order,   *)
(* and NoName for every element of an array.                               *)
(***************************************************************************)
EXTENDS Naturals, Sequences

Types == {"Null", "Boolean", "Double", "String", "Array", "Object"}

Node(type) == [type |-> type, value |-> << >>, names |-> << >>]

NullItem == [p \in {<< >>} |-> Node("Null")]

\* What an element of an array has for a name.
NoName == << >>

\* A pointer into storage that was given back.
Dangling == << 0 >>

Type(tree, p) == tree[p].type

\* The members of a node.
MembersOf(tree, p) == {Append(p, i) : i \in 1 .. Len(tree[p].names)}

\* morph_to and morph_to_string
morph_to(tree, p, type) == [tree EXCEPT ![p] = Node(type)]

\* set_bool_value and set_double_value
set_value(tree, p, v) == [tree EXCEPT ![p].value = << v >>]

\* emplace_back, which create_item, add_item, create_property and add_property end in.
emplace_back(tree, p, name, type) ==
  LET new == Append(p, Len(tree[p].names) + 1)
      grown == [tree[p] EXCEPT !.names = Append(@, name)]
  IN  [q \in DOMAIN tree \cup {new} |->
         CASE q = new -> Node(type) [] q = p -> grown [] OTHER -> tree[q]]

\* A vector that grows may move: what pointed at its members is of no use any more.
Invalidated(pointers, tree, p) ==
  [i \in DOMAIN pointers |-> IF pointers[i] \in MembersOf(tree, p) THEN Dangling ELSE pointers[i]]
=============================================================================
