---------------------------- MODULE ItemBuilder -----------------------------
(***************************************************************************)
(* item_builder (item_builder.h): the handlers that make an item of the    *)
(* calls of a parser.  They know where they are only by the types of the   *)
(* items on a stack of their own, and the operations of the items have     *)
(* contracts (REQUIRE), that a step must meet to be taken.                 *)
(***************************************************************************)
EXTENDS BasicItem, SequencesExt

VARIABLES
  item_,          \* the item built
  current_item_,  \* pointers to the items under construction
  lastString_     \* the name of the next property

builderVars == << item_, current_item_, lastString_ >>

BuilderInit ==
  /\ item_ = NullItem
  /\ current_item_ = << << >> >>
  /\ lastString_ = << >>

-----------------------------------------------------------------------------
\* current_item_.back()
Back == Last(current_item_)

Popped == Front(current_item_)

\* The current item is there, and of one of these types.
BackIs(types) ==
  current_item_ # << >> /\ Back \in DOMAIN item_ /\ Type(item_, Back) \in types

\* Nothing was begun.
AtRoot == Type(item_, << >>) = "Null"

\* A member is added to the current item.
Emplace(name, type) == item_' = emplace_back(item_, Back, name, type)

\* The pointers, after that.
Kept == Invalidated(current_item_, item_, Back)

\* Mutant of Added: the pointer is taken before the member is there.
AddedBefore == Append(Back, Len(item_[Back].names))

\* The pointer to the member that is added.
Added == Append(Back, Len(item_[Back].names) + 1)

Morph(p, type) == item_' = morph_to(item_, p, type)

\* The document itself, an element, or the value of the property that was pushed with
\* its name.
begin(type) ==
  /\ \/ AtRoot /\ Morph(<< >>, type) /\ current_item_' = Append(current_item_, << >>)
     \/ /\ ~AtRoot /\ BackIs({"Array"})
        /\ Emplace(NoName, type) /\ current_item_' = Append(Kept, Added)
     \/ ~AtRoot /\ BackIs({"Null"}) /\ Morph(Back, type) /\ UNCHANGED current_item_
  /\ UNCHANGED lastString_

begin_array_handler == begin("Array")
begin_object_handler == begin("Object")
begin_string_handler == begin("String")

\* end_current_object, and it is the current item no more.
end_current ==
  /\ BackIs({"Array", "Object"})
  /\ current_item_' = Popped
  /\ UNCHANGED << item_, lastString_ >>

\* Mutant of scalar_handler: the property stays the current item.
scalarKeepsProperty(type, v) ==
  /\ \/ /\ BackIs({"Array"})
        /\ item_' = set_value(emplace_back(item_, Back, NoName, type), Added, v)
        /\ current_item_' = Kept
     \/ /\ BackIs({"Null"})
        /\ item_' = set_value(morph_to(item_, Back, type), Back, v)
        /\ UNCHANGED current_item_
  /\ UNCHANGED lastString_

\* An element, or the value of the property that was pushed.
scalar_handler(type, v) ==
  /\ \/ /\ BackIs({"Array"})
        /\ item_' = set_value(emplace_back(item_, Back, NoName, type), Added, v)
        /\ current_item_' = Kept
     \/ /\ BackIs({"Null"})
        /\ item_' = set_value(morph_to(item_, Back, type), Back, v)
        /\ current_item_' = Popped
  /\ UNCHANGED lastString_

boolean_handler(v) == scalar_handler("Boolean", v)
double_handler(v) == scalar_handler("Double", v)

\* The value of a property stays what it was.
null_handler ==
  /\ \/ BackIs({"Array"}) /\ Emplace(NoName, "Null") /\ current_item_' = Kept
     \/ BackIs(Types \ {"Array"}) /\ current_item_' = Popped /\ UNCHANGED item_
  /\ UNCHANGED lastString_

\* Mutant of string_content_handler: a piece takes the place of the one before.
string_contentReplaces(piece) ==
  /\ BackIs({"String"})
  /\ item_' = [item_ EXCEPT ![Back].value = << piece >>]
  /\ UNCHANGED << current_item_, lastString_ >>

string_content_handler(piece) ==
  /\ BackIs({"String"})
  /\ item_' = [item_ EXCEPT ![Back].value = Append(@, piece)]
  /\ UNCHANGED << current_item_, lastString_ >>

end_string_handler ==
  /\ current_item_ # << >>
  /\ current_item_' = Popped
  /\ UNCHANGED << item_, lastString_ >>

begin_key_handler ==
  /\ lastString_' = << >>
  /\ UNCHANGED << item_, current_item_ >>

key_content_handler(piece) ==
  /\ lastString_' = Append(lastString_, piece)
  /\ UNCHANGED << item_, current_item_ >>

\* Mutant of end_key_handler: the property is created but not pushed.
end_keyDoesNotPush ==
  /\ BackIs({"Object"})
  /\ Emplace(lastString_, "Null")
  /\ current_item_' = Kept
  /\ lastString_' = << >>

\* create_property, with the null item that the value will be.
end_key_handler ==
  /\ BackIs({"Object"})
  /\ Emplace(lastString_, "Null")
  /\ current_item_' = Append(Kept, Added)
  /\ lastString_' = << >>
=============================================================================
