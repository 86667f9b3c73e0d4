----------------------------- MODULE Properties -----------------------------
(***************************************************************************)
(* The properties of an object and what its owner may do to them           *)
(* (basic_item.h): they are a vector of pairs, in which add_property and   *)
(* create_property look for nothing and the other operations for the first *)
(* pair of a name.  An item given to the object is moved: it may be new or *)
(* be the item of a property of the same object, which is left null.       *)
(***************************************************************************)
EXTENDS Integers, Sequences, SequencesExt, FiniteSets

CONSTANTS
  Names,         \* of properties
  Items,         \* values that are not null
  Null,          \* the null item
  MaxProperties  \* of the object

ASSUME NullAssumption == Null \notin Items
ASSUME MaxPropertiesAssumption == MaxProperties \in Nat

VARIABLES
  object,     \* the vector of pairs
  duplicated  \* history: a name was added that was there

vars == << object, duplicated >>

Pair(name, item) == [name |-> name, item |-> item]

Init == object = << >> /\ duplicated = FALSE

\* Where the loops find the first pair of a name; 0 if there is none.
At(name) == SelectInSeq(object, LAMBDA pair : pair.name = name)

Has(name) == At(name) > 0

\* property(), for a name that is there.
property(name) == object[At(name)].item

\* The slots of items that may be moved into the object, and 0 for a new item.
Slots == 0 .. Len(object)

\* The object after the item in a slot was moved away.
Without(slot) == IF slot = 0 THEN object ELSE [object EXCEPT ![slot].item = Null]

\* The item that is moved.
Taken(slot, new) == IF slot = 0 THEN new ELSE object[slot].item

Emplace(name, slot, new) ==
  /\ Len(object) < MaxProperties
  /\ object' = Append(Without(slot), Pair(name, Taken(slot, new)))

-----------------------------------------------------------------------------
\* add_property, with an item of the object or a new one.
add_property(name, slot, new) ==
  /\ Emplace(name, slot, new)
  /\ duplicated' = (duplicated \/ Has(name))

\* create_property: the item is null until it is morphed.
create_property(name) == add_property(name, 0, Null)

\* Mutant of Assign: the operator does not compare the two items first.
AssignUnguarded(to, slot, new) ==
  object' = IF slot = 0 THEN [object EXCEPT ![to].item = new]
            ELSE [object EXCEPT ![to].item = object[slot].item, ![slot].item = Null]

\* The move assignment of items, which does nothing if both are the same.
Assign(to, slot, new) ==
  \/ slot = to /\ UNCHANGED object
  \/ slot # to /\ object' = [Without(slot) EXCEPT ![to].item = Taken(slot, new)]

\* Mutant of set_property: like add_property it looks for nothing.
set_propertyAppends(name, slot, new) ==
  /\ Emplace(name, slot, new)
  /\ UNCHANGED duplicated

\* set_property: the first pair of the name is assigned to, or one is added.
set_property(name, slot, new) ==
  /\ IF Has(name) THEN Assign(At(name), slot, new) ELSE Emplace(name, slot, new)
  /\ UNCHANGED duplicated

\* remove_property erases one pair.
remove_property(name) ==
  /\ Has(name)
  /\ object' = RemoveAt(object, At(name))
  /\ UNCHANGED duplicated

\* The owner changes the item through the pointer that property() returned: a null is
\* morphed, any other item is given a value.
Modify(name, new) ==
  /\ Has(name)
  /\ object' = [object EXCEPT ![At(name)].item = new]
  /\ UNCHANGED duplicated

Next ==
  \E name \in Names :
    \/ \E slot \in Slots, new \in Items :
         add_property(name, slot, new) \/ set_property(name, slot, new)
    \/ create_property(name)
    \/ remove_property(name)
    \/ \E new \in Items : Modify(name, new)

Spec == Init /\ [][Next]_vars

-----------------------------------------------------------------------------
(* Properties.                                                             *)

\* The names in the vector.
NamesUsed == {object[i].name : i \in DOMAIN object}

\* child_count() counts names, each once, as long as none was added that was there: an
\* object printed from it has no key twice.
NamesOnce == ~duplicated => Len(object) = Cardinality(NamesUsed)

\* What the owner sees through property().
Seen == [name \in NamesUsed |-> property(name)]

M == INSTANCE PropertyMap WITH map <- Seen

\* The object is a map from names to items as long as no name was added that was there,
\* which a document with a key twice does, wherever the items are moved from.
IsMapUnlessDuplicated == M!Init /\ [][M!Next \/ duplicated']_Seen
=============================================================================
