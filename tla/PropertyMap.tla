---------------------------- MODULE PropertyMap -----------------------------
(***************************************************************************)
(* What an owner takes an object for: a map from names to items, where the *)
(* comments of basic_item.h speak of "the property of the given name".     *)
(***************************************************************************)
CONSTANTS Names, Items, Null

VARIABLE map

Init == map = << >>

\* The names that have an item.
Present == DOMAIN map

\* The item of a name, new or not, is v.
Put(n, v) ==
  map' = [m \in Present \cup {n} |-> IF m = n THEN v ELSE map[m]]

\* The item of one name becomes that of another and leaves a null behind.
Move(n, from) ==
  /\ from \in Present /\ from # n
  /\ map' = [m \in Present \cup {n} |->
               IF m = n THEN map[from] ELSE IF m = from THEN Null ELSE map[m]]

Remove(n) ==
  /\ n \in Present
  /\ map' = [m \in Present \ {n} |-> map[m]]

Next ==
  \E n \in Names :
    \/ \E v \in Items : Put(n, v)
    \/ n \notin Present /\ Put(n, Null)
    \/ \E from \in Names : Move(n, from)
    \/ Remove(n)

Spec == Init /\ [][Next]_map
=============================================================================
