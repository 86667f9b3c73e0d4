--------------------------- MODULE MCStringOutput ---------------------------
(***************************************************************************)
(* Strings of a few characters of every kind for StringOutput.             *)
(***************************************************************************)
EXTENDS StringOutput

Characters == { << "basic" >>, << "short" >>, << "control" >>, << "lead2", "cont" >>,
                << "lead3", "cont", "cont" >>, << "lead4", "cont", "cont", "cont" >> }

\* Every well-formed string of at most three characters.
ShortStrings == {FlattenSeq(s) : s \in BoundedSeq(Characters, 3)}

\* Smaller and larger than every escape, and no room at all.
SomeRooms == {0, 1, 2, 5, 13}

OneCodePoint == { << "basic", "lead2", "cont" >> }
=============================================================================
