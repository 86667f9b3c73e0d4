---------------------------- MODULE MCItemOutput ----------------------------
(***************************************************************************)
(* Small items for ItemOutput, and the text each of them has.              *)
(***************************************************************************)
EXTENDS ItemOutput, SequencesExt, TLC

\* The tree with this root above these trees.
Grown(root, trees) ==
  << >> :> root
    @@ [path \in UNION {{<< i >> \o p : p \in DOMAIN trees[i]} : i \in DOMAIN trees} |->
          trees[path[1]][Tail(path)]]

\* The q-th sequence of at most two of these trees.
Members(trees, q) ==
  LET m == Len(trees)
      r == q - m - 1
  IN  CASE q = 0 -> << >>
        [] q \in 1 .. m -> << trees[q] >>
        [] q > m -> << trees[(r \div m) + 1], trees[(r % m) + 1] >>

\* The arrays and the objects of at most two of these items; all names are two bytes, "".
Over(trees) ==
  LET n == 1 + Len(trees) * (Len(trees) + 1)
      Names(ts) == [i \in 1 .. Len(ts) |-> 2]
  IN  [k \in 1 .. n |-> LET ts == Members(trees, k - 1) IN Grown(Array(Len(ts)), ts)]
      \o [k \in 1 .. n |-> LET ts == Members(trees, k - 1) IN Grown(Object(Names(ts)), ts)]

Scalar(width) == Grown(Leaf(width), << >>)

\* [{"a": [{"": ...}]}, the same], where names differ in width.
Deep ==
  LET inner == Grown(Object(<< 3, 2 >>), << Scalar(1), Scalar(4) >>)
      branch == Grown(Object(<< 2 >>), << Grown(Array(1), << inner >>) >>)
  IN  Grown(Array(2), << branch, branch >>)

\* Every item three levels deep of this kind, and one of five.
DeepAndNested ==
  LET flat == << Scalar(2), Grown(Array(0), << >>) >>
      nested == << Scalar(2) >> \o Over(flat)
  IN  << Deep >> \o Over(nested)

SomeItems == DeepAndNested

\* None, less and more than a name, a colon and a value take together.
SomeRooms == {0, 1, 3, 6}

-----------------------------------------------------------------------------
BytesAt(path, what, member, n) == [k \in 1 .. n |-> At(path, what, member, k)]

RECURSIVE TextOf(_, _)

\* The text of the part of an item at a path: what ECMA-404 says of each kind.
TextOf(tree, path) ==
  LET n == tree[path]
      Name(i) == IF n.kind = "object"
                   THEN BytesAt(path, "key", i, n.keys[i]) \o BytesAt(path, "colon", i, 1)
                   ELSE << >>
      Comma(i) == IF i < n.children THEN BytesAt(path, "separator", i, 1) ELSE << >>
      Member(i) == Name(i) \o TextOf(tree, Append(path, i)) \o Comma(i)
  IN  IF n.kind = "leaf"
        THEN BytesAt(path, "leaf", 0, n.width)
        ELSE BytesAt(path, "begin", 0, 1)
               \o FlattenSeq([i \in 1 .. n.children |-> Member(i)])
               \o BytesAt(path, "end", 0, 1)

\* The texts of all items; written as a tuple, which TLC computes once.
TextsOfItems == [i \in DOMAIN SomeItems |-> TextOf(SomeItems[i], << >>)] \o << >>

SomeTexts == TextsOfItems
=============================================================================
