--------------------------- MODULE GrammarProofs ---------------------------
(***************************************************************************)
(* Proofs about Grammar: for every text, and however it is cut into calls, *)
(* the parser accepts it exactly when it is a document of the grammar.     *)
(*                                                                         *)
(* The argument is by derivatives.  To every state of the parser belongs   *)
(* the language of the texts that complete its document; reading a         *)
(* character takes this language to its derivative.                        *)
(***************************************************************************)
EXTENDS Grammar, ParserProofs, SequenceTheorems, WellFoundedInduction

-----------------------------------------------------------------------------
(* Induction over the natural numbers, stated with sets: the provers cannot *)
(* instantiate the theorems of the library that take an operator.          *)

\* A set that holds zero and with each number the next one holds all of them.
LEMMA AllNumbers ==
  ASSUME NEW S, 0 \in S, \A n \in Nat : n \in S => n + 1 \in S
  PROVE  \A n \in Nat : n \in S
<1> DEFINE Less == {p \in Nat \X Nat : p[1] < p[2]}
           T == {k \in Nat : k \notin S}
<1>1. SUFFICES ASSUME T # {} PROVE FALSE
  OBVIOUS
<1>2. T \subseteq Nat /\ IsWellFoundedOn(Less, Nat)
  BY NatLessThanWellFounded DEF OpToRel
<1>3. PICK m \in T : \A k \in T : << k, m >> \notin Less
  <2> HIDE DEF Less, T
  <2> QED BY <1>1, <1>2, WFMin, Zenon
<1>4. m # 0 /\ m - 1 \in Nat /\ << m - 1, m >> \in Less
  OBVIOUS
<1>5. m - 1 \in S /\ (m - 1) + 1 = m
  BY <1>3, <1>4
<1> QED BY <1>4, <1>5

-----------------------------------------------------------------------------
(* Texts.                                                                  *)

\* A text in front of another one, and a character in front of a text.
Join(a, b) == a \o b
Ahead(c, u) == << c >> \o u
Empty == << >>

LEMMA EmptyText == Empty \in Text
BY EmptySeq DEF Text, Empty

LEMMA JoinText ==
  ASSUME NEW a \in Text, NEW b \in Text
  PROVE  /\ Join(a, b) \in Text
         /\ Join(Empty, b) = b /\ Join(a, Empty) = a
         /\ Join(a, b) = Empty <=> a = Empty /\ b = Empty
<1>1. a \in Seq(AllChars) /\ b \in Seq(AllChars)
  BY DEF Text
<1>2. a \o b \in Seq(AllChars)
  BY <1>1, ConcatProperties
<1>3. << >> \o b = b /\ a \o << >> = a
  BY <1>1, ConcatEmptySeq
<1>4. a \o b = << >> <=> a = << >> /\ b = << >>
  BY <1>1, ConcatEqualIffEmpty
<1> QED BY <1>2, <1>3, <1>4 DEF Join, Text, Empty

LEMMA JoinAssociative ==
  ASSUME NEW a \in Text, NEW b \in Text, NEW d \in Text
  PROVE  Join(Join(a, b), d) = Join(a, Join(b, d))
<1>1. a \in Seq(AllChars) /\ b \in Seq(AllChars) /\ d \in Seq(AllChars)
  BY DEF Text
<1>2. (a \o b) \o d = a \o (b \o d)
  BY <1>1, ConcatAssociative
<1> QED BY <1>2 DEF Join

LEMMA OneText ==
  ASSUME NEW c \in AllChars
  PROVE  << c >> \in Text /\ Len(<< c >>) = 1 /\ << c >>[1] = c /\ << c >> # Empty
BY DEF Text, Empty

LEMMA AheadText ==
  ASSUME NEW c \in AllChars, NEW u \in Text
  PROVE  /\ Ahead(c, u) \in Text /\ Ahead(c, u) # Empty
         /\ Len(Ahead(c, u)) = Len(u) + 1
         /\ Ahead(c, u)[1] = c
         /\ \A i \in 1 .. Len(u) : Ahead(c, u)[i + 1] = u[i]
<1>1. << c >> \in Seq(AllChars) /\ Len(<< c >>) = 1
  OBVIOUS
<1> QED BY <1>1 DEF Ahead, Text, Empty

LEMMA AheadInjective ==
  ASSUME NEW c \in AllChars, NEW d \in AllChars, NEW u \in Text, NEW v \in Text,
         Ahead(c, u) = Ahead(d, v)
  PROVE  c = d /\ u = v
<1>1. c = d
  <2>1. Ahead(c, u)[1] = c
    BY AheadText
  <2>2. Ahead(d, v)[1] = d
    BY AheadText
  <2> QED BY <2>1, <2>2
<1>2. << c >> \o u = << c >> \o v
  BY <1>1 DEF Ahead
<1>3. << c >> \in Text
  BY OneText
<1>4. u = v
  BY <1>2, <1>3, ConcatSimplifications, Zenon DEF Text
<1> QED BY <1>1, <1>4

\* A text is empty or begins with a character.
LEMMA AheadOrEmpty ==
  ASSUME NEW t \in Text, t # Empty
  PROVE  \E c \in AllChars, u \in Text : t = Ahead(c, u)
<1>1. Head(t) \in AllChars /\ Tail(t) \in Text /\ t # << >>
  BY HeadTailProperties DEF Text, Empty
<1>2. t = << Head(t) >> \o Tail(t)
  BY <1>1 DEF Text
<1> QED BY <1>1, <1>2 DEF Ahead

LEMMA AheadJoin ==
  ASSUME NEW c \in AllChars, NEW a \in Text, NEW b \in Text
  PROVE  Join(Ahead(c, a), b) = Ahead(c, Join(a, b))
<1>1. << c >> \in Seq(AllChars) /\ a \in Seq(AllChars) /\ b \in Seq(AllChars)
  BY DEF Text
<1>2. (<< c >> \o a) \o b = << c >> \o (a \o b)
  BY <1>1, ConcatAssociative
<1> QED BY <1>2 DEF Join, Ahead

LEMMA LenText ==
  ASSUME NEW t \in Text
  PROVE  Len(t) \in Nat /\ (Len(t) = 0 <=> t = Empty)
BY DEF Text, Empty

LEMMA LenJoin ==
  ASSUME NEW a \in Text, NEW b \in Text
  PROVE  Len(Join(a, b)) = Len(a) + Len(b)
BY DEF Text, Join

\* Where a text is cut, and back.
LEMMA Cut ==
  ASSUME NEW t \in Text, NEW i \in 0 .. Len(t)
  PROVE  /\ SubSeq(t, 1, i) \in Text /\ SubSeq(t, i + 1, Len(t)) \in Text
         /\ Len(SubSeq(t, 1, i)) = i
         /\ t = Join(SubSeq(t, 1, i), SubSeq(t, i + 1, Len(t)))
<1>1. Len(t) \in Nat /\ t \in Seq(AllChars)
  BY DEF Text
<1>2. SubSeq(t, 1, i) \in Text /\ SubSeq(t, i + 1, Len(t)) \in Text
  BY <1>1 DEF Text
<1>3. Len(SubSeq(t, 1, i)) = i
  BY <1>1
<1>4. SubSeq(t, 1, i) \o SubSeq(t, i + 1, Len(t)) = SubSeq(t, 1, Len(t))
  <2>1. 1 \in 1 .. Len(t) + 1 /\ i \in 1 - 1 .. Len(t) /\ Len(t) \in i .. Len(t)
    BY <1>1
  <2> QED BY <1>1, <2>1, ConcatAdjacentSubSeq
<1>5. SubSeq(t, 1, Len(t)) = t
  BY <1>1, SubSeqFull
<1> QED BY <1>2, <1>3, <1>4, <1>5 DEF Join

LEMMA CutJoin ==
  ASSUME NEW a \in Text, NEW b \in Text
  PROVE  /\ Len(a) \in 0 .. Len(Join(a, b))
         /\ SubSeq(Join(a, b), 1, Len(a)) = a
         /\ SubSeq(Join(a, b), Len(a) + 1, Len(Join(a, b))) = b
<1>1. /\ Len(a) \in Nat /\ Len(b) \in Nat /\ Len(Join(a, b)) = Len(a) + Len(b)
      /\ Join(a, b) \in Seq(AllChars)
      /\ a \in Seq(AllChars) /\ b \in Seq(AllChars)
  BY DEF Text, Join
<1>2. SubSeq(Join(a, b), 1, Len(a)) = a
  <2> DEFINE s == SubSeq(Join(a, b), 1, Len(a))
  <2>1. s \in Seq(AllChars) /\ Len(s) = Len(a)
    BY <1>1
  <2>2. \A i \in 1 .. Len(s) : s[i] = a[i]
    BY <1>1 DEF Join
  <2> HIDE DEF s
  <2>3. s = a
    BY <1>1, <2>1, <2>2, SeqEqual
  <2> QED BY <2>3 DEF s
<1>3. SubSeq(Join(a, b), Len(a) + 1, Len(Join(a, b))) = b
  <2> DEFINE s == SubSeq(Join(a, b), Len(a) + 1, Len(Join(a, b)))
  <2>1. s \in Seq(AllChars) /\ Len(s) = Len(b)
    BY <1>1
  <2>2. \A i \in 1 .. Len(s) : s[i] = b[i]
    BY <1>1 DEF Join
  <2> HIDE DEF s
  <2>3. s = b
    BY <1>1, <2>1, <2>2, SeqEqual
  <2> QED BY <2>3 DEF s
<1> QED BY <1>1, <1>2, <1>3

-----------------------------------------------------------------------------
(* Languages: concatenation.                                               *)

LEMMA ThenIff ==
  ASSUME NEW A \in SUBSET Text, NEW B \in SUBSET Text, NEW t
  PROVE  t \in Then(A, B) <=> \E a \in A, b \in B : t = Join(a, b)
<1>1. ASSUME t \in Then(A, B) PROVE \E a \in A, b \in B : t = Join(a, b)
  <2>1. t \in Text
    BY <1>1 DEF Then
  <2>2. PICK i \in 0 .. Len(t) : SubSeq(t, 1, i) \in A /\ SubSeq(t, i + 1, Len(t)) \in B
    BY <1>1 DEF Then
  <2>3. t = Join(SubSeq(t, 1, i), SubSeq(t, i + 1, Len(t)))
    BY <2>1, Cut
  <2> QED BY <2>2, <2>3, Zenon
<1>2. ASSUME NEW a \in A, NEW b \in B, t = Join(a, b) PROVE t \in Then(A, B)
  <2>1. a \in Text /\ b \in Text
    OBVIOUS
  <2>2. t \in Text
    BY <1>2, <2>1, JoinText
  <2>3. PICK i : i = Len(a)
    OBVIOUS
  <2>4. i \in 0 .. Len(t) /\ SubSeq(t, 1, i) = a /\ SubSeq(t, i + 1, Len(t)) = b
    BY <1>2, <2>1, <2>3, CutJoin
  <2>5. SubSeq(t, 1, i) \in A /\ SubSeq(t, i + 1, Len(t)) \in B
    BY <2>4, Zenon
  <2> QED BY <2>2, <2>4, <2>5, Zenon DEF Then
<1> QED BY <1>1, <1>2, Zenon

LEMMA ThenLanguage == \A A, B : Then(A, B) \in SUBSET Text
BY DEF Then

LEMMA ThenAssociative ==
  ASSUME NEW A \in SUBSET Text, NEW B \in SUBSET Text, NEW C \in SUBSET Text
  PROVE  Then(Then(A, B), C) = Then(A, Then(B, C))
<1>1. Then(A, B) \in SUBSET Text /\ Then(B, C) \in SUBSET Text
  BY ThenLanguage
<1>2. ASSUME NEW t \in Then(Then(A, B), C) PROVE t \in Then(A, Then(B, C))
  <2>1. PICK x \in Then(A, B), d \in C : t = Join(x, d)
    BY <1>1, ThenIff
  <2>2. PICK a \in A, b \in B : x = Join(a, b)
    BY ThenIff
  <2>3. Join(b, d) \in Then(B, C)
    BY ThenIff
  <2>4. t = Join(a, Join(b, d))
    BY <2>1, <2>2, JoinAssociative
  <2> QED BY <1>1, <2>3, <2>4, ThenIff
<1>3. ASSUME NEW t \in Then(A, Then(B, C)) PROVE t \in Then(Then(A, B), C)
  <2>1. PICK a \in A, x \in Then(B, C) : t = Join(a, x)
    BY <1>1, ThenIff
  <2>2. PICK b \in B, d \in C : x = Join(b, d)
    BY ThenIff
  <2>3. Join(a, b) \in Then(A, B)
    BY ThenIff
  <2>4. t = Join(Join(a, b), d)
    BY <2>1, <2>2, JoinAssociative
  <2> QED BY <1>1, <2>3, <2>4, ThenIff
<1> QED BY <1>2, <1>3

LEMMA ThenEmpty ==
  ASSUME NEW A \in SUBSET Text
  PROVE  /\ Then({Empty}, A) = A /\ Then(A, {Empty}) = A
         /\ Then({}, A) = {} /\ Then(A, {}) = {}
<1>1. {Empty} \in SUBSET Text /\ {} \in SUBSET Text
  BY EmptyText
<1>2. \A t \in A : t \in Text /\ t = Join(Empty, t) /\ t = Join(t, Empty)
  BY EmptyText, JoinText
<1>3. \A t : t \in Then({Empty}, A) <=> t \in A
  <2>1. \A t : t \in Then({Empty}, A) <=> \E a \in {Empty}, b \in A : t = Join(a, b)
    BY <1>1, ThenIff
  <2> QED BY <1>2, <2>1
<1>4. \A t : t \in Then(A, {Empty}) <=> t \in A
  <2>1. \A t : t \in Then(A, {Empty}) <=> \E a \in A, b \in {Empty} : t = Join(a, b)
    BY <1>1, ThenIff
  <2> QED BY <1>2, <2>1
<1>5. \A t : t \notin Then({}, A) /\ t \notin Then(A, {})
  BY <1>1, ThenIff
<1> QED BY <1>3, <1>4, <1>5

LEMMA ThenUnion ==
  ASSUME NEW A \in SUBSET Text, NEW B \in SUBSET Text, NEW C \in SUBSET Text
  PROVE  Then(A \cup B, C) = Then(A, C) \cup Then(B, C)
<1>1. A \cup B \in SUBSET Text
  OBVIOUS
<1>2. \A t : t \in Then(A \cup B, C) <=> \E a \in A \cup B, b \in C : t = Join(a, b)
  BY <1>1, ThenIff
<1>3. \A t : t \in Then(A, C) <=> \E a \in A, b \in C : t = Join(a, b)
  BY ThenIff
<1>4. \A t : t \in Then(B, C) <=> \E a \in B, b \in C : t = Join(a, b)
  BY ThenIff
<1> QED BY <1>2, <1>3, <1>4

LEMMA EmptyInThen ==
  ASSUME NEW A \in SUBSET Text, NEW B \in SUBSET Text
  PROVE  Empty \in Then(A, B) <=> Empty \in A /\ Empty \in B
<1>1. Empty \in Then(A, B) <=> \E a \in A, b \in B : Empty = Join(a, b)
  BY ThenIff
<1>2. \A a \in A, b \in B : Empty = Join(a, b) <=> a = Empty /\ b = Empty
  BY JoinText
<1> QED BY <1>1, <1>2

-----------------------------------------------------------------------------
(* Languages: derivatives.                                                 *)

\* What may follow c in the texts of A.
Deriv(c, A) == {u \in Text : Ahead(c, u) \in A}

LEMMA DerivLanguage == \A c, A : Deriv(c, A) \in SUBSET Text
BY DEF Deriv

LEMMA DerivUnion ==
  \A c, A, B : Deriv(c, A \cup B) = Deriv(c, A) \cup Deriv(c, B)
BY DEF Deriv

LEMMA DerivThen ==
  ASSUME NEW c \in AllChars, NEW A \in SUBSET Text, NEW B \in SUBSET Text
  PROVE  Deriv(c, Then(A, B)) =
           Then(Deriv(c, A), B) \cup (IF Empty \in A THEN Deriv(c, B) ELSE {})
<1> DEFINE R == IF Empty \in A THEN Deriv(c, B) ELSE {}
<1>1. Deriv(c, A) \in SUBSET Text /\ R \in SUBSET Text
  BY DerivLanguage
<1>2. ASSUME NEW u \in Deriv(c, Then(A, B)) PROVE u \in Then(Deriv(c, A), B) \cup R
  <2>1. u \in Text /\ Ahead(c, u) \in Then(A, B)
    BY DEF Deriv
  <2>2. PICK a \in A, b \in B : Ahead(c, u) = Join(a, b)
    BY <2>1, ThenIff
  <2>3. CASE a = Empty
    <3>1. Ahead(c, u) = b
      BY <2>2, <2>3, JoinText
    <3>2. u \in Deriv(c, B)
      BY <2>1, <3>1 DEF Deriv
    <3> QED BY <2>3, <3>2
  <2>4. CASE a # Empty
    <3>1. PICK d \in AllChars, v \in Text : a = Ahead(d, v)
      BY <2>4, AheadOrEmpty
    <3>2. Join(a, b) = Ahead(d, Join(v, b)) /\ Join(v, b) \in Text
      BY <3>1, AheadJoin, JoinText
    <3>3. c = d /\ u = Join(v, b)
      <4>1. Ahead(c, u) = Ahead(d, Join(v, b))
        BY <2>2, <3>2
      <4> QED BY <2>1, <3>2, <4>1, AheadInjective
    <3>4. v \in Deriv(c, A)
      BY <3>1, <3>3 DEF Deriv
    <3> QED BY <1>1, <3>3, <3>4, ThenIff
  <2> QED BY <2>3, <2>4
<1>3. ASSUME NEW u \in Then(Deriv(c, A), B) PROVE u \in Deriv(c, Then(A, B))
  <2>1. PICK v \in Deriv(c, A), b \in B : u = Join(v, b)
    BY <1>1, ThenIff
  <2>2. v \in Text /\ Ahead(c, v) \in A /\ u \in Text
    BY <2>1, JoinText DEF Deriv
  <2>3. Ahead(c, u) = Join(Ahead(c, v), b)
    BY <2>1, <2>2, AheadJoin
  <2>4. Ahead(c, u) \in Then(A, B)
    BY <2>2, <2>3, ThenIff
  <2> QED BY <2>2, <2>4 DEF Deriv
<1>4. ASSUME NEW u \in R PROVE u \in Deriv(c, Then(A, B))
  <2>1. Empty \in A /\ u \in Text /\ Ahead(c, u) \in B
    BY DEF Deriv
  <2>2. Ahead(c, u) = Join(Empty, Ahead(c, u))
    BY <2>1, EmptyText, AheadText, JoinText
  <2>3. Ahead(c, u) \in Then(A, B)
    BY <2>1, <2>2, ThenIff
  <2> QED BY <2>1, <2>3 DEF Deriv
<1> HIDE DEF R
<1>5. Deriv(c, Then(A, B)) = Then(Deriv(c, A), B) \cup R
  BY <1>2, <1>3, <1>4
<1> QED BY <1>5 DEF R

\* The two cases of it.
LEMMA DerivFirst ==
  ASSUME NEW c \in AllChars, NEW A \in SUBSET Text, NEW B \in SUBSET Text, Empty \notin A
  PROVE  Deriv(c, Then(A, B)) = Then(Deriv(c, A), B)
BY DerivThen

LEMMA DerivEither ==
  ASSUME NEW c \in AllChars, NEW A \in SUBSET Text, NEW B \in SUBSET Text, Empty \in A
  PROVE  Deriv(c, Then(A, B)) = Then(Deriv(c, A), B) \cup Deriv(c, B)
BY DerivThen

LEMMA DerivOneOf ==
  ASSUME NEW c \in AllChars, NEW cs \in SUBSET AllChars
  PROVE  /\ OneOf(cs) \in SUBSET Text /\ Empty \notin OneOf(cs)
         /\ Deriv(c, OneOf(cs)) = IF c \in cs THEN {Empty} ELSE {}
<1>1. OneOf(cs) \in SUBSET Text /\ Empty \notin OneOf(cs)
  <2>1. \A d \in cs : << d >> \in Text /\ << d >> # Empty
    BY OneText
  <2> QED BY <2>1 DEF OneOf
<1>2. \A d \in AllChars : << d >> = Ahead(d, Empty)
  BY OneText, ConcatEmptySeq DEF Ahead, Text, Empty
<1>3. ASSUME NEW u \in Deriv(c, OneOf(cs)) PROVE c \in cs /\ u = Empty
  <2>1. PICK d \in cs : Ahead(c, u) = << d >>
    BY DEF Deriv, OneOf
  <2>2. Ahead(c, u) = Ahead(d, Empty) /\ u \in Text /\ d \in AllChars
    BY <1>2, <2>1 DEF Deriv
  <2>3. c = d /\ u = Empty
    BY <2>2, AheadInjective, EmptyText
  <2> QED BY <2>3
<1>4. ASSUME c \in cs PROVE Empty \in Deriv(c, OneOf(cs))
  <2>1. Ahead(c, Empty) \in OneOf(cs)
    BY <1>2, <1>4 DEF OneOf
  <2> QED BY <2>1, EmptyText DEF Deriv
<1>5. CASE c \in cs
  <2>1. Deriv(c, OneOf(cs)) = {Empty}
    BY <1>3, <1>4, <1>5
  <2> QED BY <1>1, <1>5, <2>1
<1>6. CASE c \notin cs
  <2>1. Deriv(c, OneOf(cs)) = {}
    BY <1>3, <1>6
  <2> QED BY <1>1, <1>6, <2>1
<1> QED BY <1>5, <1>6

LEMMA DerivOnly ==
  ASSUME NEW c \in AllChars, NEW cs \in SUBSET AllChars
  PROVE  /\ Only(cs) \in SUBSET Text /\ Empty \in Only(cs)
         /\ Deriv(c, Only(cs)) = IF c \in cs THEN Only(cs) ELSE {}
<1>1. Only(cs) \in SUBSET Text
  BY DEF Only
<1>2. Empty \in Only(cs)
  BY EmptyText DEF Only, Empty
<1>3. ASSUME NEW u \in Text PROVE Ahead(c, u) \in Only(cs) <=> c \in cs /\ u \in Only(cs)
  <2>1. /\ Ahead(c, u) \in Text /\ Len(Ahead(c, u)) = Len(u) + 1 /\ Len(u) \in Nat
        /\ Ahead(c, u)[1] = c
        /\ \A i \in 1 .. Len(u) : Ahead(c, u)[i + 1] = u[i]
    BY AheadText, LenText
  <2>2. ASSUME Ahead(c, u) \in Only(cs) PROVE c \in cs /\ u \in Only(cs)
    <3>1. \A i \in 1 .. Len(u) + 1 : Ahead(c, u)[i] \in cs
      BY <2>1, <2>2 DEF Only
    <3>2. c \in cs
      BY <2>1, <3>1
    <3>3. \A i \in 1 .. Len(u) : u[i] \in cs
      <4>1. \A i \in 1 .. Len(u) : i + 1 \in 1 .. Len(u) + 1
        BY <2>1
      <4> QED BY <2>1, <3>1, <4>1
    <3> QED BY <3>2, <3>3 DEF Only
  <2>3. ASSUME c \in cs, u \in Only(cs) PROVE Ahead(c, u) \in Only(cs)
    <3>1. ASSUME NEW i \in 1 .. Len(u) + 1 PROVE Ahead(c, u)[i] \in cs
      <4>1. CASE i = 1
        BY <2>1, <2>3, <4>1
      <4>2. CASE i # 1
        <5>1. i - 1 \in 1 .. Len(u) /\ (i - 1) + 1 = i
          BY <2>1, <4>2
        <5>2. Ahead(c, u)[(i - 1) + 1] = u[i - 1] /\ u[i - 1] \in cs
          BY <2>1, <2>3, <5>1 DEF Only
        <5> QED BY <5>1, <5>2
      <4> QED BY <4>1, <4>2
    <3> QED BY <2>1, <3>1 DEF Only
  <2> QED BY <2>2, <2>3
<1>4. Deriv(c, Only(cs)) = IF c \in cs THEN Only(cs) ELSE {}
  BY <1>1, <1>3 DEF Deriv
<1> QED BY <1>1, <1>2, <1>4

LEMMA DerivOptional ==
  ASSUME NEW c \in AllChars, NEW A \in SUBSET Text
  PROVE  /\ Optional(A) \in SUBSET Text /\ Empty \in Optional(A)
         /\ Deriv(c, Optional(A)) = Deriv(c, A)
<1>1. Optional(A) = {Empty} \cup A
  BY DEF Optional, Empty
<1>2. \A u \in Text : Ahead(c, u) # Empty
  BY AheadText
<1> QED BY <1>1, <1>2, EmptyText DEF Deriv

-----------------------------------------------------------------------------
(* Languages: repetition.  The function that Star is defined by exists:    *)
(* the smallest language closed under its rule is one.                     *)

StarRule(A, f, t) ==
  \/ t = << >>
  \/ \E i \in 1 .. Len(t) : SubSeq(t, 1, i) \in A /\ f[SubSeq(t, i + 1, Len(t))]

IsStar(A, f) == f = [t \in Text |-> StarRule(A, f, t)]

LEMMA StarRuleIff ==
  ASSUME NEW A \in SUBSET Text, NEW L \in SUBSET Text, NEW f,
         \A t \in Text : f[t] <=> t \in L, NEW t \in Text
  PROVE  StarRule(A, f, t) <=>
           t = Empty \/ \E a \in A, u \in L : a # Empty /\ t = Join(a, u)
<1>1. ASSUME StarRule(A, f, t), t # Empty
      PROVE  \E a \in A, u \in L : a # Empty /\ t = Join(a, u)
  <2>1. PICK i \in 1 .. Len(t) : SubSeq(t, 1, i) \in A /\ f[SubSeq(t, i + 1, Len(t))]
    BY <1>1 DEF StarRule, Empty
  <2>2. i \in 0 .. Len(t) /\ i # 0
    BY <2>1, LenText
  <2>3. /\ SubSeq(t, 1, i) \in Text /\ SubSeq(t, i + 1, Len(t)) \in Text
        /\ Len(SubSeq(t, 1, i)) = i
        /\ t = Join(SubSeq(t, 1, i), SubSeq(t, i + 1, Len(t)))
    BY <2>2, Cut
  <2>4. SubSeq(t, i + 1, Len(t)) \in L
    BY <2>1, <2>3
  <2>5. SubSeq(t, 1, i) # Empty
    BY <2>2, <2>3, LenText
  <2> QED BY <2>1, <2>3, <2>4, <2>5, Zenon
<1>2. ASSUME NEW a \in A, NEW u \in L, a # Empty, t = Join(a, u)
      PROVE  StarRule(A, f, t)
  <2>1. a \in Text /\ u \in Text
    OBVIOUS
  <2>2. PICK i : i = Len(a)
    OBVIOUS
  <2>3. i \in 0 .. Len(t) /\ SubSeq(t, 1, i) = a /\ SubSeq(t, i + 1, Len(t)) = u
    BY <1>2, <2>1, <2>2, CutJoin
  <2>4. i \in 1 .. Len(t)
    BY <1>2, <2>1, <2>2, <2>3, LenText
  <2>5. SubSeq(t, 1, i) \in A /\ f[SubSeq(t, i + 1, Len(t))]
    BY <2>1, <2>3, Zenon
  <2> QED BY <2>4, <2>5, Zenon DEF StarRule
<1>3. t = Empty => StarRule(A, f, t)
  BY DEF StarRule, Empty
<1> QED BY <1>1, <1>2, <1>3

\* The languages that hold the empty text and with a text every longer one.
Repeats(A, L) ==
  /\ L \in SUBSET Text
  /\ Empty \in L
  /\ \A a \in A, u \in L : Join(a, u) \in L

LEMMA StarExists ==
  ASSUME NEW A \in SUBSET Text
  PROVE  \E f : IsStar(A, f)
<1> DEFINE K == {t \in Text : \A L : Repeats(A, L) => t \in L}
           M == {t \in Text : t = Empty \/ \E a \in A, u \in K : a # Empty /\ t = Join(a, u)}
           f == [t \in Text |-> t \in K]
<1>1. K \in SUBSET Text /\ M \in SUBSET Text
  OBVIOUS
<1>2. Repeats(A, K)
  <2>1. Empty \in K
    BY EmptyText DEF Repeats
  <2>2. ASSUME NEW a \in A, NEW u \in K PROVE Join(a, u) \in K
    <3>1. Join(a, u) \in Text
      BY JoinText
    <3>2. ASSUME NEW L, Repeats(A, L) PROVE Join(a, u) \in L
      <4>1. u \in L
        BY <3>2
      <4> QED BY <3>2, <4>1 DEF Repeats
    <3> QED BY <3>1, <3>2
  <2> QED BY <1>1, <2>1, <2>2 DEF Repeats
<1>3. M \subseteq K
  <2> HIDE DEF K
  <2> QED BY <1>2 DEF Repeats
<1>4. Repeats(A, M)
  <2>1. Empty \in M
    BY EmptyText
  <2>2. ASSUME NEW a \in A, NEW u \in M PROVE Join(a, u) \in M
    <3>1. u \in K /\ u \in Text
      BY <1>1, <1>3
    <3>2. CASE a = Empty
      <4>1. Join(a, u) = u
        BY <3>1, <3>2, JoinText
      <4> QED BY <4>1
    <3>3. CASE a # Empty
      <4>1. Join(a, u) \in Text
        BY <3>1, JoinText
      <4> HIDE DEF K
      <4> QED BY <3>1, <3>3, <4>1
    <3> QED BY <3>2, <3>3
  <2> HIDE DEF M
  <2> QED BY <1>1, <2>1, <2>2 DEF Repeats
<1>5. K \subseteq M
  <2> HIDE DEF M
  <2> QED BY <1>4
<1>6. \A t \in Text : t \in K <=> t = Empty \/ \E a \in A, u \in K : a # Empty /\ t = Join(a, u)
  <2> HIDE DEF K
  <2> QED BY <1>3, <1>5
<1>7. \A t \in Text : f[t] <=> t \in K
  OBVIOUS
<1>8. \A t \in Text : StarRule(A, f, t) <=> t \in K
  <2> HIDE DEF K, M, f
  <2>1. \A t \in Text : StarRule(A, f, t) <=>
          t = Empty \/ \E a \in A, u \in K : a # Empty /\ t = Join(a, u)
    BY <1>1, <1>7, StarRuleIff
  <2> QED BY <1>6, <2>1
<1>9. f = [t \in Text |-> StarRule(A, f, t)]
  <2>1. [t \in Text |-> t \in K] = [t \in Text |-> StarRule(A, f, t)]
    <3>1. ASSUME NEW t \in Text PROVE (t \in K) = StarRule(A, f, t)
      <4>1. StarRule(A, f, t) \in BOOLEAN
        BY Zenon DEF StarRule
      <4>2. (t \in K) \in BOOLEAN
        OBVIOUS
      <4> HIDE DEF K, f
      <4> QED BY <1>8, <4>1, <4>2
    <3> HIDE DEF K, f
    <3> QED BY <3>1
  <2> QED BY <2>1
<1> QED BY <1>9 DEF IsStar

\* What Star stands for, whatever function the definition chooses.
LEMMA StarIff ==
  ASSUME NEW A \in SUBSET Text
  PROVE  /\ Star(A) \in SUBSET Text /\ Empty \in Star(A)
         /\ \A t : t \in Star(A) <=>
              t = Empty \/ \E a \in A, u \in Star(A) : a # Empty /\ t = Join(a, u)
<1> DEFINE f == CHOOSE g : IsStar(A, g)
<1>1. IsStar(A, f)
  BY StarExists
<1>2. Star(A) = {t \in Text : f[t]}
  BY DEF Star, IsStar, StarRule
<1> HIDE DEF f
<1>3. \A t \in Text : f[t] = StarRule(A, f, t)
  BY <1>1 DEF IsStar
<1>4. Star(A) \in SUBSET Text /\ \A t \in Text : f[t] <=> t \in Star(A)
  BY <1>2
<1>5. \A t \in Text : StarRule(A, f, t) <=>
        t = Empty \/ \E a \in A, u \in Star(A) : a # Empty /\ t = Join(a, u)
  BY <1>4, StarRuleIff
<1>6. \A t \in Text : t \in Star(A) <=>
        t = Empty \/ \E a \in A, u \in Star(A) : a # Empty /\ t = Join(a, u)
  BY <1>3, <1>4, <1>5
<1>7. \A a \in A, u \in Star(A) : Join(a, u) \in Text
  BY <1>4, JoinText
<1> QED BY <1>4, <1>6, <1>7, EmptyText

LEMMA DerivStar ==
  ASSUME NEW c \in AllChars, NEW A \in SUBSET Text
  PROVE  Deriv(c, Star(A)) = Then(Deriv(c, A), Star(A))
<1>1. Star(A) \in SUBSET Text /\ Deriv(c, A) \in SUBSET Text
  BY StarIff, DerivLanguage
<1>2. ASSUME NEW u \in Deriv(c, Star(A)) PROVE u \in Then(Deriv(c, A), Star(A))
  <2>1. u \in Text /\ Ahead(c, u) \in Star(A) /\ Ahead(c, u) # Empty
    BY AheadText DEF Deriv
  <2>2. PICK a \in A, v \in Star(A) : a # Empty /\ Ahead(c, u) = Join(a, v)
    BY <2>1, StarIff
  <2>3. PICK d \in AllChars, w \in Text : a = Ahead(d, w)
    BY <2>2, AheadOrEmpty
  <2>4. Ahead(c, u) = Ahead(d, Join(w, v)) /\ Join(w, v) \in Text
    BY <1>1, <2>2, <2>3, AheadJoin, JoinText
  <2>5. c = d /\ u = Join(w, v)
    BY <2>1, <2>4, AheadInjective
  <2>6. w \in Deriv(c, A)
    BY <2>3, <2>5 DEF Deriv
  <2> QED BY <1>1, <2>5, <2>6, ThenIff
<1>3. ASSUME NEW u \in Then(Deriv(c, A), Star(A)) PROVE u \in Deriv(c, Star(A))
  <2>1. PICK w \in Deriv(c, A), v \in Star(A) : u = Join(w, v)
    BY <1>1, ThenIff
  <2>2. w \in Text /\ v \in Text /\ Ahead(c, w) \in A /\ Ahead(c, w) # Empty
    BY <1>1, AheadText DEF Deriv
  <2>3. Ahead(c, u) = Join(Ahead(c, w), v) /\ u \in Text
    BY <2>1, <2>2, AheadJoin, JoinText
  <2>4. Ahead(c, u) \in Star(A)
    BY <2>2, <2>3, StarIff
  <2> QED BY <2>3, <2>4 DEF Deriv
<1> QED BY <1>2, <1>3

-----------------------------------------------------------------------------
(* Languages: brackets.                                                    *)

LEMMA EnclosedIff ==
  ASSUME NEW open \in AllChars, NEW close \in AllChars, NEW A \in SUBSET Text, NEW t
  PROVE  t \in Enclosed(open, A, close) <=>
           \E a \in A : t = Ahead(open, Join(a, << close >>))
<1>1. ASSUME t \in Enclosed(open, A, close)
      PROVE  \E a \in A : t = Ahead(open, Join(a, << close >>))
  <2>1. /\ t \in Seq(AllChars) /\ Len(t) \in Nat /\ Len(t) >= 2
        /\ t[1] = open /\ t[Len(t)] = close
    BY <1>1 DEF Enclosed, Text
  <2> DEFINE a == SubSeq(t, 2, Len(t) - 1)
             s == << open >> \o (a \o << close >>)
  <2>2. a \in A /\ a \in Seq(AllChars)
    BY <1>1 DEF Enclosed, Text
  <2>3. Len(a) = Len(t) - 2 /\ \A i \in 1 .. Len(t) - 2 : a[i] = t[i + 1]
    <3>1. PICK n \in Nat : n = Len(t)
      BY <2>1
    <3>2. a = SubSeq(t, 2, n - 1) /\ n >= 2
      BY <2>1, <3>1
    <3>3. \A i \in 2 .. n - 1 : t[i] \in AllChars
      BY <2>1, <3>1
    <3>4. Len(a) = n - 2
      BY <2>1, <3>1, <3>2
    <3>5. \A i \in 1 .. (n - 1) - 2 + 1 : a[i] = t[2 + i - 1]
      BY <3>1, <3>2, <3>3, SubSeqProperties
    <3> QED BY <3>1, <3>4, <3>5
  <2>4. s = t
    <3> HIDE DEF a
    <3>1. s \in Seq(AllChars) /\ Len(s) = Len(t)
      BY <2>1, <2>2, <2>3
    <3>2. ASSUME NEW i \in 1 .. Len(s) PROVE s[i] = t[i]
      <4>1. CASE i = 1
        BY <2>1, <2>2, <2>3, <4>1
      <4>2. CASE i = Len(t)
        <5>1. PICK b \in Seq(AllChars) : b = a \o << close >>
          <6>1. << close >> \in Seq(AllChars)
            BY OneText DEF Text
          <6> QED BY <2>2, <6>1, ConcatProperties
        <5>2. Len(b) = Len(t) - 1 /\ b[Len(t) - 1] = close
          BY <2>1, <2>2, <2>3, <5>1
        <5>3. s = << open >> \o b /\ i = (Len(t) - 1) + 1
          BY <2>1, <4>2, <5>1
        <5>4. s[i] = b[Len(t) - 1]
          BY <2>1, <5>2, <5>3
        <5> QED BY <2>1, <4>2, <5>2, <5>4
      <4>3. CASE i # 1 /\ i # Len(t)
        <5>1. i - 1 \in 1 .. Len(t) - 2 /\ (i - 1) + 1 = i
          BY <2>1, <3>1, <4>3
        <5>2. s[i] = a[i - 1]
          BY <2>1, <2>2, <2>3, <5>1
        <5> QED BY <2>3, <5>1, <5>2
      <4> QED BY <4>1, <4>2, <4>3
    <3> HIDE DEF s
    <3> QED BY <2>1, <3>1, <3>2, SeqEqual
  <2>5. t = Ahead(open, Join(a, << close >>))
    BY <2>4 DEF Ahead, Join
  <2> QED BY <2>2, <2>5
<1>2. ASSUME NEW a \in A, t = Ahead(open, Join(a, << close >>))
      PROVE  t \in Enclosed(open, A, close)
  <2>1. a \in Seq(AllChars) /\ Len(a) \in Nat
    BY DEF Text
  <2>2. /\ t \in Seq(AllChars) /\ Len(t) = Len(a) + 2
        /\ t[1] = open /\ t[Len(a) + 2] = close
        /\ \A i \in 1 .. Len(a) : t[i + 1] = a[i]
    BY <1>2, <2>1 DEF Ahead, Join
  <2> DEFINE s == SubSeq(t, 2, Len(t) - 1)
  <2>3. s = a
    <3>1. s \in Seq(AllChars) /\ Len(s) = Len(a)
      BY <2>1, <2>2
    <3>2. \A i \in 1 .. Len(s) : s[i] = a[i]
      BY <2>1, <2>2
    <3> HIDE DEF s
    <3> QED BY <2>1, <3>1, <3>2, SeqEqual
  <2>4. Len(t) >= 2 /\ t[Len(t)] = close
    BY <2>1, <2>2
  <2> QED BY <2>2, <2>3, <2>4 DEF Enclosed, Text
<1> QED BY <1>1, <1>2

LEMMA DerivEnclosed ==
  ASSUME NEW c \in AllChars, NEW open \in AllChars, NEW close \in AllChars,
         NEW A \in SUBSET Text
  PROVE  /\ Enclosed(open, A, close) \in SUBSET Text
         /\ Empty \notin Enclosed(open, A, close)
         /\ Deriv(c, Enclosed(open, A, close)) =
              IF c = open THEN Then(A, OneOf({close})) ELSE {}
<1>1. Enclosed(open, A, close) \in SUBSET Text
  BY DEF Enclosed
<1>2. Empty \notin Enclosed(open, A, close)
  <2>1. \A a \in A : Ahead(open, Join(a, << close >>)) # Empty
    BY OneText, JoinText, AheadText
  <2> QED BY <2>1, EnclosedIff
<1>3. OneOf({close}) \in SUBSET Text /\ \A b : b \in OneOf({close}) <=> b = << close >>
  BY OneText DEF OneOf
<1>4. ASSUME NEW u \in Text
      PROVE  Ahead(c, u) \in Enclosed(open, A, close)
               <=> c = open /\ u \in Then(A, OneOf({close}))
  <2>1. Ahead(c, u) \in Enclosed(open, A, close)
          <=> \E a \in A : Ahead(c, u) = Ahead(open, Join(a, << close >>))
    BY EnclosedIff
  <2>2. \A a \in A : Join(a, << close >>) \in Text
    BY OneText, JoinText
  <2>3. \A a \in A : Ahead(c, u) = Ahead(open, Join(a, << close >>))
                       <=> c = open /\ u = Join(a, << close >>)
    BY <2>2, AheadInjective
  <2>4. u \in Then(A, OneOf({close})) <=> \E a \in A : u = Join(a, << close >>)
    <3>1. PICK B \in SUBSET Text : B = OneOf({close})
      BY <1>3
    <3>2. u \in Then(A, B) <=> \E a \in A, b \in B : u = Join(a, b)
      BY ThenIff
    <3> QED BY <1>3, <3>1, <3>2
  <2> QED BY <2>1, <2>3, <2>4
<1>5. Then(A, OneOf({close})) \in SUBSET Text
  BY ThenLanguage
<1>6. Deriv(c, Enclosed(open, A, close)) =
        IF c = open THEN Then(A, OneOf({close})) ELSE {}
  BY <1>4, <1>5 DEF Deriv
<1> QED BY <1>1, <1>2, <1>6

-----------------------------------------------------------------------------
(* Numbers: what may follow each class of number.                          *)

Ends == Optional(ExponentPart)
ExpTail == Then(Optional(OneOf(Signs)), SomeDigits)
FracTail == Then(Only(Digits), Ends)
ZeroTail == Then(Optional(Point), Ends)
IntTail == Then(Only(Digits), ZeroTail)
PointTail == Then(SomeDigits, Ends)
MinusTail == Then(StrtodMantissa, Ends)

\* What completes a number whose text so far is of a class, in consume_number_.
NumberTail(class) ==
  CASE class = "minus" -> MinusTail
    [] class \in {"zero", "int"} -> IntTail
    [] class = "point" -> PointTail
    [] class = "frac" -> FracTail
    [] class = "exp" -> ExpTail
    [] class = "expsign" -> SomeDigits
    [] class = "expdigits" -> Only(Digits)
    [] OTHER -> {}

LEMMA NumberCharacters ==
  /\ Digits \subseteq AllChars /\ Exponent \subseteq AllChars /\ Signs \subseteq AllChars
  /\ {"."} \subseteq AllChars /\ {"-"} \subseteq AllChars
  /\ NumberChars = Digits \cup {"."} \cup Exponent \cup Signs
  /\ \A c \in Digits : c # "." /\ c \notin Exponent /\ c \notin Signs
  /\ \A c \in Exponent : c # "." /\ c \notin Signs
  /\ "." \notin Signs
BY DEF Digits, Digits19, Exponent, Signs, AllChars, NumberChars

LEMMA DerivDigits ==
  ASSUME NEW c \in AllChars
  PROVE  /\ Only(Digits) \in SUBSET Text /\ Empty \in Only(Digits)
         /\ Deriv(c, Only(Digits)) = IF c \in Digits THEN Only(Digits) ELSE {}
         /\ SomeDigits \in SUBSET Text /\ Empty \notin SomeDigits
         /\ Deriv(c, SomeDigits) = IF c \in Digits THEN Only(Digits) ELSE {}
<1>1. /\ Only(Digits) \in SUBSET Text /\ Empty \in Only(Digits)
      /\ Deriv(c, Only(Digits)) = IF c \in Digits THEN Only(Digits) ELSE {}
  BY NumberCharacters, DerivOnly
<1>2. SomeDigits = Only(Digits) \ {Empty}
  BY DEF SomeDigits, Empty
<1>3. \A u \in Text : Ahead(c, u) # Empty
  BY AheadText
<1>4. Deriv(c, SomeDigits) = Deriv(c, Only(Digits))
  BY <1>2, <1>3 DEF Deriv
<1> QED BY <1>1, <1>2, <1>4

LEMMA DerivPoint ==
  ASSUME NEW c \in AllChars
  PROVE  /\ Optional(Point) \in SUBSET Text /\ Empty \in Optional(Point)
         /\ Deriv(c, Optional(Point)) = IF c = "." THEN Only(Digits) ELSE {}
<1>1. /\ OneOf({"."}) \in SUBSET Text /\ Empty \notin OneOf({"."})
      /\ Deriv(c, OneOf({"."})) = IF c \in {"."} THEN {Empty} ELSE {}
  BY NumberCharacters, DerivOneOf
<1>2. Only(Digits) \in SUBSET Text
  BY DerivDigits
<1>3. Deriv(c, Point) = Then(Deriv(c, OneOf({"."})), Only(Digits))
  BY <1>1, <1>2, DerivFirst DEF Point
<1>4. Deriv(c, Point) = IF c = "." THEN Only(Digits) ELSE {}
  BY <1>1, <1>2, <1>3, ThenEmpty
<1>5. Point \in SUBSET Text
  BY ThenLanguage DEF Point
<1> QED BY <1>4, <1>5, DerivOptional

LEMMA DerivExpTail ==
  ASSUME NEW c \in AllChars
  PROVE  /\ ExpTail \in SUBSET Text /\ Empty \notin ExpTail
         /\ Deriv(c, ExpTail) = IF c \in Signs THEN SomeDigits
                                ELSE IF c \in Digits THEN Only(Digits) ELSE {}
<1>1. /\ OneOf(Signs) \in SUBSET Text
      /\ Deriv(c, OneOf(Signs)) = IF c \in Signs THEN {Empty} ELSE {}
  BY NumberCharacters, DerivOneOf
<1>2. /\ Optional(OneOf(Signs)) \in SUBSET Text /\ Empty \in Optional(OneOf(Signs))
      /\ Deriv(c, Optional(OneOf(Signs))) = Deriv(c, OneOf(Signs))
  BY <1>1, DerivOptional
<1>3. Deriv(c, ExpTail) = Then(Deriv(c, OneOf(Signs)), SomeDigits) \cup Deriv(c, SomeDigits)
  BY <1>2, DerivDigits, DerivEither DEF ExpTail
<1>4. ExpTail \in SUBSET Text /\ Empty \notin ExpTail
  BY <1>2, DerivDigits, EmptyInThen, ThenLanguage DEF ExpTail
<1>5. Then({Empty}, SomeDigits) = SomeDigits /\ Then({}, SomeDigits) = {}
  BY DerivDigits, ThenEmpty
<1> QED BY <1>1, <1>3, <1>4, <1>5, DerivDigits, NumberCharacters

LEMMA DerivEnds ==
  ASSUME NEW c \in AllChars
  PROVE  /\ Ends \in SUBSET Text /\ Empty \in Ends
         /\ Deriv(c, Ends) = IF c \in Exponent THEN ExpTail ELSE {}
<1>1. /\ OneOf(Exponent) \in SUBSET Text /\ Empty \notin OneOf(Exponent)
      /\ Deriv(c, OneOf(Exponent)) = IF c \in Exponent THEN {Empty} ELSE {}
  BY NumberCharacters, DerivOneOf
<1>2. ExponentPart = Then(OneOf(Exponent), ExpTail)
  BY DEF ExponentPart, ExpTail
<1>3. Deriv(c, ExponentPart) = Then(Deriv(c, OneOf(Exponent)), ExpTail)
  BY <1>1, <1>2, DerivExpTail, DerivFirst
<1>4. Then({Empty}, ExpTail) = ExpTail /\ Then({}, ExpTail) = {}
  BY DerivExpTail, ThenEmpty
<1>5. Deriv(c, ExponentPart) = IF c \in Exponent THEN ExpTail ELSE {}
  BY <1>1, <1>3, <1>4
<1>6. ExponentPart \in SUBSET Text
  BY <1>2, ThenLanguage
<1> QED BY <1>5, <1>6, DerivOptional DEF Ends

LEMMA DerivFracTail ==
  ASSUME NEW c \in AllChars
  PROVE  /\ FracTail \in SUBSET Text /\ Empty \in FracTail
         /\ Deriv(c, FracTail) = IF c \in Digits THEN FracTail
                                 ELSE IF c \in Exponent THEN ExpTail ELSE {}
<1>1. Deriv(c, FracTail) = Then(Deriv(c, Only(Digits)), Ends) \cup Deriv(c, Ends)
  BY DerivDigits, DerivEnds, DerivEither DEF FracTail
<1>2. Then({}, Ends) = {}
  BY DerivEnds, ThenEmpty
<1>3. FracTail \in SUBSET Text /\ Empty \in FracTail
  BY DerivDigits, DerivEnds, EmptyInThen, ThenLanguage DEF FracTail
<1>4. CASE c \in Digits
  BY <1>1, <1>3, <1>4, DerivDigits, DerivEnds, NumberCharacters DEF FracTail
<1>5. CASE c \notin Digits
  BY <1>1, <1>2, <1>3, <1>5, DerivDigits, DerivEnds
<1> QED BY <1>4, <1>5

LEMMA DerivZeroTail ==
  ASSUME NEW c \in AllChars
  PROVE  /\ ZeroTail \in SUBSET Text /\ Empty \in ZeroTail
         /\ Deriv(c, ZeroTail) = IF c = "." THEN FracTail
                                 ELSE IF c \in Exponent THEN ExpTail ELSE {}
<1>1. Deriv(c, ZeroTail) = Then(Deriv(c, Optional(Point)), Ends) \cup Deriv(c, Ends)
  BY DerivPoint, DerivEnds, DerivEither DEF ZeroTail
<1>2. Then({}, Ends) = {}
  BY DerivEnds, ThenEmpty
<1>3. ZeroTail \in SUBSET Text /\ Empty \in ZeroTail
  BY DerivPoint, DerivEnds, EmptyInThen, ThenLanguage DEF ZeroTail
<1>4. CASE c = "."
  BY <1>1, <1>3, <1>4, DerivPoint, DerivEnds, NumberCharacters DEF FracTail
<1>5. CASE c # "."
  BY <1>1, <1>2, <1>3, <1>5, DerivPoint, DerivEnds
<1> QED BY <1>4, <1>5

LEMMA DerivIntTail ==
  ASSUME NEW c \in AllChars
  PROVE  /\ IntTail \in SUBSET Text /\ Empty \in IntTail
         /\ Deriv(c, IntTail) = IF c \in Digits THEN IntTail
                                ELSE IF c = "." THEN FracTail
                                ELSE IF c \in Exponent THEN ExpTail ELSE {}
<1>1. Deriv(c, IntTail) = Then(Deriv(c, Only(Digits)), ZeroTail) \cup Deriv(c, ZeroTail)
  BY DerivDigits, DerivZeroTail, DerivEither DEF IntTail
<1>2. Then({}, ZeroTail) = {}
  BY DerivZeroTail, ThenEmpty
<1>3. IntTail \in SUBSET Text /\ Empty \in IntTail
  BY DerivDigits, DerivZeroTail, EmptyInThen, ThenLanguage DEF IntTail
<1>4. CASE c \in Digits
  BY <1>1, <1>3, <1>4, DerivDigits, DerivZeroTail, NumberCharacters DEF IntTail
<1>5. CASE c \notin Digits
  BY <1>1, <1>2, <1>3, <1>5, DerivDigits, DerivZeroTail
<1> QED BY <1>4, <1>5

LEMMA DerivPointTail ==
  ASSUME NEW c \in AllChars
  PROVE  /\ PointTail \in SUBSET Text /\ Empty \notin PointTail
         /\ Deriv(c, PointTail) = IF c \in Digits THEN FracTail ELSE {}
<1>1. Deriv(c, PointTail) = Then(Deriv(c, SomeDigits), Ends)
  BY DerivDigits, DerivEnds, DerivFirst DEF PointTail
<1>2. Then({}, Ends) = {}
  BY DerivEnds, ThenEmpty
<1>3. PointTail \in SUBSET Text /\ Empty \notin PointTail
  BY DerivDigits, DerivEnds, EmptyInThen, ThenLanguage DEF PointTail
<1> QED BY <1>1, <1>2, <1>3, DerivDigits DEF FracTail

LEMMA DerivMantissa ==
  ASSUME NEW c \in AllChars
  PROVE  /\ StrtodMantissa \in SUBSET Text /\ Empty \notin StrtodMantissa
         /\ Deriv(c, StrtodMantissa) = IF c \in Digits THEN Then(Only(Digits), Optional(Point))
                                       ELSE IF c = "." THEN SomeDigits ELSE {}
<1> DEFINE P == Then(SomeDigits, Optional(Point))
           Q == Then(OneOf({"."}), SomeDigits)
<1>1. /\ OneOf({"."}) \in SUBSET Text /\ Empty \notin OneOf({"."})
      /\ Deriv(c, OneOf({"."})) = IF c \in {"."} THEN {Empty} ELSE {}
  BY NumberCharacters, DerivOneOf
<1>2. Deriv(c, P) = Then(Deriv(c, SomeDigits), Optional(Point))
  BY DerivDigits, DerivPoint, DerivFirst
<1>3. Deriv(c, Q) = Then(Deriv(c, OneOf({"."})), SomeDigits)
  BY <1>1, DerivDigits, DerivFirst
<1>4. /\ P \in SUBSET Text /\ Q \in SUBSET Text /\ Empty \notin P /\ Empty \notin Q
  BY <1>1, DerivDigits, DerivPoint, EmptyInThen, ThenLanguage
<1>5. /\ Then({}, Optional(Point)) = {} /\ Then({}, SomeDigits) = {}
      /\ Then({Empty}, SomeDigits) = SomeDigits
  BY DerivDigits, DerivPoint, ThenEmpty
<1>6. StrtodMantissa = P \cup Q /\ Deriv(c, StrtodMantissa) = Deriv(c, P) \cup Deriv(c, Q)
  BY DerivUnion DEF StrtodMantissa
<1> HIDE DEF P, Q
<1>7. CASE c \in Digits
  BY <1>1, <1>2, <1>3, <1>4, <1>5, <1>6, <1>7, DerivDigits, NumberCharacters
<1>8. CASE c \notin Digits
  BY <1>1, <1>2, <1>3, <1>4, <1>5, <1>6, <1>8, DerivDigits
<1> QED BY <1>7, <1>8

LEMMA DerivMinusTail ==
  ASSUME NEW c \in AllChars
  PROVE  /\ MinusTail \in SUBSET Text /\ Empty \notin MinusTail
         /\ Deriv(c, MinusTail) = IF c \in Digits THEN IntTail
                                  ELSE IF c = "." THEN PointTail ELSE {}
<1>1. Deriv(c, MinusTail) = Then(Deriv(c, StrtodMantissa), Ends)
  BY DerivMantissa, DerivEnds, DerivFirst DEF MinusTail
<1>2. Then({}, Ends) = {}
  BY DerivEnds, ThenEmpty
<1>3. MinusTail \in SUBSET Text /\ Empty \notin MinusTail
  BY DerivMantissa, DerivEnds, EmptyInThen, ThenLanguage DEF MinusTail
<1>4. Then(Then(Only(Digits), Optional(Point)), Ends) = IntTail
  BY DerivDigits, DerivPoint, DerivEnds, ThenAssociative DEF IntTail, ZeroTail
<1> QED BY <1>1, <1>2, <1>3, <1>4, DerivMantissa DEF PointTail


LEMMA ArcTaken ==
  ASSUME NEW class \in Classes, NEW c \in NumberChars
  PROVE  /\ c = "0" => Extended(class, c) = Arcs[class].zero
         /\ c \in Digits19 => Extended(class, c) = Arcs[class].digit
         /\ c = "." => Extended(class, c) = Arcs[class].point
         /\ c \in Exponent => Extended(class, c) = Arcs[class].exp
         /\ c \in Signs => Extended(class, c) = Arcs[class].sign
BY DEF Extended, NumberChars, Digits19, Exponent, Signs

LEMMA TailOfClass ==
  /\ NumberTail("minus") = MinusTail
  /\ NumberTail("zero") = IntTail /\ NumberTail("int") = IntTail
  /\ NumberTail("point") = PointTail /\ NumberTail("frac") = FracTail
  /\ NumberTail("exp") = ExpTail /\ NumberTail("expsign") = SomeDigits
  /\ NumberTail("expdigits") = Only(Digits) /\ NumberTail("bad") = {}
BY DEF NumberTail

\* A character takes the tail of a class to the tail of the next class.
LEMMA DerivNumber ==
  ASSUME NEW c \in AllChars, NEW class \in Classes
  PROVE  /\ NumberTail(class) \in SUBSET Text
         /\ Empty \in NumberTail(class) <=> class \in StrtodReadsAll
         /\ Deriv(c, NumberTail(class)) =
              IF c \in NumberChars THEN NumberTail(Extended(class, c)) ELSE {}
<1> DEFINE After(k) == IF c \in NumberChars THEN NumberTail(Extended(k, c)) ELSE {}
<1>1. class \in {"minus", "zero", "int", "point", "frac", "exp", "expsign", "expdigits", "bad"}
  BY DEF Classes, Arcs
<1>2. c \in Digits <=> c = "0" \/ c \in Digits19
  BY DEF Digits
<1>3. c \notin NumberChars => c \notin Digits /\ c # "." /\ c \notin Exponent /\ c \notin Signs
  BY NumberCharacters
<1>4. c \in NumberChars => c \in Digits \/ c = "." \/ c \in Exponent \/ c \in Signs
  BY NumberCharacters
<1> HIDE DEF After
<1>5. CASE class = "minus"
  <2>1. c \in NumberChars =>
          /\ c = "0" => Extended("minus", c) = "zero"
          /\ c \in Digits19 => Extended("minus", c) = "int"
          /\ c = "." => Extended("minus", c) = "point"
          /\ c \in Exponent => Extended("minus", c) = "bad"
          /\ c \in Signs => Extended("minus", c) = "bad"
    BY <1>5, ArcTaken DEF Arcs, Arc
  <2>2. Deriv(c, MinusTail) = After("minus")
    BY <1>2, <1>3, <1>4, <2>1, DerivMinusTail, TailOfClass, NumberCharacters DEF After
  <2> QED BY <1>5, <2>2, DerivMinusTail, TailOfClass DEF StrtodReadsAll, After
<1>6. CASE class = "zero"
  <2>1. c \in NumberChars =>
          /\ c = "0" => Extended("zero", c) = "int"
          /\ c \in Digits19 => Extended("zero", c) = "int"
          /\ c = "." => Extended("zero", c) = "frac"
          /\ c \in Exponent => Extended("zero", c) = "exp"
          /\ c \in Signs => Extended("zero", c) = "bad"
    BY <1>6, ArcTaken DEF Arcs, Arc
  <2>2. Deriv(c, IntTail) = After("zero")
    BY <1>2, <1>3, <1>4, <2>1, DerivIntTail, TailOfClass, NumberCharacters DEF After
  <2> QED BY <1>6, <2>2, DerivIntTail, TailOfClass DEF StrtodReadsAll, After
<1>7. CASE class = "int"
  <2>1. c \in NumberChars =>
          /\ c = "0" => Extended("int", c) = "int"
          /\ c \in Digits19 => Extended("int", c) = "int"
          /\ c = "." => Extended("int", c) = "frac"
          /\ c \in Exponent => Extended("int", c) = "exp"
          /\ c \in Signs => Extended("int", c) = "bad"
    BY <1>7, ArcTaken DEF Arcs, Arc
  <2>2. Deriv(c, IntTail) = After("int")
    BY <1>2, <1>3, <1>4, <2>1, DerivIntTail, TailOfClass, NumberCharacters DEF After
  <2> QED BY <1>7, <2>2, DerivIntTail, TailOfClass DEF StrtodReadsAll, After
<1>8. CASE class = "point"
  <2>1. c \in NumberChars =>
          /\ c = "0" => Extended("point", c) = "frac"
          /\ c \in Digits19 => Extended("point", c) = "frac"
          /\ c = "." => Extended("point", c) = "bad"
          /\ c \in Exponent => Extended("point", c) = "bad"
          /\ c \in Signs => Extended("point", c) = "bad"
    BY <1>8, ArcTaken DEF Arcs, Arc
  <2>2. Deriv(c, PointTail) = After("point")
    BY <1>2, <1>3, <1>4, <2>1, DerivPointTail, TailOfClass, NumberCharacters DEF After
  <2> QED BY <1>8, <2>2, DerivPointTail, TailOfClass DEF StrtodReadsAll, After
<1>9. CASE class = "frac"
  <2>1. c \in NumberChars =>
          /\ c = "0" => Extended("frac", c) = "frac"
          /\ c \in Digits19 => Extended("frac", c) = "frac"
          /\ c = "." => Extended("frac", c) = "bad"
          /\ c \in Exponent => Extended("frac", c) = "exp"
          /\ c \in Signs => Extended("frac", c) = "bad"
    BY <1>9, ArcTaken DEF Arcs, Arc
  <2>2. Deriv(c, FracTail) = After("frac")
    BY <1>2, <1>3, <1>4, <2>1, DerivFracTail, TailOfClass, NumberCharacters DEF After
  <2> QED BY <1>9, <2>2, DerivFracTail, TailOfClass DEF StrtodReadsAll, After
<1>10. CASE class = "exp"
  <2>1. c \in NumberChars =>
          /\ c = "0" => Extended("exp", c) = "expdigits"
          /\ c \in Digits19 => Extended("exp", c) = "expdigits"
          /\ c = "." => Extended("exp", c) = "bad"
          /\ c \in Exponent => Extended("exp", c) = "bad"
          /\ c \in Signs => Extended("exp", c) = "expsign"
    BY <1>10, ArcTaken DEF Arcs, Arc
  <2>2. Deriv(c, ExpTail) = After("exp")
    BY <1>2, <1>3, <1>4, <2>1, DerivExpTail, TailOfClass, NumberCharacters DEF After
  <2> QED BY <1>10, <2>2, DerivExpTail, TailOfClass DEF StrtodReadsAll, After
<1>11. CASE class = "expsign"
  <2>1. c \in NumberChars =>
          /\ c = "0" => Extended("expsign", c) = "expdigits"
          /\ c \in Digits19 => Extended("expsign", c) = "expdigits"
          /\ c = "." => Extended("expsign", c) = "bad"
          /\ c \in Exponent => Extended("expsign", c) = "bad"
          /\ c \in Signs => Extended("expsign", c) = "bad"
    BY <1>11, ArcTaken DEF Arcs, Arc
  <2>2. Deriv(c, SomeDigits) = After("expsign")
    BY <1>2, <1>3, <1>4, <2>1, DerivDigits, TailOfClass, NumberCharacters DEF After
  <2> QED BY <1>11, <2>2, DerivDigits, TailOfClass DEF StrtodReadsAll, After
<1>12. CASE class = "expdigits"
  <2>1. c \in NumberChars =>
          /\ c = "0" => Extended("expdigits", c) = "expdigits"
          /\ c \in Digits19 => Extended("expdigits", c) = "expdigits"
          /\ c = "." => Extended("expdigits", c) = "bad"
          /\ c \in Exponent => Extended("expdigits", c) = "bad"
          /\ c \in Signs => Extended("expdigits", c) = "bad"
    BY <1>12, ArcTaken DEF Arcs, Arc
  <2>2. Deriv(c, Only(Digits)) = After("expdigits")
    BY <1>2, <1>3, <1>4, <2>1, DerivDigits, TailOfClass, NumberCharacters DEF After
  <2> QED BY <1>12, <2>2, DerivDigits, TailOfClass DEF StrtodReadsAll, After
<1>13. CASE class = "bad"
  <2>1. c \in NumberChars =>
          /\ c = "0" => Extended("bad", c) = "bad"
          /\ c \in Digits19 => Extended("bad", c) = "bad"
          /\ c = "." => Extended("bad", c) = "bad"
          /\ c \in Exponent => Extended("bad", c) = "bad"
          /\ c \in Signs => Extended("bad", c) = "bad"
    BY <1>13, ArcTaken DEF Arcs, Arc
  <2>2. Deriv(c, {}) = After("bad")
    BY <1>2, <1>3, <1>4, <2>1, TailOfClass, NumberCharacters DEF After, Deriv
  <2> QED BY <1>13, <2>2, TailOfClass DEF StrtodReadsAll, After
<1> QED BY <1>1, <1>5, <1>6, <1>7, <1>8, <1>9, <1>10, <1>11, <1>12, <1>13

LEMMA DerivIntegers ==
  ASSUME NEW c \in AllChars
  PROVE  /\ Integers \in SUBSET Text /\ Empty \notin Integers
         /\ Deriv(c, Integers) = IF c = "0" THEN {Empty}
                                 ELSE IF c \in Digits19 THEN Only(Digits) ELSE {}
<1>1. Integers \in SUBSET Text /\ Empty \notin Integers
  BY DerivDigits DEF Integers
<1>2. c \in Digits <=> c = "0" \/ c \in Digits19
  BY DEF Digits
<1>3. "0" \notin Digits19
  BY DEF Digits19
<1>4. ASSUME NEW u \in Text
      PROVE  Ahead(c, u) \in Integers
               <=> c \in Digits /\ u \in Only(Digits) /\ (c = "0" => u = Empty)
  <2>1. Ahead(c, u) \in SomeDigits <=> c \in Digits /\ u \in Only(Digits)
    BY DerivDigits DEF Deriv
  <2>2. Ahead(c, u)[1] = c /\ Len(Ahead(c, u)) = Len(u) + 1
    BY AheadText
  <2>3. Len(Ahead(c, u)) = 1 <=> u = Empty
    BY <2>2, LenText
  <2> QED BY <2>1, <2>2, <2>3 DEF Integers
<1>5. Only(Digits) \in SUBSET Text /\ Empty \in Only(Digits)
  BY DerivDigits
<1>6. \A u : u \in Deriv(c, Integers)
               <=> c \in Digits /\ u \in Only(Digits) /\ (c = "0" => u = Empty)
  BY <1>4, <1>5 DEF Deriv
<1>7. CASE c = "0"
  BY <1>1, <1>2, <1>3, <1>5, <1>6, <1>7
<1>8. CASE c \in Digits19
  BY <1>1, <1>2, <1>3, <1>6, <1>8
<1>9. CASE c # "0" /\ c \notin Digits19
  BY <1>1, <1>2, <1>6, <1>9
<1> QED BY <1>7, <1>8, <1>9

LEMMA DerivReadNumber ==
  ASSUME NEW c \in AllChars
  PROVE  /\ ReadNumber \in SUBSET Text /\ Empty \notin ReadNumber
         /\ Deriv(c, ReadNumber) = IF c = "-" THEN MinusTail
                                   ELSE IF c = "0" THEN ZeroTail
                                   ELSE IF c \in Digits19 THEN IntTail ELSE {}
<1> DEFINE P == Then(OneOf({"-"}), StrtodMantissa)
           Q == Then(Integers, Optional(Point))
<1>1. /\ OneOf({"-"}) \in SUBSET Text /\ Empty \notin OneOf({"-"})
      /\ Deriv(c, OneOf({"-"})) = IF c \in {"-"} THEN {Empty} ELSE {}
  BY NumberCharacters, DerivOneOf
<1>2. Deriv(c, P) = IF c = "-" THEN StrtodMantissa ELSE {}
  <2>1. Deriv(c, P) = Then(Deriv(c, OneOf({"-"})), StrtodMantissa)
    BY <1>1, DerivMantissa, DerivFirst
  <2>2. Then({}, StrtodMantissa) = {} /\ Then({Empty}, StrtodMantissa) = StrtodMantissa
    BY DerivMantissa, ThenEmpty
  <2> QED BY <1>1, <2>1, <2>2
<1>3. Deriv(c, Q) = IF c = "0" THEN Optional(Point)
                    ELSE IF c \in Digits19 THEN Then(Only(Digits), Optional(Point)) ELSE {}
  <2>1. Deriv(c, Q) = Then(Deriv(c, Integers), Optional(Point))
    BY DerivIntegers, DerivPoint, DerivFirst
  <2>2. Then({}, Optional(Point)) = {} /\ Then({Empty}, Optional(Point)) = Optional(Point)
    BY DerivPoint, ThenEmpty
  <2> QED BY <2>1, <2>2, DerivIntegers
<1>4. P \in SUBSET Text /\ Q \in SUBSET Text /\ Empty \notin P /\ Empty \notin Q
  BY <1>1, DerivIntegers, DerivMantissa, DerivPoint, EmptyInThen, ThenLanguage
<1>5. ReadNumber = Then(P \cup Q, Ends)
  BY DEF ReadNumber, Ends
<1> HIDE DEF P, Q
<1>6. P \cup Q \in SUBSET Text /\ Empty \notin P \cup Q
  BY <1>4
<1>7. ReadNumber \in SUBSET Text /\ Empty \notin ReadNumber
  BY <1>5, <1>6, DerivEnds, EmptyInThen, ThenLanguage
<1>8. Deriv(c, ReadNumber) = Then(Deriv(c, P) \cup Deriv(c, Q), Ends)
  <2>1. PICK R \in SUBSET Text : R = P \cup Q
    BY <1>6
  <2>2. Empty \notin R /\ Ends \in SUBSET Text
    BY <1>6, <2>1, DerivEnds
  <2>3. Deriv(c, Then(R, Ends)) = Then(Deriv(c, R), Ends)
    BY <2>2, DerivFirst
  <2>4. Deriv(c, P \cup Q) = Deriv(c, P) \cup Deriv(c, Q)
    BY DerivUnion
  <2> QED BY <1>5, <2>1, <2>3, <2>4
<1>9. "-" \notin Digits19 /\ "0" \notin Digits19
  BY DEF Digits19
<1>10. Then({}, Ends) = {}
  BY DerivEnds, ThenEmpty
<1>11. Then(Then(Only(Digits), Optional(Point)), Ends) = IntTail
  BY DerivDigits, DerivPoint, DerivEnds, ThenAssociative DEF IntTail, ZeroTail
<1>12. CASE c = "-"
  <2>1. Deriv(c, P) \cup Deriv(c, Q) = StrtodMantissa
    BY <1>2, <1>3, <1>9, <1>12
  <2> QED BY <1>7, <1>8, <1>12, <2>1 DEF MinusTail
<1>13. CASE c = "0"
  <2>1. Deriv(c, P) \cup Deriv(c, Q) = Optional(Point)
    BY <1>2, <1>3, <1>13
  <2> QED BY <1>7, <1>8, <1>13, <2>1 DEF ZeroTail
<1>14. CASE c \in Digits19
  <2>1. Deriv(c, P) \cup Deriv(c, Q) = Then(Only(Digits), Optional(Point))
    BY <1>2, <1>3, <1>9, <1>14
  <2> QED BY <1>7, <1>8, <1>9, <1>11, <1>14, <2>1
<1>15. CASE c # "-" /\ c # "0" /\ c \notin Digits19
  <2>1. Deriv(c, P) \cup Deriv(c, Q) = {}
    BY <1>2, <1>3, <1>15
  <2> QED BY <1>7, <1>8, <1>10, <1>15, <2>1
<1> QED BY <1>12, <1>13, <1>14, <1>15

-----------------------------------------------------------------------------
(* Characters of strings: what may follow each part of an escape.          *)

IsHex(c) == hexdigit_val(c) >= 0

\* The value v with one digit more, of each weight.
Weigh4(v, c) == v + hexdigit_val(c) * 4096
Weigh3(v, c) == v + hexdigit_val(c) * 256
Weigh2(v, c) == v + hexdigit_val(c) * 16
Weigh1(v, c) == v + hexdigit_val(c) * 1
Weighed(a, b, d, e) == Weigh1(Weigh2(Weigh3(Weigh4(0, a), b), d), e)

\* The last digits of a unit of some units, whose digits so far have the value v.
UnitTail0(units, v) == IF v \in units THEN {Empty} ELSE {}
UnitTail1(units, v) ==
  {t \in Text : \E d \in AllChars, u \in Text :
     IsHex(d) /\ t = Ahead(d, u) /\ u \in UnitTail0(units, Weigh1(v, d))}
UnitTail2(units, v) ==
  {t \in Text : \E d \in AllChars, u \in Text :
     IsHex(d) /\ t = Ahead(d, u) /\ u \in UnitTail1(units, Weigh2(v, d))}
UnitTail3(units, v) ==
  {t \in Text : \E d \in AllChars, u \in Text :
     IsHex(d) /\ t = Ahead(d, u) /\ u \in UnitTail2(units, Weigh3(v, d))}
UnitTail4(units, v) ==
  {t \in Text : \E d \in AllChars, u \in Text :
     IsHex(d) /\ t = Ahead(d, u) /\ u \in UnitTail3(units, Weigh4(v, d))}

LEMMA DerivUnitTail ==
  ASSUME NEW c \in AllChars, NEW units, NEW v
  PROVE  /\ Deriv(c, UnitTail4(units, v)) =
              IF IsHex(c) THEN UnitTail3(units, Weigh4(v, c)) ELSE {}
         /\ Deriv(c, UnitTail3(units, v)) =
              IF IsHex(c) THEN UnitTail2(units, Weigh3(v, c)) ELSE {}
         /\ Deriv(c, UnitTail2(units, v)) =
              IF IsHex(c) THEN UnitTail1(units, Weigh2(v, c)) ELSE {}
         /\ Deriv(c, UnitTail1(units, v)) =
              IF IsHex(c) THEN UnitTail0(units, Weigh1(v, c)) ELSE {}
<1> DEFINE Led(L) == {t \in Text : \E d \in AllChars, u \in Text :
                                     IsHex(d) /\ t = Ahead(d, u) /\ u \in L[d]}
<1>1. ASSUME NEW L, \A d \in AllChars : L[d] \in SUBSET Text
      PROVE  Deriv(c, Led(L)) = IF IsHex(c) THEN L[c] ELSE {}
  <2>1. ASSUME NEW u \in Text
        PROVE  Ahead(c, u) \in Led(L) <=> IsHex(c) /\ u \in L[c]
    <3>1. Ahead(c, u) \in Text
      BY AheadText
    <3>2. ASSUME Ahead(c, u) \in Led(L) PROVE IsHex(c) /\ u \in L[c]
      <4>1. PICK d \in AllChars, w \in Text :
              IsHex(d) /\ Ahead(c, u) = Ahead(d, w) /\ w \in L[d]
        BY <3>2
      <4>2. c = d /\ u = w
        BY <4>1, AheadInjective
      <4> QED BY <4>1, <4>2
    <3> QED BY <3>1, <3>2
  <2> HIDE DEF Led
  <2> QED BY <1>1, <2>1 DEF Deriv
<1>2. /\ \A x : UnitTail0(units, x) \in SUBSET Text
      /\ \A x : UnitTail1(units, x) \in SUBSET Text
      /\ \A x : UnitTail2(units, x) \in SUBSET Text
      /\ \A x : UnitTail3(units, x) \in SUBSET Text
  BY EmptyText DEF UnitTail0, UnitTail1, UnitTail2, UnitTail3
<1>3. Deriv(c, UnitTail4(units, v)) =
        IF IsHex(c) THEN UnitTail3(units, Weigh4(v, c)) ELSE {}
  <2> DEFINE L == [d \in AllChars |-> UnitTail3(units, Weigh4(v, d))]
  <2>1. UnitTail4(units, v) = Led(L)
    BY DEF UnitTail4
  <2>2. \A d \in AllChars : L[d] \in SUBSET Text
    BY <1>2
  <2>3. L[c] = UnitTail3(units, Weigh4(v, c))
    OBVIOUS
  <2> HIDE DEF L, Led
  <2> QED BY <1>1, <2>1, <2>2, <2>3
<1>4. Deriv(c, UnitTail3(units, v)) =
        IF IsHex(c) THEN UnitTail2(units, Weigh3(v, c)) ELSE {}
  <2> DEFINE L == [d \in AllChars |-> UnitTail2(units, Weigh3(v, d))]
  <2>1. UnitTail3(units, v) = Led(L)
    BY DEF UnitTail3
  <2>2. \A d \in AllChars : L[d] \in SUBSET Text
    BY <1>2
  <2>3. L[c] = UnitTail2(units, Weigh3(v, c))
    OBVIOUS
  <2> HIDE DEF L, Led
  <2> QED BY <1>1, <2>1, <2>2, <2>3
<1>5. Deriv(c, UnitTail2(units, v)) =
        IF IsHex(c) THEN UnitTail1(units, Weigh2(v, c)) ELSE {}
  <2> DEFINE L == [d \in AllChars |-> UnitTail1(units, Weigh2(v, d))]
  <2>1. UnitTail2(units, v) = Led(L)
    BY DEF UnitTail2
  <2>2. \A d \in AllChars : L[d] \in SUBSET Text
    BY <1>2
  <2>3. L[c] = UnitTail1(units, Weigh2(v, c))
    OBVIOUS
  <2> HIDE DEF L, Led
  <2> QED BY <1>1, <2>1, <2>2, <2>3
<1>6. Deriv(c, UnitTail1(units, v)) =
        IF IsHex(c) THEN UnitTail0(units, Weigh1(v, c)) ELSE {}
  <2> DEFINE L == [d \in AllChars |-> UnitTail0(units, Weigh1(v, d))]
  <2>1. UnitTail1(units, v) = Led(L)
    BY DEF UnitTail1
  <2>2. \A d \in AllChars : L[d] \in SUBSET Text
    BY <1>2
  <2>3. L[c] = UnitTail0(units, Weigh1(v, c))
    OBVIOUS
  <2> HIDE DEF L, Led
  <2> QED BY <1>1, <2>1, <2>2, <2>3
<1> QED BY <1>3, <1>4, <1>5, <1>6

LEMMA UnitTailLanguage ==
  ASSUME NEW units, NEW v
  PROVE  /\ UnitTail4(units, v) \in SUBSET Text /\ Empty \notin UnitTail4(units, v)
         /\ UnitTail3(units, v) \in SUBSET Text /\ Empty \notin UnitTail3(units, v)
         /\ UnitTail2(units, v) \in SUBSET Text /\ Empty \notin UnitTail2(units, v)
         /\ UnitTail1(units, v) \in SUBSET Text /\ Empty \notin UnitTail1(units, v)
         /\ UnitTail0(units, v) \in SUBSET Text
<1>1. \A d \in AllChars, u \in Text : Ahead(d, u) # Empty
  BY AheadText
<1> QED BY <1>1, EmptyText DEF UnitTail0, UnitTail1, UnitTail2, UnitTail3, UnitTail4

\* A text t that is c and then u.
StartsWith(t, c, u, n) ==
  /\ c \in AllChars /\ t = Ahead(c, u)
  /\ Len(u) = n /\ Len(t) = n + 1
  /\ t[1] = c /\ \A i \in 1 .. n : t[i + 1] = u[i]

LEMMA TextBegins ==
  ASSUME NEW t \in Text, NEW m \in Nat, NEW n \in Nat, m = n + 1, Len(t) = m
  PROVE  \E u \in Text : StartsWith(t, t[1], u, n)
<1>1. t # Empty
  BY LenText
<1>2. PICK d \in AllChars, u \in Text : t = Ahead(d, u)
  BY <1>1, AheadOrEmpty
<1>3. d = t[1] /\ Len(t) = Len(u) + 1 /\ \A i \in 1 .. Len(u) : t[i + 1] = u[i]
  BY <1>2, AheadText
<1>4. Len(u) = n
  <2>1. PICK k \in Nat : k = Len(u)
    BY LenText
  <2> QED BY <1>3, <2>1
<1> QED BY <1>2, <1>3, <1>4 DEF StartsWith

LEMMA AheadBegins ==
  ASSUME NEW n \in Nat
  PROVE  \A c \in AllChars, u \in Text :
           Len(u) = n => /\ Ahead(c, u) \in Text /\ Len(Ahead(c, u)) = n + 1
                         /\ StartsWith(Ahead(c, u), c, u, n)
<1> SUFFICES ASSUME NEW c \in AllChars, NEW u \in Text, Len(u) = n
             PROVE  /\ Ahead(c, u) \in Text /\ Len(Ahead(c, u)) = n + 1
                    /\ StartsWith(Ahead(c, u), c, u, n)
  OBVIOUS
<1>1. /\ Ahead(c, u) \in Text /\ Len(Ahead(c, u)) = Len(u) + 1 /\ Ahead(c, u)[1] = c
      /\ \A i \in 1 .. Len(u) : Ahead(c, u)[i + 1] = u[i]
  BY AheadText
<1> QED BY <1>1 DEF StartsWith

\* The digits of a unit, one after the other.
LEMMA UnitDigits ==
  ASSUME NEW t \in Text, Len(t) = 6
  PROVE  UnitOf(SubSeq(t, 3, 6)) = Weighed(t[3], t[4], t[5], t[6])
<1> DEFINE s == SubSeq(t, 3, 6)
<1>1. s[1] = t[3] /\ s[2] = t[4] /\ s[3] = t[5] /\ s[4] = t[6]
  BY DEF Text
<1> HIDE DEF s
<1>2. \A c : hexdigit_val(c) \in Int
  BY DEF hexdigit_val
<1>3. UnitOf(s) = Weighed(s[1], s[2], s[3], s[4])
  BY <1>2 DEF UnitOf, Weighed, Weigh1, Weigh2, Weigh3, Weigh4
<1> QED BY <1>1, <1>3 DEF s

\* Four hexadecimal digits.
LEMMA FourDigits ==
  ASSUME NEW units, NEW u
  PROVE  u \in UnitTail4(units, 0) <=>
           \E a, b, d, e \in AllChars :
             /\ u = Ahead(a, Ahead(b, Ahead(d, Ahead(e, Empty))))
             /\ IsHex(a) /\ IsHex(b) /\ IsHex(d) /\ IsHex(e)
             /\ Weighed(a, b, d, e) \in units
<1>2. ASSUME u \in UnitTail4(units, 0)
      PROVE  \E a, b, d, e \in AllChars :
               /\ u = Ahead(a, Ahead(b, Ahead(d, Ahead(e, Empty))))
               /\ IsHex(a) /\ IsHex(b) /\ IsHex(d) /\ IsHex(e)
               /\ Weighed(a, b, d, e) \in units
  <2>1. PICK a \in AllChars, u1 \in Text :
          IsHex(a) /\ u = Ahead(a, u1) /\ u1 \in UnitTail3(units, Weigh4(0, a))
    BY <1>2, Zenon DEF UnitTail4
  <2>2. PICK b \in AllChars, u2 \in Text :
          IsHex(b) /\ u1 = Ahead(b, u2)
            /\ u2 \in UnitTail2(units, Weigh3(Weigh4(0, a), b))
    BY <2>1, Zenon DEF UnitTail3
  <2>3. PICK d \in AllChars, u3 \in Text :
          IsHex(d) /\ u2 = Ahead(d, u3)
            /\ u3 \in UnitTail1(units, Weigh2(Weigh3(Weigh4(0, a), b), d))
    BY <2>2, Zenon DEF UnitTail2
  <2>4. PICK e \in AllChars, u4 \in Text :
          IsHex(e) /\ u3 = Ahead(e, u4)
            /\ u4 \in UnitTail0(units, Weighed(a, b, d, e))
    BY <2>3, Zenon DEF UnitTail1, Weighed
  <2>5. u4 \in UnitTail0(units, Weighed(a, b, d, e))
    BY <2>4, Zenon DEF Weighed
  <2>6. u4 = Empty /\ Weighed(a, b, d, e) \in units
    BY <2>5 DEF UnitTail0
  <2> QED BY <2>1, <2>2, <2>3, <2>4, <2>6, Zenon
<1>3. ASSUME NEW a \in AllChars, NEW b \in AllChars, NEW d \in AllChars, NEW e \in AllChars,
             u = Ahead(a, Ahead(b, Ahead(d, Ahead(e, Empty)))),
             IsHex(a), IsHex(b), IsHex(d), IsHex(e),
             Weighed(a, b, d, e) \in units
      PROVE  u \in UnitTail4(units, 0)
  <2>1. Empty \in UnitTail0(units, Weighed(a, b, d, e))
    BY <1>3 DEF UnitTail0
  <2>2. Ahead(e, Empty) \in Text /\ Ahead(d, Ahead(e, Empty)) \in Text
        /\ Ahead(b, Ahead(d, Ahead(e, Empty))) \in Text /\ u \in Text
    BY <1>3, EmptyText, AheadText
  <2>3. Ahead(e, Empty) \in UnitTail1(units, Weigh2(Weigh3(Weigh4(0, a), b), d))
    BY <1>3, <2>1, <2>2, EmptyText, Zenon DEF UnitTail1, Weighed
  <2>4. Ahead(d, Ahead(e, Empty)) \in UnitTail2(units, Weigh3(Weigh4(0, a), b))
    BY <1>3, <2>2, <2>3, Zenon DEF UnitTail2
  <2>5. Ahead(b, Ahead(d, Ahead(e, Empty))) \in UnitTail3(units, Weigh4(0, a))
    BY <1>3, <2>2, <2>4, Zenon DEF UnitTail3
  <2> QED BY <1>3, <2>2, <2>5, Zenon DEF UnitTail4
<1> QED BY <1>2, <1>3, Zenon

\* An escape is a backslash, a u and four digits.
LEMMA EscapedUnitIff ==
  ASSUME NEW units, NEW t
  PROVE  t \in EscapedUnit(units) <=>
           \E u \in UnitTail4(units, 0) : t = Ahead(Backslash, Ahead("u", u))
<1>0. Backslash \in AllChars /\ "u" \in AllChars
  BY DEF AllChars
<1>1. ASSUME t \in EscapedUnit(units)
      PROVE  \E u \in UnitTail4(units, 0) : t = Ahead(Backslash, Ahead("u", u))
  <2>1. t \in Text /\ Len(t) = 6 /\ t[1] = Backslash /\ t[2] = "u"
    BY <1>1 DEF EscapedUnit
  <2>2. IsHex(t[3]) /\ IsHex(t[4]) /\ IsHex(t[5]) /\ IsHex(t[6])
    BY <1>1 DEF EscapedUnit, IsHex
  <2>3. UnitOf(SubSeq(t, 3, 6)) \in units
    BY <1>1 DEF EscapedUnit
  <2>4. Weighed(t[3], t[4], t[5], t[6]) \in units
    BY <2>1, <2>3, UnitDigits, Zenon
  <2>20. 0 \in Nat /\ 1 \in Nat /\ 2 \in Nat /\ 3 \in Nat /\ 4 \in Nat /\ 5 \in Nat /\ 6 \in Nat
    OBVIOUS
  <2>5. PICK u1 \in Text : StartsWith(t, t[1], u1, 5)
    <3>1. 6 = 5 + 1 /\ Len(t) = 6
      BY <2>1
    <3> QED BY <2>1, <2>20, <3>1, TextBegins
  <2>6. PICK u2 \in Text : StartsWith(u1, u1[1], u2, 4)
    <3>1. 5 = 4 + 1 /\ Len(u1) = 5
      BY <2>5 DEF StartsWith
    <3> QED BY <2>20, <3>1, TextBegins
  <2>7. PICK u3 \in Text : StartsWith(u2, u2[1], u3, 3)
    <3>1. 4 = 3 + 1 /\ Len(u2) = 4
      BY <2>6 DEF StartsWith
    <3> QED BY <2>20, <3>1, TextBegins
  <2>8. PICK u4 \in Text : StartsWith(u3, u3[1], u4, 2)
    <3>1. 3 = 2 + 1 /\ Len(u3) = 3
      BY <2>7 DEF StartsWith
    <3> QED BY <2>20, <3>1, TextBegins
  <2>9. PICK u5 \in Text : StartsWith(u4, u4[1], u5, 1)
    <3>1. 2 = 1 + 1 /\ Len(u4) = 2
      BY <2>8 DEF StartsWith
    <3> QED BY <2>20, <3>1, TextBegins
  <2>10. PICK u6 \in Text : StartsWith(u5, u5[1], u6, 0)
    <3>1. 1 = 0 + 1 /\ Len(u5) = 1
      BY <2>9 DEF StartsWith
    <3> QED BY <2>20, <3>1, TextBegins
  <2>21. u1[1] = t[2] /\ u2[1] = t[3] /\ u3[1] = t[4] /\ u4[1] = t[5] /\ u5[1] = t[6]
    <3>1. \A i \in 1 .. 5 : u1[i] = t[i + 1]
      BY <2>5 DEF StartsWith
    <3>2. \A i \in 1 .. 4 : u2[i] = u1[i + 1]
      BY <2>6 DEF StartsWith
    <3>3. \A i \in 1 .. 3 : u3[i] = u2[i + 1]
      BY <2>7 DEF StartsWith
    <3>4. \A i \in 1 .. 2 : u4[i] = u3[i + 1]
      BY <2>8 DEF StartsWith
    <3>5. u5[1] = u4[2]
      BY <2>9 DEF StartsWith
    <3> QED BY <3>1, <3>2, <3>3, <3>4, <3>5
  <2>22. /\ t = Ahead(Backslash, u1) /\ u1 = Ahead("u", u2)
         /\ u2 = Ahead(t[3], u3) /\ u3 = Ahead(t[4], u4) /\ u4 = Ahead(t[5], u5)
         /\ u5 = Ahead(t[6], u6)
         /\ t[3] \in AllChars /\ t[4] \in AllChars /\ t[5] \in AllChars /\ t[6] \in AllChars
    BY <2>1, <2>5, <2>6, <2>7, <2>8, <2>9, <2>10, <2>21 DEF StartsWith
  <2>23. u6 = Empty
    BY <2>10, LenText DEF StartsWith
  <2>24. u2 = Ahead(t[3], Ahead(t[4], Ahead(t[5], Ahead(t[6], Empty))))
    BY <2>22, <2>23
  <2>25. u2 \in UnitTail4(units, 0)
    <3>1. \E a, b, d, e \in AllChars :
            /\ u2 = Ahead(a, Ahead(b, Ahead(d, Ahead(e, Empty))))
            /\ IsHex(a) /\ IsHex(b) /\ IsHex(d) /\ IsHex(e)
            /\ Weighed(a, b, d, e) \in units
      BY <2>2, <2>4, <2>22, <2>24, Zenon
    <3> QED BY <3>1, FourDigits
  <2> QED BY <2>22, <2>25, Zenon
<1>2. ASSUME NEW u \in UnitTail4(units, 0), t = Ahead(Backslash, Ahead("u", u))
      PROVE  t \in EscapedUnit(units)
  <2>1. PICK a \in AllChars, b \in AllChars, d \in AllChars, e \in AllChars :
          /\ u = Ahead(a, Ahead(b, Ahead(d, Ahead(e, Empty))))
          /\ IsHex(a) /\ IsHex(b) /\ IsHex(d) /\ IsHex(e)
          /\ Weighed(a, b, d, e) \in units
    BY FourDigits
  <2>20. 0 \in Nat /\ 1 \in Nat /\ 2 \in Nat /\ 3 \in Nat /\ 4 \in Nat /\ 5 \in Nat /\ 6 \in Nat
    OBVIOUS
  <2>21. Len(Empty) = 0
    BY EmptyText, LenText
  <2>2. PICK u5 \in Text : /\ u5 = Ahead(e, Empty) /\ Len(u5) = 1
                           /\ StartsWith(u5, e, Empty, 0)
    <3>1. Len(Empty) = 0 /\ Empty \in Text /\ e \in AllChars
      BY <1>0, EmptyText, <2>21
    <3>2. \A x \in AllChars, y \in Text :
            Len(y) = 0 => /\ Ahead(x, y) \in Text /\ Len(Ahead(x, y)) = 0 + 1
                          /\ StartsWith(Ahead(x, y), x, y, 0)
      BY <2>20, AheadBegins, Zenon
    <3> QED BY <3>1, <3>2
  <2>3. PICK u4 \in Text : /\ u4 = Ahead(d, u5) /\ Len(u4) = 2
                           /\ StartsWith(u4, d, u5, 1)
    <3>1. Len(u5) = 1 /\ u5 \in Text /\ d \in AllChars
      BY <1>0, <2>2
    <3>2. \A x \in AllChars, y \in Text :
            Len(y) = 1 => /\ Ahead(x, y) \in Text /\ Len(Ahead(x, y)) = 1 + 1
                          /\ StartsWith(Ahead(x, y), x, y, 1)
      BY <2>20, AheadBegins, Zenon
    <3> QED BY <3>1, <3>2
  <2>4. PICK u3 \in Text : /\ u3 = Ahead(b, u4) /\ Len(u3) = 3
                           /\ StartsWith(u3, b, u4, 2)
    <3>1. Len(u4) = 2 /\ u4 \in Text /\ b \in AllChars
      BY <1>0, <2>3
    <3>2. \A x \in AllChars, y \in Text :
            Len(y) = 2 => /\ Ahead(x, y) \in Text /\ Len(Ahead(x, y)) = 2 + 1
                          /\ StartsWith(Ahead(x, y), x, y, 2)
      BY <2>20, AheadBegins, Zenon
    <3> QED BY <3>1, <3>2
  <2>5. PICK u2 \in Text : /\ u2 = Ahead(a, u3) /\ Len(u2) = 4
                           /\ StartsWith(u2, a, u3, 3)
    <3>1. Len(u3) = 3 /\ u3 \in Text /\ a \in AllChars
      BY <1>0, <2>4
    <3>2. \A x \in AllChars, y \in Text :
            Len(y) = 3 => /\ Ahead(x, y) \in Text /\ Len(Ahead(x, y)) = 3 + 1
                          /\ StartsWith(Ahead(x, y), x, y, 3)
      BY <2>20, AheadBegins, Zenon
    <3> QED BY <3>1, <3>2
  <2>6. PICK u1 \in Text : /\ u1 = Ahead("u", u2) /\ Len(u1) = 5
                           /\ StartsWith(u1, "u", u2, 4)
    <3>1. Len(u2) = 4 /\ u2 \in Text /\ "u" \in AllChars
      BY <1>0, <2>5
    <3>2. \A x \in AllChars, y \in Text :
            Len(y) = 4 => /\ Ahead(x, y) \in Text /\ Len(Ahead(x, y)) = 4 + 1
                          /\ StartsWith(Ahead(x, y), x, y, 4)
      BY <2>20, AheadBegins, Zenon
    <3> QED BY <3>1, <3>2
  <2>7. PICK u0 \in Text : /\ u0 = Ahead(Backslash, u1) /\ Len(u0) = 6
                           /\ StartsWith(u0, Backslash, u1, 5)
    <3>1. Len(u1) = 5 /\ u1 \in Text /\ Backslash \in AllChars
      BY <1>0, <2>6
    <3>2. \A x \in AllChars, y \in Text :
            Len(y) = 5 => /\ Ahead(x, y) \in Text /\ Len(Ahead(x, y)) = 5 + 1
                          /\ StartsWith(Ahead(x, y), x, y, 5)
      BY <2>20, AheadBegins, Zenon
    <3> QED BY <3>1, <3>2
  <2>22. t = u0
    BY <1>2, <2>1, <2>2, <2>3, <2>4, <2>5, <2>6, <2>7, Zenon
  <2>23. /\ u0[1] = Backslash /\ u0[2] = "u" /\ u0[3] = a /\ u0[4] = b /\ u0[5] = d /\ u0[6] = e
    <3>1. u0[1] = Backslash /\ \A i \in 1 .. 5 : u0[i + 1] = u1[i]
      BY <2>7 DEF StartsWith
    <3>2. u1[1] = "u" /\ \A i \in 1 .. 4 : u1[i + 1] = u2[i]
      BY <2>6 DEF StartsWith
    <3>3. u2[1] = a /\ \A i \in 1 .. 3 : u2[i + 1] = u3[i]
      BY <2>5 DEF StartsWith
    <3>4. u3[1] = b /\ u3[2] = u4[1] /\ u3[3] = u4[2]
      BY <2>4 DEF StartsWith
    <3>5. u4[1] = d /\ u4[2] = u5[1]
      BY <2>3 DEF StartsWith
    <3>6. u5[1] = e
      BY <2>2 DEF StartsWith
    <3> QED BY <3>1, <3>2, <3>3, <3>4, <3>5, <3>6
  <2>8. UnitOf(SubSeq(t, 3, 6)) \in units
    BY <2>1, <2>7, <2>22, <2>23, UnitDigits
  <2>9. \A i \in 3 .. 6 : hexdigit_val(t[i]) >= 0
    BY <2>1, <2>22, <2>23 DEF IsHex
  <2> QED BY <2>7, <2>22, <2>23, <2>8, <2>9 DEF EscapedUnit
<1> QED BY <1>1, <1>2, Zenon

\* The same as concatenations.
LEMMA LedBy ==
  ASSUME NEW c \in AllChars, NEW B \in SUBSET Text, NEW t
  PROVE  t \in Then(OneOf({c}), B) <=> \E u \in B : t = Ahead(c, u)
<1>1. OneOf({c}) \in SUBSET Text /\ \A a : a \in OneOf({c}) <=> a = << c >>
  BY OneText DEF OneOf
<1>2. t \in Then(OneOf({c}), B) <=> \E a \in OneOf({c}), u \in B : t = Join(a, u)
  <2>1. PICK A \in SUBSET Text : A = OneOf({c})
    BY <1>1
  <2>2. t \in Then(A, B) <=> \E a \in A, u \in B : t = Join(a, u)
    BY ThenIff
  <2> QED BY <2>1, <2>2
<1>3. \A u \in B : Join(<< c >>, u) = Ahead(c, u)
  BY DEF Join, Ahead
<1> QED BY <1>1, <1>2, <1>3

LEMMA DerivLed ==
  ASSUME NEW c \in AllChars, NEW d \in AllChars, NEW B \in SUBSET Text
  PROVE  /\ Then(OneOf({d}), B) \in SUBSET Text /\ Empty \notin Then(OneOf({d}), B)
         /\ Deriv(c, Then(OneOf({d}), B)) = IF c = d THEN B ELSE {}
<1>1. /\ OneOf({d}) \in SUBSET Text /\ Empty \notin OneOf({d})
      /\ Deriv(c, OneOf({d})) = IF c \in {d} THEN {Empty} ELSE {}
  BY DerivOneOf
<1>2. Then(OneOf({d}), B) \in SUBSET Text /\ Empty \notin Then(OneOf({d}), B)
  BY <1>1, EmptyInThen, ThenLanguage
<1>3. Deriv(c, Then(OneOf({d}), B)) = Then(Deriv(c, OneOf({d})), B)
  BY <1>1, DerivFirst
<1>4. Then({Empty}, B) = B /\ Then({}, B) = {}
  BY ThenEmpty
<1> QED BY <1>1, <1>2, <1>3, <1>4

LEMMA ThenUnionRight ==
  ASSUME NEW A \in SUBSET Text, NEW B \in SUBSET Text, NEW C \in SUBSET Text
  PROVE  Then(A, B \cup C) = Then(A, B) \cup Then(A, C)
<1>1. B \cup C \in SUBSET Text
  OBVIOUS
<1>2. \A t : t \in Then(A, B \cup C) <=> \E a \in A, b \in B \cup C : t = Join(a, b)
  BY <1>1, ThenIff
<1>3. \A t : t \in Then(A, B) <=> \E a \in A, b \in B : t = Join(a, b)
  BY ThenIff
<1>4. \A t : t \in Then(A, C) <=> \E a \in A, b \in C : t = Join(a, b)
  BY ThenIff
<1> QED BY <1>2, <1>3, <1>4

UnitEscape(units, v) == Then(OneOf({Backslash}), Then(OneOf({"u"}), UnitTail4(units, v)))

LEMMA EscapedUnitIs ==
  \A units : EscapedUnit(units) = UnitEscape(units, 0)
<1> SUFFICES ASSUME NEW units PROVE EscapedUnit(units) = UnitEscape(units, 0)
  OBVIOUS
<1>1. Backslash \in AllChars /\ "u" \in AllChars
  BY DEF AllChars
<1>2. PICK D \in SUBSET Text : D = UnitTail4(units, 0)
  BY UnitTailLanguage
<1>3. PICK U \in SUBSET Text : U = Then(OneOf({"u"}), D)
  BY ThenLanguage
<1>4. \A t : t \in EscapedUnit(units) <=> \E u \in D : t = Ahead(Backslash, Ahead("u", u))
  BY <1>2, EscapedUnitIff
<1>5. \A t : t \in U <=> \E u \in D : t = Ahead("u", u)
  BY <1>1, <1>3, LedBy
<1>6. \A t : t \in Then(OneOf({Backslash}), U) <=> \E u \in U : t = Ahead(Backslash, u)
  BY <1>1, LedBy
<1>7. \A t : t \in EscapedUnit(units) <=> t \in Then(OneOf({Backslash}), U)
  BY <1>4, <1>5, <1>6
<1>8. EscapedUnit(units) = Then(OneOf({Backslash}), U)
  BY <1>7
<1> QED BY <1>2, <1>3, <1>8 DEF UnitEscape

LEMMA OneCharEscapesIs ==
  {<< Backslash, c >> : c \in OneCharEscapes} = Then(OneOf({Backslash}), OneOf(OneCharEscapes))
<1>1. Backslash \in AllChars /\ OneCharEscapes \subseteq AllChars
  BY DEF AllChars, OneCharEscapes
<1>2. ASSUME NEW c \in OneCharEscapes PROVE << Backslash, c >> = Ahead(Backslash, << c >>)
  <2>1. PICK a : a = Ahead(Backslash, << c >>)
    OBVIOUS
  <2>2. << c >> \in Text /\ Len(<< c >>) = 1 /\ << c >>[1] = c
    BY <1>1, OneText
  <2>3. /\ a \in Text /\ Len(a) = Len(<< c >>) + 1 /\ a[1] = Backslash
        /\ \A i \in 1 .. Len(<< c >>) : a[i + 1] = << c >>[i]
    BY <1>1, <2>1, <2>2, AheadText
  <2>4. a \in Seq(AllChars) /\ Len(a) = 2 /\ a[1] = Backslash /\ a[2] = c
    BY <2>2, <2>3 DEF Text
  <2>5. PICK b : b = << Backslash, c >>
    OBVIOUS
  <2>6. b \in Seq(AllChars) /\ Len(b) = 2 /\ b[1] = Backslash /\ b[2] = c
    BY <1>1, <2>5
  <2>7. a = b
    <3>1. \A i \in 1 .. Len(a) : a[i] = b[i]
      BY <2>4, <2>6
    <3> QED BY <2>4, <2>6, <3>1, SeqEqual
  <2> QED BY <2>1, <2>5, <2>7
<1>3. PICK B \in SUBSET Text : B = OneOf(OneCharEscapes)
  BY <1>1, DerivOneOf
<1>4. \A u : u \in B <=> \E c \in OneCharEscapes : u = << c >>
  BY <1>3 DEF OneOf
<1>5. \A t : t \in Then(OneOf({Backslash}), B) <=> \E u \in B : t = Ahead(Backslash, u)
  BY <1>1, LedBy
<1> DEFINE One(c) == << c >>
           Two(c) == << Backslash, c >>
<1>6. /\ \A c \in OneCharEscapes : Two(c) = Ahead(Backslash, One(c))
      /\ \A u : u \in B <=> \E c \in OneCharEscapes : u = One(c)
  BY <1>2, <1>4, Zenon
<1>7. {Two(c) : c \in OneCharEscapes} = Then(OneOf({Backslash}), OneOf(OneCharEscapes))
  <2> HIDE DEF One, Two
  <2>1. \A t : t \in Then(OneOf({Backslash}), B) <=> \E c \in OneCharEscapes : t = Two(c)
    BY <1>5, <1>6
  <2> QED BY <1>3, <2>1
<1> QED BY <1>7

-----------------------------------------------------------------------------
(* Strings: what may follow each part of them.                             *)

Plain == AllChars \ {Quote, Backslash, "ctrl"}
Single == Unit \ (55296 .. 57342)
High == 55296 .. 57342
Low == 56320 .. 65535

\* The units a pair may begin with and the others share none, and the tests of the
\* parser tell which is which.
LEMMA UnitKinds ==
  ASSUME NEW v \in Unit
  PROVE  /\ v \in High <=> StartsPair(v)
         /\ v \in Single <=> ~StartsPair(v)
         /\ v \in Low <=> EndsPair(v)
<1>1. v \in Int /\ 0 <= v /\ v <= 65535
  BY UnitBounds
<1> DEFINE a == 55296  b == 57342  c == 56320  d == 65535
<1>2. a \in Int /\ b \in Int /\ c \in Int /\ d \in Int
  OBVIOUS
<1>3. v < 57343 <=> v <= b
  BY <1>1
<1>4. v <= d
  BY <1>1
<1> HIDE DEF a, b, c, d
<1>5. v \in a .. b <=> v >= a /\ v <= b
  BY <1>1, <1>2
<1>6. v \in c .. d <=> v >= c /\ v <= d
  BY <1>1, <1>2
<1>7. v \in High <=> StartsPair(v)
  BY <1>3, <1>5 DEF High, StartsPair, a, b
<1>8. v \in Low <=> EndsPair(v)
  BY <1>4, <1>6 DEF Low, EndsPair, c, d
<1>9. v \in Single <=> ~(v \in High)
  BY DEF Single, High
<1> QED BY <1>7, <1>8, <1>9

ReadCharacter == Character(Single, High, Low)

\* After the backslash; in the first unit, whose digits so far have the value v.
EscapeTail ==
  OneOf(OneCharEscapes)
    \cup Then(OneOf({"u"}), UnitTail4(Single, 0)
                              \cup Then(UnitTail4(High, 0), UnitEscape(Low, 0)))
FirstTail4(v) == UnitTail4(Single, v) \cup Then(UnitTail4(High, v), UnitEscape(Low, 0))
FirstTail3(v) == UnitTail3(Single, v) \cup Then(UnitTail3(High, v), UnitEscape(Low, 0))
FirstTail2(v) == UnitTail2(Single, v) \cup Then(UnitTail2(High, v), UnitEscape(Low, 0))
FirstTail1(v) == UnitTail1(Single, v) \cup Then(UnitTail1(High, v), UnitEscape(Low, 0))

LEMMA UnitEscapeLanguage ==
  \A units, v : UnitEscape(units, v) \in SUBSET Text /\ Empty \notin UnitEscape(units, v)
<1> SUFFICES ASSUME NEW units, NEW v
             PROVE  UnitEscape(units, v) \in SUBSET Text /\ Empty \notin UnitEscape(units, v)
  OBVIOUS
<1>1. Backslash \in AllChars /\ "u" \in AllChars
  BY DEF AllChars
<1>2. PICK U \in SUBSET Text : U = Then(OneOf({"u"}), UnitTail4(units, v))
  BY ThenLanguage
<1>3. Then(OneOf({Backslash}), U) \in SUBSET Text /\ Empty \notin Then(OneOf({Backslash}), U)
  BY <1>1, DerivLed
<1> QED BY <1>2, <1>3 DEF UnitEscape

\* One of the two alternatives of a first unit, less a digit.
Alone(A, B, E) == A \cup Then(B, E)

LEMMA DerivFirstTail ==
  ASSUME NEW c \in AllChars, NEW A \in SUBSET Text, NEW B \in SUBSET Text, Empty \notin B,
         NEW E \in SUBSET Text
  PROVE  Deriv(c, Alone(A, B, E)) = Alone(Deriv(c, A), Deriv(c, B), E)
<1>1. Deriv(c, A \cup Then(B, E)) = Deriv(c, A) \cup Deriv(c, Then(B, E))
  BY DerivUnion
<1>2. Deriv(c, Then(B, E)) = Then(Deriv(c, B), E)
  BY DerivFirst
<1> QED BY <1>1, <1>2 DEF Alone

LEMMA DerivFirstUnit ==
  ASSUME NEW c \in AllChars, NEW v
  PROVE  /\ Deriv(c, FirstTail4(v)) = IF IsHex(c) THEN FirstTail3(Weigh4(v, c)) ELSE {}
         /\ Deriv(c, FirstTail3(v)) = IF IsHex(c) THEN FirstTail2(Weigh3(v, c)) ELSE {}
         /\ Deriv(c, FirstTail2(v)) = IF IsHex(c) THEN FirstTail1(Weigh2(v, c)) ELSE {}
         /\ Deriv(c, FirstTail1(v)) =
              IF IsHex(c) THEN UnitTail0(Single, Weigh1(v, c))
                                 \cup Then(UnitTail0(High, Weigh1(v, c)), UnitEscape(Low, 0))
                          ELSE {}
<1>1. PICK E \in SUBSET Text : E = UnitEscape(Low, 0)
  BY UnitEscapeLanguage
<1>2. Then({}, E) = {}
  BY ThenEmpty
<1>3. Deriv(c, FirstTail4(v)) = IF IsHex(c) THEN FirstTail3(Weigh4(v, c)) ELSE {}
  <2>1. PICK A \in SUBSET Text : A = UnitTail4(Single, v)
    BY UnitTailLanguage
  <2>2. PICK B \in SUBSET Text : B = UnitTail4(High, v) /\ Empty \notin B
    BY UnitTailLanguage
  <2>3. Deriv(c, Alone(A, B, E)) = Alone(Deriv(c, A), Deriv(c, B), E)
    BY <2>2, DerivFirstTail
  <2>4. /\ Deriv(c, A) = IF IsHex(c) THEN UnitTail3(Single, Weigh4(v, c)) ELSE {}
        /\ Deriv(c, B) = IF IsHex(c) THEN UnitTail3(High, Weigh4(v, c)) ELSE {}
    BY <2>1, <2>2, DerivUnitTail
  <2> QED BY <1>1, <1>2, <2>1, <2>2, <2>3, <2>4 DEF FirstTail4, FirstTail3, Alone
<1>4. Deriv(c, FirstTail3(v)) = IF IsHex(c) THEN FirstTail2(Weigh3(v, c)) ELSE {}
  <2>1. PICK A \in SUBSET Text : A = UnitTail3(Single, v)
    BY UnitTailLanguage
  <2>2. PICK B \in SUBSET Text : B = UnitTail3(High, v) /\ Empty \notin B
    BY UnitTailLanguage
  <2>3. Deriv(c, Alone(A, B, E)) = Alone(Deriv(c, A), Deriv(c, B), E)
    BY <2>2, DerivFirstTail
  <2>4. /\ Deriv(c, A) = IF IsHex(c) THEN UnitTail2(Single, Weigh3(v, c)) ELSE {}
        /\ Deriv(c, B) = IF IsHex(c) THEN UnitTail2(High, Weigh3(v, c)) ELSE {}
    BY <2>1, <2>2, DerivUnitTail
  <2> QED BY <1>1, <1>2, <2>1, <2>2, <2>3, <2>4 DEF FirstTail3, FirstTail2, Alone
<1>5. Deriv(c, FirstTail2(v)) = IF IsHex(c) THEN FirstTail1(Weigh2(v, c)) ELSE {}
  <2>1. PICK A \in SUBSET Text : A = UnitTail2(Single, v)
    BY UnitTailLanguage
  <2>2. PICK B \in SUBSET Text : B = UnitTail2(High, v) /\ Empty \notin B
    BY UnitTailLanguage
  <2>3. Deriv(c, Alone(A, B, E)) = Alone(Deriv(c, A), Deriv(c, B), E)
    BY <2>2, DerivFirstTail
  <2>4. /\ Deriv(c, A) = IF IsHex(c) THEN UnitTail1(Single, Weigh2(v, c)) ELSE {}
        /\ Deriv(c, B) = IF IsHex(c) THEN UnitTail1(High, Weigh2(v, c)) ELSE {}
    BY <2>1, <2>2, DerivUnitTail
  <2> QED BY <1>1, <1>2, <2>1, <2>2, <2>3, <2>4 DEF FirstTail2, FirstTail1, Alone
<1>6. Deriv(c, FirstTail1(v)) =
        IF IsHex(c) THEN UnitTail0(Single, Weigh1(v, c))
                           \cup Then(UnitTail0(High, Weigh1(v, c)), UnitEscape(Low, 0))
                    ELSE {}
  <2>1. PICK A \in SUBSET Text : A = UnitTail1(Single, v)
    BY UnitTailLanguage
  <2>2. PICK B \in SUBSET Text : B = UnitTail1(High, v) /\ Empty \notin B
    BY UnitTailLanguage
  <2>3. Deriv(c, Alone(A, B, E)) = Alone(Deriv(c, A), Deriv(c, B), E)
    BY <2>2, DerivFirstTail
  <2>4. /\ Deriv(c, A) = IF IsHex(c) THEN UnitTail0(Single, Weigh1(v, c)) ELSE {}
        /\ Deriv(c, B) = IF IsHex(c) THEN UnitTail0(High, Weigh1(v, c)) ELSE {}
    BY <2>1, <2>2, DerivUnitTail
  <2> QED BY <1>1, <1>2, <2>1, <2>2, <2>3, <2>4 DEF FirstTail1, Alone
<1> QED BY <1>3, <1>4, <1>5, <1>6

\* The last digit: a unit that begins a pair waits for another one, any other is all.
LEMMA DerivLastDigit ==
  ASSUME NEW c \in AllChars, NEW v, IsHex(c), Weigh1(v, c) \in Unit
  PROVE  /\ Deriv(c, FirstTail1(v)) =
              IF StartsPair(Weigh1(v, c)) THEN UnitEscape(Low, 0) ELSE {Empty}
         /\ Deriv(c, UnitTail1(Low, v)) = IF EndsPair(Weigh1(v, c)) THEN {Empty} ELSE {}
<1>1. PICK E \in SUBSET Text : E = UnitEscape(Low, 0)
  BY UnitEscapeLanguage
<1>2. Then({}, E) = {} /\ Then({Empty}, E) = E
  BY ThenEmpty
<1>3. PICK w \in Unit : w = Weigh1(v, c)
  OBVIOUS
<1>4. /\ w \in High <=> StartsPair(w)
      /\ w \in Single <=> ~StartsPair(w)
      /\ w \in Low <=> EndsPair(w)
  BY UnitKinds
<1>5. Deriv(c, FirstTail1(v)) = UnitTail0(Single, w) \cup Then(UnitTail0(High, w), E)
  BY <1>1, <1>3, DerivFirstUnit
<1>6. Deriv(c, UnitTail1(Low, v)) = UnitTail0(Low, w)
  BY <1>3, DerivUnitTail
<1> QED BY <1>1, <1>2, <1>3, <1>4, <1>5, <1>6 DEF UnitTail0

LEMMA DerivEscapeTail ==
  ASSUME NEW c \in AllChars
  PROVE  /\ EscapeTail \in SUBSET Text /\ Empty \notin EscapeTail
         /\ Deriv(c, EscapeTail) = IF c \in OneCharEscapes THEN {Empty}
                                   ELSE IF c = "u" THEN FirstTail4(0) ELSE {}
<1>1. "u" \in AllChars /\ OneCharEscapes \in SUBSET AllChars /\ "u" \notin OneCharEscapes
  BY DEF AllChars, OneCharEscapes, Quote, Backslash
<1>2. PICK F \in SUBSET Text : F = FirstTail4(0)
  BY UnitTailLanguage, ThenLanguage DEF FirstTail4
<1>3. EscapeTail = OneOf(OneCharEscapes) \cup Then(OneOf({"u"}), F)
  BY <1>2 DEF EscapeTail, FirstTail4
<1>4. /\ OneOf(OneCharEscapes) \in SUBSET Text /\ Empty \notin OneOf(OneCharEscapes)
      /\ Deriv(c, OneOf(OneCharEscapes)) = IF c \in OneCharEscapes THEN {Empty} ELSE {}
  BY <1>1, DerivOneOf
<1>5. /\ Then(OneOf({"u"}), F) \in SUBSET Text /\ Empty \notin Then(OneOf({"u"}), F)
      /\ Deriv(c, Then(OneOf({"u"}), F)) = IF c = "u" THEN F ELSE {}
  BY <1>1, DerivLed
<1>6. Deriv(c, EscapeTail) = Deriv(c, OneOf(OneCharEscapes)) \cup Deriv(c, Then(OneOf({"u"}), F))
  BY <1>3, DerivUnion
<1> QED BY <1>1, <1>2, <1>3, <1>4, <1>5, <1>6

\* A character of a string, or the backslash of an escape.
LEMMA DerivCharacter ==
  ASSUME NEW c \in AllChars
  PROVE  /\ ReadCharacter \in SUBSET Text /\ Empty \notin ReadCharacter
         /\ Deriv(c, ReadCharacter) = IF c \in Plain THEN {Empty}
                                      ELSE IF c = Backslash THEN EscapeTail ELSE {}
<1>1. Backslash \in AllChars /\ "u" \in AllChars /\ Plain \in SUBSET AllChars
      /\ Backslash \notin Plain /\ OneCharEscapes \in SUBSET AllChars
  BY DEF AllChars, Plain, OneCharEscapes
<1> DEFINE K == OneOf({Backslash})
           U == OneOf({"u"})
<1>2. K \in SUBSET Text /\ U \in SUBSET Text
  BY <1>1, DerivOneOf
<1>3. PICK S \in SUBSET Text : S = UnitTail4(Single, 0)
  BY UnitTailLanguage
<1>4. PICK H \in SUBSET Text : H = UnitTail4(High, 0)
  BY UnitTailLanguage
<1>5. PICK E \in SUBSET Text : E = UnitEscape(Low, 0)
  BY UnitEscapeLanguage
<1>6. PICK O \in SUBSET Text : O = OneOf(OneCharEscapes)
  BY <1>1, DerivOneOf
<1>7. PICK P \in SUBSET Text : P = OneOf(Plain) /\ Empty \notin P
                                 /\ Deriv(c, P) = IF c \in Plain THEN {Empty} ELSE {}
  BY <1>1, DerivOneOf
<1>8. ReadCharacter = P \cup Then(K, O) \cup Then(K, Then(U, S)) \cup Then(Then(K, Then(U, H)), E)
  <2>1. EscapedUnit(Single) = Then(K, Then(U, S)) /\ EscapedUnit(Low) = E
        /\ EscapedUnit(High) = Then(K, Then(U, H))
    BY <1>3, <1>4, <1>5, EscapedUnitIs DEF UnitEscape
  <2>2. {<< Backslash, d >> : d \in OneCharEscapes} = Then(K, O)
    BY <1>6, OneCharEscapesIs
  <2>3. ReadCharacter = P \cup {<< Backslash, d >> : d \in OneCharEscapes}
          \cup EscapedUnit(Single) \cup Then(EscapedUnit(High), EscapedUnit(Low))
    BY <1>7 DEF ReadCharacter, Character, Plain, OneCharEscapes
  <2> HIDE DEF K, U
  <2> QED BY <2>1, <2>2, <2>3, Zenon
<1> HIDE DEF K, U
<1>9. PICK V \in SUBSET Text : V = S \cup Then(H, E)
  BY ThenLanguage
<1>10. Then(Then(K, Then(U, H)), E) = Then(K, Then(U, Then(H, E)))
  <2>1. PICK UH \in SUBSET Text : UH = Then(U, H)
    BY ThenLanguage
  <2>2. Then(Then(K, UH), E) = Then(K, Then(UH, E))
    BY <1>2, ThenAssociative
  <2>3. Then(Then(U, H), E) = Then(U, Then(H, E))
    BY <1>2, ThenAssociative
  <2> QED BY <2>1, <2>2, <2>3
<1>11. EscapeTail = O \cup Then(U, V)
  BY <1>3, <1>4, <1>5, <1>6, <1>9 DEF EscapeTail, U
<1>12. Then(U, V) = Then(U, S) \cup Then(U, Then(H, E))
  <2>1. Then(H, E) \in SUBSET Text
    BY ThenLanguage
  <2> QED BY <1>2, <1>9, <2>1, ThenUnionRight
<1>13. Then(K, EscapeTail) = Then(K, O) \cup Then(K, Then(U, S)) \cup Then(K, Then(U, Then(H, E)))
  <2>1. PICK A \in SUBSET Text : A = Then(U, S)
    BY ThenLanguage
  <2>2. PICK B \in SUBSET Text : B = Then(U, Then(H, E))
    BY ThenLanguage
  <2>3. Then(K, A \cup B) = Then(K, A) \cup Then(K, B)
    BY <1>2, ThenUnionRight
  <2>4. PICK C \in SUBSET Text : C = A \cup B
    OBVIOUS
  <2>5. Then(K, O \cup C) = Then(K, O) \cup Then(K, C)
    BY <1>2, ThenUnionRight
  <2> QED BY <1>11, <1>12, <2>1, <2>2, <2>3, <2>4, <2>5
<1>14. PICK T \in SUBSET Text : T = EscapeTail
  BY DerivEscapeTail
<1>15. ReadCharacter = P \cup Then(K, T)
  BY <1>8, <1>10, <1>13, <1>14
<1>16. /\ Then(K, T) \in SUBSET Text /\ Empty \notin Then(K, T)
       /\ Deriv(c, Then(K, T)) = IF c = Backslash THEN T ELSE {}
  BY <1>1, DerivLed DEF K
<1>17. Deriv(c, P \cup Then(K, T)) = Deriv(c, P) \cup Deriv(c, Then(K, T))
  BY DerivUnion
<1> QED BY <1>1, <1>7, <1>14, <1>15, <1>16, <1>17

-----------------------------------------------------------------------------
(* Languages compared on their short texts: the rules of the grammar bring  *)
(* more texts of a length only from texts that are no longer.              *)

Short(n) == {t \in Text : Len(t) <= n}

\* The texts of A that are no longer than n are in B.
Within(n, A, B) == A \cap Short(n) \subseteq B

LEMMA ShortJoin ==
  ASSUME NEW n \in Nat, NEW a \in Text, NEW b \in Text
  PROVE  /\ Join(a, b) \in Short(n) => a \in Short(n) /\ b \in Short(n)
         /\ a # Empty /\ Join(a, b) \in Short(n + 1) => b \in Short(n)
<1>1. PICK i \in Nat : i = Len(a)
  BY LenText
<1>2. PICK j \in Nat : j = Len(b)
  BY LenText
<1>3. PICK k \in Nat : k = Len(Join(a, b))
  BY JoinText, LenText
<1>4. k = i + j
  BY <1>1, <1>2, <1>3, LenJoin
<1>5. a # Empty => i # 0
  BY <1>1, LenText
<1>6. Join(a, b) \in Short(n) => k <= n
  BY <1>3 DEF Short
<1>7. Join(a, b) \in Short(n + 1) => k <= n + 1
  BY <1>3 DEF Short
<1>8. (i <= n => a \in Short(n)) /\ (j <= n => b \in Short(n))
  BY <1>1, <1>2 DEF Short
<1> QED BY <1>4, <1>5, <1>6, <1>7, <1>8

LEMMA ShortAhead ==
  ASSUME NEW n \in Nat, NEW c \in AllChars, NEW u \in Text, Ahead(c, u) \in Short(n + 1)
  PROVE  u \in Short(n)
<1>1. PICK i \in Nat : i = Len(u)
  BY LenText
<1>2. Len(Ahead(c, u)) = i + 1
  BY <1>1, AheadText
<1>3. Len(Ahead(c, u)) <= n + 1
  BY DEF Short
<1>4. i <= n
  BY <1>2, <1>3
<1> QED BY <1>1, <1>4 DEF Short

LEMMA ShortAll ==
  /\ Short(0) \subseteq {Empty}
  /\ \A n \in Nat : Short(n) \subseteq Short(n + 1)
  /\ \A t \in Text : Len(t) \in Nat /\ t \in Short(Len(t))
<1>1. Short(0) \subseteq {Empty}
  <2> SUFFICES ASSUME NEW t \in Short(0) PROVE t = Empty
    OBVIOUS
  <2>1. t \in Text /\ Len(t) <= 0
    BY DEF Short
  <2>2. PICK i \in Nat : i = Len(t)
    BY <2>1, LenText
  <2>3. i = 0
    BY <2>1, <2>2
  <2> QED BY <2>1, <2>2, <2>3, LenText
<1>2. ASSUME NEW n \in Nat, NEW t \in Short(n) PROVE t \in Short(n + 1)
  <2>1. t \in Text /\ Len(t) <= n
    BY DEF Short
  <2>2. PICK i \in Nat : i = Len(t)
    BY <2>1, LenText
  <2>3. i <= n + 1
    BY <2>1, <2>2
  <2> QED BY <2>1, <2>2, <2>3 DEF Short
<1>3. ASSUME NEW t \in Text PROVE Len(t) \in Nat /\ t \in Short(Len(t))
  <2>1. PICK i \in Nat : i = Len(t)
    BY LenText
  <2>2. i <= i
    OBVIOUS
  <2> QED BY <2>1, <2>2 DEF Short
<1> QED BY <1>1, <1>2, <1>3

LEMMA WithinThen ==
  ASSUME NEW n \in Nat, NEW A \in SUBSET Text, NEW B \in SUBSET Text,
         NEW C \in SUBSET Text, NEW D \in SUBSET Text, Within(n, A, C), Within(n, B, D)
  PROVE  Within(n, Then(A, B), Then(C, D))
<1> SUFFICES ASSUME NEW t \in Then(A, B), t \in Short(n) PROVE t \in Then(C, D)
  BY DEF Within
<1>1. PICK a \in A, b \in B : t = Join(a, b)
  BY ThenIff
<1>2. a \in Text /\ b \in Text
  OBVIOUS
<1>3. a \in Short(n) /\ b \in Short(n)
  BY <1>1, <1>2, ShortJoin
<1>4. a \in C /\ b \in D
  BY <1>3 DEF Within
<1> QED BY <1>1, <1>4, ThenIff

LEMMA WithinStar ==
  ASSUME NEW n \in Nat, NEW A \in SUBSET Text, NEW B \in SUBSET Text, Within(n, A, B)
  PROVE  Within(n, Star(A), Star(B))
<1> DEFINE M == {m \in Nat : Star(A) \cap Short(m) \cap Short(n) \subseteq Star(B)}
<1>1. 0 \in M
  BY ShortAll, StarIff
<1>2. ASSUME NEW m \in Nat, m \in M PROVE m + 1 \in M
  <2>1. ASSUME NEW t \in Star(A), t \in Short(m + 1), t \in Short(n) PROVE t \in Star(B)
    <3>1. CASE t = Empty
      BY <3>1, StarIff
    <3>2. CASE t # Empty
      <4>1. PICK a \in A, u \in Star(A) : a # Empty /\ t = Join(a, u)
        BY <3>2, StarIff
      <4>2. a \in Text /\ u \in Text
        BY StarIff
      <4>3. a \in Short(n) /\ u \in Short(n) /\ u \in Short(m)
        BY <2>1, <4>1, <4>2, ShortJoin
      <4>4. a \in B /\ u \in Star(B)
        BY <1>2, <4>3 DEF Within
      <4> QED BY <4>1, <4>4, StarIff
    <3> QED BY <3>1, <3>2
  <2> QED BY <2>1
<1> HIDE DEF M
<1>3. n \in M
  BY <1>1, <1>2, AllNumbers
<1> QED BY <1>3 DEF M, Within

LEMMA WithinEnclosed ==
  ASSUME NEW n \in Nat, NEW A \in SUBSET Text, NEW B \in SUBSET Text, Within(n, A, B),
         NEW open \in AllChars, NEW close \in AllChars
  PROVE  Within(n + 1, Enclosed(open, A, close), Enclosed(open, B, close))
<1> SUFFICES ASSUME NEW t \in Enclosed(open, A, close), t \in Short(n + 1)
             PROVE  t \in Enclosed(open, B, close)
  BY DEF Within
<1>1. PICK a \in A : t = Ahead(open, Join(a, << close >>))
  BY EnclosedIff
<1>2. PICK u \in Text : u = Join(a, << close >>)
  BY OneText, JoinText
<1>3. u \in Short(n)
  BY <1>1, <1>2, ShortAhead
<1>4. a \in Short(n)
  <2>1. a \in Text /\ << close >> \in Text
    BY OneText
  <2> QED BY <1>2, <1>3, <2>1, ShortJoin
<1>5. a \in B
  BY <1>4 DEF Within
<1> QED BY <1>1, <1>5, EnclosedIff

LEMMA WithinUnion ==
  \A n, A, B, C, D : Within(n, A, C) /\ Within(n, B, D) => Within(n, A \cup B, C \cup D)
BY DEF Within

LEMMA WithinSame == \A n, A, B : A \subseteq B => Within(n, A, B)
BY DEF Within

LEMMA WithinAll ==
  ASSUME NEW A \in SUBSET Text, NEW B, \A n \in Nat : Within(n, A, B)
  PROVE  A \subseteq B
BY ShortAll DEF Within

LEMMA WithinPadded ==
  ASSUME NEW n \in Nat, NEW A \in SUBSET Text, NEW B \in SUBSET Text, Within(n, A, B)
  PROVE  /\ Padded(A) \in SUBSET Text
         /\ Within(n, Padded(A), Padded(B))
<1>1. Spaces \in SUBSET Text /\ Within(n, Spaces, Spaces)
  BY WithinSame DEF Spaces, Only
<1>2. PICK C \in SUBSET Text : C = Then(A, Spaces)
  BY ThenLanguage
<1>3. PICK D \in SUBSET Text : D = Then(B, Spaces)
  BY ThenLanguage
<1>4. Within(n, C, D)
  BY <1>1, <1>2, <1>3, WithinThen
<1>5. Within(n, Then(Spaces, C), Then(Spaces, D))
  BY <1>1, <1>4, WithinThen
<1> QED BY <1>2, <1>3, <1>5, ThenLanguage DEF Padded

LEMMA WithinListed ==
  ASSUME NEW n \in Nat, NEW A \in SUBSET Text, NEW B \in SUBSET Text, Within(n, A, B)
  PROVE  /\ Listed(A) \in SUBSET Text
         /\ Within(n, Listed(A), Listed(B))
<1>1. PICK K \in SUBSET Text : K = OneOf({","})
  BY DerivOneOf DEF AllChars
<1>2. Within(n, K, K)
  BY WithinSame
<1>3. PICK C \in SUBSET Text : C = Then(K, A)
  BY ThenLanguage
<1>4. PICK D \in SUBSET Text : D = Then(K, B)
  BY ThenLanguage
<1>5. Within(n, C, D)
  BY <1>2, <1>3, <1>4, WithinThen
<1>6. PICK E \in SUBSET Text : E = Star(C)
  BY StarIff
<1>7. PICK F \in SUBSET Text : F = Star(D)
  BY StarIff
<1>8. Within(n, E, F)
  BY <1>5, <1>6, <1>7, WithinStar
<1>9. Within(n, Then(A, E), Then(B, F))
  BY <1>8, WithinThen
<1> QED BY <1>1, <1>3, <1>4, <1>6, <1>7, <1>9, ThenLanguage DEF Listed

LEMMA WithinMember ==
  ASSUME NEW n \in Nat, NEW S \in SUBSET Text, NEW Q \in SUBSET Text, Within(n, S, Q),
         NEW A \in SUBSET Text, NEW B \in SUBSET Text, Within(n, A, B)
  PROVE  /\ Member(S, A) \in SUBSET Text
         /\ Within(n, Member(S, A), Member(Q, B))
<1>1. PICK K \in SUBSET Text : K = OneOf({":"})
  BY DerivOneOf DEF AllChars
<1>2. Within(n, K, K)
  BY WithinSame
<1>3. PICK PS \in SUBSET Text : PS = Padded(S)
  BY WithinPadded
<1>4. PICK PQ \in SUBSET Text : PQ = Padded(Q)
  BY WithinSame, WithinPadded
<1>5. PICK PA \in SUBSET Text : PA = Padded(A)
  BY WithinPadded
<1>6. PICK PB \in SUBSET Text : PB = Padded(B)
  BY WithinSame, WithinPadded
<1>7. Within(n, PS, PQ) /\ Within(n, PA, PB)
  BY <1>3, <1>4, <1>5, <1>6, WithinPadded
<1>8. PICK C \in SUBSET Text : C = Then(K, PA)
  BY ThenLanguage
<1>9. PICK D \in SUBSET Text : D = Then(K, PB)
  BY ThenLanguage
<1>10. Within(n, C, D)
  BY <1>2, <1>7, <1>8, <1>9, WithinThen
<1>11. Within(n, Then(PS, C), Then(PQ, D))
  BY <1>7, <1>10, WithinThen
<1> QED BY <1>1, <1>3, <1>4, <1>5, <1>6, <1>8, <1>9, <1>11, ThenLanguage DEF Member

-----------------------------------------------------------------------------
(* Values.  The function that Values is defined by exists, and Values is   *)
(* what its rule says of it.                                               *)

Composite(S, V) == S \cup Arrays(V) \cup Objects(S, V)
ValueRule(N, S, V) == LiteralNames \cup N \cup Composite(S, V)

LEMMA LiteralTexts == LiteralNames \in SUBSET Text
<1>4. \A a, b, c, d \in AllChars : << a, b, c, d >> \in Text
  BY DEF Text
<1>5. \A a, b, c, d, e \in AllChars : << a, b, c, d, e >> \in Text
  BY DEF Text
<1>6. {"t", "r", "u", "e", "f", "a", "l", "s", "n"} \subseteq AllChars
  BY DEF AllChars, NumberChars, Exponent
<1>1. << "t", "r", "u", "e" >> \in Text
  BY <1>4, <1>6
<1>2. << "f", "a", "l", "s", "e" >> \in Text
  BY <1>5, <1>6
<1>3. << "n", "u", "l", "l" >> \in Text
  BY <1>4, <1>6
<1> QED BY <1>1, <1>2, <1>3, Zenon DEF LiteralNames

LEMMA Brackets == /\ "[" \in AllChars /\ "]" \in AllChars /\ "{" \in AllChars /\ "}" \in AllChars
                  /\ "," \in AllChars /\ ":" \in AllChars /\ Quote \in AllChars
                  /\ Backslash \in AllChars /\ "sp" \in AllChars
BY DEF AllChars

LEMMA SpacesText == Spaces \in SUBSET Text /\ Empty \in Spaces
<1>1. {"sp"} \in SUBSET AllChars
  BY Brackets
<1> QED BY <1>1, Brackets, DerivOnly DEF Spaces

\* What the brackets of an array and of an object hold.
Items(V) == Spaces \cup Listed(Padded(V))
Fields(S, V) == Spaces \cup Listed(Member(S, V))

LEMMA ItemsWithin ==
  ASSUME NEW n \in Nat, NEW S \in SUBSET Text, NEW Q \in SUBSET Text, S \subseteq Q,
         NEW A \in SUBSET Text, NEW B \in SUBSET Text, Within(n, A, B)
  PROVE  /\ Items(A) \in SUBSET Text /\ Within(n, Items(A), Items(B))
         /\ Fields(S, A) \in SUBSET Text /\ Within(n, Fields(S, A), Fields(Q, B))
<1>1. Within(n, Spaces, Spaces) /\ Within(n, S, Q)
  BY WithinSame
<1>2. PICK PA \in SUBSET Text : PA = Padded(A)
  BY WithinPadded
<1>3. PICK PB \in SUBSET Text : PB = Padded(B)
  BY WithinSame, WithinPadded
<1>4. Within(n, PA, PB)
  BY <1>2, <1>3, WithinPadded
<1>5. Listed(PA) \in SUBSET Text /\ Within(n, Listed(PA), Listed(PB))
  BY <1>4, WithinListed
<1>6. Within(n, Spaces \cup Listed(PA), Spaces \cup Listed(PB))
  BY <1>1, <1>5, WithinUnion
<1>7. PICK MA \in SUBSET Text : MA = Member(S, A)
  BY ThenLanguage DEF Member
<1>8. PICK MB \in SUBSET Text : MB = Member(Q, B)
  BY ThenLanguage DEF Member
<1>9. Within(n, MA, MB)
  BY <1>1, <1>7, <1>8, WithinMember
<1>10. Listed(MA) \in SUBSET Text /\ Within(n, Listed(MA), Listed(MB))
  BY <1>9, WithinListed
<1>11. Within(n, Spaces \cup Listed(MA), Spaces \cup Listed(MB))
  BY <1>1, <1>10, WithinUnion
<1> QED BY <1>2, <1>3, <1>5, <1>6, <1>7, <1>8, <1>10, <1>11, SpacesText DEF Items, Fields

LEMMA RuleWithin ==
  ASSUME NEW n \in Nat, NEW S \in SUBSET Text, NEW Q \in SUBSET Text, S \subseteq Q,
         NEW A \in SUBSET Text, NEW B \in SUBSET Text, Within(n, A, B),
         NEW M, NEW N, M \subseteq N
  PROVE  /\ Within(n + 1, Composite(S, A), Composite(Q, B))
         /\ Within(n + 1, ValueRule(M, S, A), ValueRule(N, Q, B))
<1>1. PICK IA \in SUBSET Text : IA = Items(A)
  BY ItemsWithin
<1>2. PICK IB \in SUBSET Text : IB = Items(B)
  <2>1. Within(n, B, B) /\ Q \subseteq Q
    BY WithinSame
  <2> QED BY <2>1, ItemsWithin
<1>3. PICK FA \in SUBSET Text : FA = Fields(S, A)
  BY ItemsWithin
<1>4. PICK FB \in SUBSET Text : FB = Fields(Q, B)
  <2>1. Within(n, B, B) /\ Q \subseteq Q
    BY WithinSame
  <2> QED BY <2>1, ItemsWithin
<1>5. Within(n, IA, IB) /\ Within(n, FA, FB)
  BY <1>1, <1>2, <1>3, <1>4, ItemsWithin
<1>6. Within(n + 1, Arrays(A), Arrays(B))
  <2>1. Within(n + 1, Enclosed("[", IA, "]"), Enclosed("[", IB, "]"))
    BY <1>5, Brackets, WithinEnclosed
  <2> QED BY <1>1, <1>2, <2>1 DEF Arrays, Items
<1>7. Within(n + 1, Objects(S, A), Objects(Q, B))
  <2>1. Within(n + 1, Enclosed("{", FA, "}"), Enclosed("{", FB, "}"))
    BY <1>5, Brackets, WithinEnclosed
  <2> QED BY <1>3, <1>4, <2>1 DEF Objects, Fields
<1>8. Within(n + 1, Composite(S, A), Composite(Q, B))
  BY <1>6, <1>7 DEF Within, Composite
<1> QED BY <1>8 DEF Within, ValueRule

LEMMA RuleText ==
  ASSUME NEW N \in SUBSET Text, NEW S \in SUBSET Text, NEW V
  PROVE  /\ ValueRule(N, S, V) \in SUBSET Text /\ Composite(S, V) \in SUBSET Text
         /\ Arrays(V) \in SUBSET Text /\ Objects(S, V) \in SUBSET Text
<1>1. Arrays(V) \in SUBSET Text /\ Objects(S, V) \in SUBSET Text
  BY DEF Arrays, Objects, Enclosed
<1> QED BY <1>1, LiteralTexts DEF ValueRule, Composite

LEMMA RuleMonotone ==
  ASSUME NEW N \in SUBSET Text, NEW S \in SUBSET Text,
         NEW A \in SUBSET Text, NEW B \in SUBSET Text, A \subseteq B
  PROVE  ValueRule(N, S, A) \subseteq ValueRule(N, S, B)
<1> SUFFICES ASSUME NEW t \in ValueRule(N, S, A) PROVE t \in ValueRule(N, S, B)
  OBVIOUS
<1>1. t \in Text
  BY RuleText
<1>2. PICK n \in Nat : n = Len(t)
  BY <1>1, ShortAll
<1>3. t \in Short(n + 1)
  BY <1>1, <1>2, ShortAll
<1>4. Within(n, A, B)
  BY WithinSame
<1>5. Within(n + 1, ValueRule(N, S, A), ValueRule(N, S, B))
  BY <1>4, RuleWithin
<1> QED BY <1>3, <1>5 DEF Within

IsValue(N, S, f) == f = [t \in Text |-> t \in ValueRule(N, S, {u \in Text : f[u]})]

LEMMA ValueExists ==
  ASSUME NEW N \in SUBSET Text, NEW S \in SUBSET Text
  PROVE  \E f : IsValue(N, S, f)
<1> DEFINE Closed(L) == L \in SUBSET Text /\ ValueRule(N, S, L) \subseteq L
           K == {t \in Text : \A L : Closed(L) => t \in L}
           f == [t \in Text |-> t \in K]
<1>1. K \in SUBSET Text
  OBVIOUS
<1>2. ValueRule(N, S, K) \subseteq K
  <2>1. ASSUME NEW t \in ValueRule(N, S, K), NEW L, Closed(L) PROVE t \in L
    <3>1. K \subseteq L
      BY <2>1
    <3> HIDE DEF K
    <3>2. ValueRule(N, S, K) \subseteq ValueRule(N, S, L)
      BY <1>1, <2>1, <3>1, RuleMonotone
    <3> QED BY <2>1, <3>2
  <2>2. ValueRule(N, S, K) \in SUBSET Text
    BY RuleText
  <2>3. \A t \in ValueRule(N, S, K) : t \in Text /\ \A L : Closed(L) => t \in L
    <3> HIDE DEF K, Closed
    <3> QED BY <2>1, <2>2
  <2> QED BY <2>3
<1>3. K \subseteq ValueRule(N, S, K)
  <2>1. PICK R \in SUBSET Text : R = ValueRule(N, S, K)
    BY RuleText
  <2>2. Closed(R)
    <3> HIDE DEF K
    <3>1. ValueRule(N, S, R) \subseteq ValueRule(N, S, K)
      BY <1>1, <1>2, <2>1, RuleMonotone
    <3> QED BY <2>1, <3>1
  <2>3. K \subseteq R
    <3> HIDE DEF Closed
    <3> QED BY <2>2
  <2> HIDE DEF K
  <2> QED BY <2>1, <2>3
<1>4. {u \in Text : f[u]} = K
  OBVIOUS
<1>5. f = [t \in Text |-> t \in ValueRule(N, S, K)]
  <2>1. ValueRule(N, S, K) = K
    <3> HIDE DEF K
    <3> QED BY <1>2, <1>3
  <2> QED BY <2>1, Zenon
<1>6. f = [t \in Text |-> t \in ValueRule(N, S, {u \in Text : f[u]})]
  <2> HIDE DEF K, f
  <2> QED BY <1>4, <1>5, Zenon
<1> HIDE DEF K, f
<1> QED BY <1>6, Zenon DEF IsValue

LEMMA ValuesRule ==
  ASSUME NEW N \in SUBSET Text, NEW S \in SUBSET Text
  PROVE  Values(N, S) \in SUBSET Text /\ Values(N, S) = ValueRule(N, S, Values(N, S))
<1> DEFINE f == CHOOSE g : IsValue(N, S, g)
<1>1. IsValue(N, S, f)
  BY ValueExists
<1>2. Values(N, S) = {t \in Text : f[t]}
  BY DEF Values, IsValue, ValueRule, Composite, f
<1> HIDE DEF f
<1>3. PICK V \in SUBSET Text : V = {t \in Text : f[t]}
  OBVIOUS
<1>4. f = [t \in Text |-> t \in ValueRule(N, S, V)]
  BY <1>1, <1>3, Zenon DEF IsValue
<1>5. \A t \in Text : t \in V <=> t \in ValueRule(N, S, V)
  BY <1>3, <1>4
<1>6. ValueRule(N, S, V) \in SUBSET Text
  BY RuleText
<1>7. V = ValueRule(N, S, V)
  BY <1>5, <1>6
<1> QED BY <1>2, <1>3, <1>7

\* More numbers and strings make more values and more documents.
LEMMA ValuesWithin ==
  ASSUME NEW M \in SUBSET Text, NEW N \in SUBSET Text, M \subseteq N,
         NEW S \in SUBSET Text, NEW Q \in SUBSET Text, S \subseteq Q
  PROVE  Values(M, S) \subseteq Values(N, Q)
<1>1. PICK V \in SUBSET Text : V = Values(M, S) /\ V = ValueRule(M, S, V)
  BY ValuesRule
<1>2. PICK W \in SUBSET Text : W = Values(N, Q) /\ W = ValueRule(N, Q, W)
  BY ValuesRule
<1> DEFINE K == {n \in Nat : Within(n, V, W)}
<1>3. 0 \in K
  <2>1. ASSUME NEW t \in V, t \in Short(0) PROVE t \in W
    <3>1. t = Empty
      BY <2>1, ShortAll
    <3>2. Empty \notin LiteralNames
      BY DEF LiteralNames, Empty
    <3>3. Empty \notin Arrays(V) /\ Empty \notin Objects(S, V)
      BY DEF Arrays, Objects, Enclosed, Empty
    <3>4. t \in M \cup S
      BY <1>1, <2>1, <3>1, <3>2, <3>3 DEF ValueRule, Composite
    <3> QED BY <1>2, <3>4 DEF ValueRule, Composite
  <2> QED BY <2>1, Zenon DEF Within
<1>4. ASSUME NEW n \in Nat, n \in K PROVE n + 1 \in K
  <2>1. Within(n + 1, ValueRule(M, S, V), ValueRule(N, Q, W))
    BY <1>4, RuleWithin
  <2> QED BY <1>1, <1>2, <2>1
<1> HIDE DEF K
<1>5. \A n \in Nat : n \in K
  BY <1>3, <1>4, AllNumbers
<1>6. V \subseteq W
  BY <1>5, WithinAll DEF K
<1> QED BY <1>1, <1>2, <1>6

-----------------------------------------------------------------------------
(* What completes an array or an object: A is what it lists.               *)

Repeated(A) == Star(Then(OneOf({","}), A))

\* Nothing is listed yet; one must follow; one was listed.
FirstOf(A, close) == Then(Spaces \cup Listed(A), OneOf({close}))
AnotherOf(A, close) == Then(Listed(A), OneOf({close}))
AfterOne(A, close) == Then(Spaces, Then(Repeated(A), OneOf({close})))

LEMMA DerivSpaces ==
  ASSUME NEW c \in AllChars
  PROVE  Deriv(c, Spaces) = IF c = "sp" THEN Spaces ELSE {}
<1>1. {"sp"} \in SUBSET AllChars
  BY Brackets
<1> QED BY <1>1, DerivOnly DEF Spaces

LEMMA DerivClose ==
  ASSUME NEW c \in AllChars, NEW d \in AllChars
  PROVE  /\ OneOf({d}) \in SUBSET Text /\ Empty \notin OneOf({d})
         /\ Deriv(c, OneOf({d})) = IF c = d THEN {Empty} ELSE {}
<1>1. {d} \in SUBSET AllChars
  OBVIOUS
<1> QED BY <1>1, DerivOneOf

\* White space in front of something that begins with none.
LEMMA DerivSpaced ==
  ASSUME NEW c \in AllChars, NEW B \in SUBSET Text
  PROVE  /\ Then(Spaces, B) \in SUBSET Text
         /\ Empty \in Then(Spaces, B) <=> Empty \in B
         /\ c = "sp" /\ Deriv(c, B) = {} => Deriv(c, Then(Spaces, B)) = Then(Spaces, B)
         /\ c # "sp" => Deriv(c, Then(Spaces, B)) = Deriv(c, B)
<1>1. Deriv(c, Then(Spaces, B)) = Then(Deriv(c, Spaces), B) \cup Deriv(c, B)
  BY SpacesText, DerivEither
<1>2. Then({}, B) = {}
  BY ThenEmpty
<1>3. Then(Spaces, B) \in SUBSET Text /\ (Empty \in Then(Spaces, B) <=> Empty \in B)
  BY ThenLanguage, SpacesText, EmptyInThen
<1>4. CASE c = "sp"
  BY <1>1, <1>3, <1>4, DerivSpaces
<1>5. CASE c # "sp"
  <2>1. Deriv(c, Spaces) = {}
    BY <1>5, DerivSpaces
  <2> QED BY <1>1, <1>2, <1>3, <1>5, <2>1
<1> QED BY <1>4, <1>5

LEMMA DerivRepeated ==
  ASSUME NEW c \in AllChars, NEW A \in SUBSET Text
  PROVE  /\ Repeated(A) \in SUBSET Text /\ Empty \in Repeated(A)
         /\ Deriv(c, Repeated(A)) = IF c = "," THEN Listed(A) ELSE {}
<1>1. PICK L \in SUBSET Text : L = Then(OneOf({","}), A)
  BY ThenLanguage
<1>2. Deriv(c, L) = IF c = "," THEN A ELSE {}
  BY <1>1, Brackets, DerivLed
<1>3. Star(L) \in SUBSET Text /\ Empty \in Star(L) /\ Deriv(c, Star(L)) = Then(Deriv(c, L), Star(L))
  BY StarIff, DerivStar
<1>4. Then({}, Star(L)) = {}
  BY <1>3, ThenEmpty
<1> QED BY <1>1, <1>2, <1>3, <1>4 DEF Repeated, Listed

LEMMA DerivAfterOne ==
  ASSUME NEW c \in AllChars, NEW A \in SUBSET Text,
         NEW close \in AllChars, close # ",", close # "sp"
  PROVE  /\ AfterOne(A, close) \in SUBSET Text /\ Empty \notin AfterOne(A, close)
         /\ Deriv(c, AfterOne(A, close)) = IF c = "sp" THEN AfterOne(A, close)
                                           ELSE IF c = "," THEN AnotherOf(A, close)
                                           ELSE IF c = close THEN {Empty} ELSE {}
<1>1. PICK K \in SUBSET Text : K = OneOf({close})
  BY DerivClose
<1>2. Empty \notin K /\ Deriv(c, K) = IF c = close THEN {Empty} ELSE {}
  BY <1>1, DerivClose
<1>3. PICK R \in SUBSET Text : R = Repeated(A)
  BY DerivRepeated
<1>4. Empty \in R /\ Deriv(c, R) = IF c = "," THEN Listed(A) ELSE {}
  BY <1>3, DerivRepeated
<1>5. PICK B \in SUBSET Text : B = Then(R, K)
  BY ThenLanguage
<1>6. Empty \notin B
  BY <1>2, <1>5, EmptyInThen
<1>7. Deriv(c, B) = Then(Deriv(c, R), K) \cup Deriv(c, K)
  <2>1. Empty \in R
    BY <1>4
  <2>2. Deriv(c, Then(R, K)) = Then(Deriv(c, R), K) \cup Deriv(c, K)
    BY <2>1, DerivEither
  <2> QED BY <1>5, <2>2
<1>8. Then({}, K) = {}
  BY ThenEmpty
<1>9. Deriv(c, B) = IF c = "," THEN Then(Listed(A), K) ELSE IF c = close THEN {Empty} ELSE {}
  BY <1>2, <1>4, <1>7, <1>8
<1>10. AfterOne(A, close) = Then(Spaces, B) /\ AnotherOf(A, close) = Then(Listed(A), K)
  BY <1>1, <1>3, <1>5 DEF AfterOne, AnotherOf
<1>11. CASE c = "sp"
  <2>1. Deriv(c, B) = {}
    BY <1>9, <1>11
  <2>2. Then(Spaces, B) \in SUBSET Text /\ Empty \notin Then(Spaces, B)
    BY <1>6, DerivSpaced
  <2>3. Deriv(c, Then(Spaces, B)) = Then(Spaces, B)
    BY <1>11, <2>1, DerivSpaced
  <2> QED BY <1>10, <1>11, <2>2, <2>3
<1>12. CASE c # "sp"
  <2>1. Then(Spaces, B) \in SUBSET Text /\ Empty \notin Then(Spaces, B)
    BY <1>6, DerivSpaced
  <2>2. Deriv(c, Then(Spaces, B)) = Deriv(c, B)
    BY <1>12, DerivSpaced
  <2> QED BY <1>9, <1>10, <1>12, <2>1, <2>2
<1> QED BY <1>11, <1>12

LEMMA DerivAnother ==
  ASSUME NEW c \in AllChars, NEW A \in SUBSET Text, Empty \notin A,
         NEW close \in AllChars, NEW B, B = Then(Repeated(A), OneOf({close}))
  PROVE  /\ AnotherOf(A, close) \in SUBSET Text /\ Empty \notin AnotherOf(A, close)
         /\ B \in SUBSET Text /\ AnotherOf(A, close) = Then(A, B)
         /\ Deriv(c, AnotherOf(A, close)) = Then(Deriv(c, A), B)
<1>1. PICK K \in SUBSET Text : K = OneOf({close})
  BY DerivClose
<1>2. PICK R \in SUBSET Text : R = Repeated(A)
  BY DerivRepeated
<1>3. B \in SUBSET Text /\ B = Then(R, K)
  BY <1>1, <1>2, ThenLanguage
<1>4. Then(Then(A, R), K) = Then(A, Then(R, K))
  BY ThenAssociative
<1>5. AnotherOf(A, close) = Then(Then(A, R), K)
  BY <1>1, <1>2 DEF AnotherOf, Listed, Repeated
<1>6. AnotherOf(A, close) = Then(A, B)
  BY <1>3, <1>4, <1>5
<1>7. Deriv(c, Then(A, B)) = Then(Deriv(c, A), B) /\ Empty \notin Then(A, B)
  <2>1. PICK W \in SUBSET Text : W = B
    BY <1>3
  <2>2. Deriv(c, Then(A, W)) = Then(Deriv(c, A), W)
    BY DerivFirst
  <2>3. Empty \notin Then(A, W)
    BY EmptyInThen
  <2> QED BY <2>1, <2>2, <2>3
<1> QED BY <1>3, <1>6, <1>7, ThenLanguage

LEMMA DerivFirstOf ==
  ASSUME NEW c \in AllChars, NEW A \in SUBSET Text, Empty \notin A, Deriv("sp", A) = A,
         NEW close \in AllChars, close # "sp"
  PROVE  /\ FirstOf(A, close) \in SUBSET Text /\ Empty \notin FirstOf(A, close)
         /\ c = "sp" => Deriv(c, FirstOf(A, close)) = FirstOf(A, close)
         /\ c = close /\ Deriv(c, A) = {} => Deriv(c, FirstOf(A, close)) = {Empty}
         /\ c # "sp" /\ c # close =>
              Deriv(c, FirstOf(A, close)) = Deriv(c, AnotherOf(A, close))
<1>1. PICK K \in SUBSET Text : K = OneOf({close})
  BY DerivClose
<1>2. Empty \notin K /\ Deriv(c, K) = IF c = close THEN {Empty} ELSE {}
  BY <1>1, DerivClose
<1>3. PICK L \in SUBSET Text : L = AnotherOf(A, close)
  BY ThenLanguage DEF AnotherOf
<1>4. PICK B \in SUBSET Text : B = Then(Repeated(A), OneOf({close}))
  BY ThenLanguage
<1>5. Empty \notin L /\ L = Then(A, B) /\ Deriv(c, L) = Then(Deriv(c, A), B)
  BY <1>3, <1>4, DerivAnother
<1>6. Listed(A) \in SUBSET Text
  BY ThenLanguage DEF Listed
<1>7. FirstOf(A, close) = Then(Spaces, K) \cup L
  <2>1. PICK W \in SUBSET Text : W = Listed(A)
    BY <1>6
  <2>2. Then(Spaces \cup W, K) = Then(Spaces, K) \cup Then(W, K)
    BY SpacesText, ThenUnion
  <2> QED BY <1>1, <1>3, <2>1, <2>2 DEF FirstOf, AnotherOf
<1>8. Deriv(c, FirstOf(A, close)) = Deriv(c, Then(Spaces, K)) \cup Deriv(c, L)
  BY <1>7, DerivUnion
<1>9. /\ Then(Spaces, K) \in SUBSET Text /\ Empty \notin Then(Spaces, K)
      /\ Deriv(c, Then(Spaces, K)) = IF c = "sp" THEN Then(Spaces, K)
                                     ELSE IF c = close THEN {Empty} ELSE {}
  BY <1>2, DerivSpaced
<1>10. Then({}, B) = {}
  BY ThenEmpty
<1>11. FirstOf(A, close) \in SUBSET Text /\ Empty \notin FirstOf(A, close)
  BY <1>5, <1>7, <1>9
<1>12. CASE c = "sp"
  <2>1. Deriv(c, L) = L
    BY <1>5, <1>12
  <2> QED BY <1>7, <1>8, <1>9, <1>11, <1>12, <2>1
<1>13. CASE c # "sp" /\ c = close
  <2>1. Deriv(c, Then(Spaces, K)) = {Empty}
    BY <1>9, <1>13
  <2>2. ASSUME Deriv(c, A) = {} PROVE Deriv(c, FirstOf(A, close)) = {Empty}
    BY <1>5, <1>8, <1>10, <2>1, <2>2
  <2> QED BY <1>11, <1>13, <2>2
<1>14. CASE c # "sp" /\ c # close
  <2>1. Deriv(c, Then(Spaces, K)) = {}
    BY <1>9, <1>14
  <2> QED BY <1>3, <1>8, <1>11, <1>14, <2>1
<1> QED BY <1>12, <1>13, <1>14

\* White space around something that begins with none.
LEMMA DerivPadded ==
  ASSUME NEW c \in AllChars, NEW A \in SUBSET Text, Empty \notin A, Deriv("sp", A) = {}
  PROVE  /\ Padded(A) \in SUBSET Text /\ Empty \notin Padded(A)
         /\ Deriv(c, Padded(A)) = IF c = "sp" THEN Padded(A) ELSE Then(Deriv(c, A), Spaces)
<1>1. PICK B \in SUBSET Text : B = Then(A, Spaces)
  BY ThenLanguage
<1>2. Deriv(c, B) = Then(Deriv(c, A), Spaces) /\ Empty \notin B
  BY <1>1, SpacesText, DerivFirst, EmptyInThen
<1>3. Then({}, Spaces) = {}
  BY SpacesText, ThenEmpty
<1> QED BY <1>1, <1>2, <1>3, DerivSpaced DEF Padded

-----------------------------------------------------------------------------
(* What completes a text, a literal and a value.                           *)

ReadValue == Values(ReadNumber, ReadString)
Element == Padded(ReadValue)
Field == Member(ReadString, ReadValue)

\* What completes a string or a key.
TextRest == Then(Star(ReadCharacter), OneOf({Quote}))

LEMMA DerivTextRest ==
  ASSUME NEW c \in AllChars
  PROVE  /\ TextRest \in SUBSET Text /\ Empty \notin TextRest
         /\ Deriv(c, TextRest) = IF c = Quote THEN {Empty}
                                 ELSE IF c = Backslash THEN Then(EscapeTail, TextRest)
                                 ELSE IF c \in Plain THEN TextRest ELSE {}
<1>1. PICK A \in SUBSET Text : A = ReadCharacter
  BY DerivCharacter
<1>2. PICK R \in SUBSET Text : R = Star(A)
  BY StarIff
<1>3. PICK K \in SUBSET Text : K = OneOf({Quote})
  BY Brackets, DerivClose
<1>4. Empty \notin K /\ Deriv(c, K) = IF c = Quote THEN {Empty} ELSE {}
  BY <1>3, Brackets, DerivClose
<1>5. Empty \in R /\ Deriv(c, R) = Then(Deriv(c, A), R)
  BY <1>2, StarIff, DerivStar
<1>6. PICK T \in SUBSET Text : T = Then(R, K)
  BY ThenLanguage
<1>7. T = TextRest
  BY <1>1, <1>2, <1>3, <1>6 DEF TextRest
<1>8. Deriv(c, T) = Then(Deriv(c, R), K) \cup Deriv(c, K)
  <2>1. Empty \in R
    BY <1>5
  <2>2. Deriv(c, Then(R, K)) = Then(Deriv(c, R), K) \cup Deriv(c, K)
    BY <2>1, DerivEither
  <2> QED BY <1>6, <2>2
<1>9. Deriv(c, A) = IF c \in Plain THEN {Empty} ELSE IF c = Backslash THEN EscapeTail ELSE {}
  BY <1>1, DerivCharacter
<1>10. Then({}, R) = {} /\ Then({}, K) = {} /\ Then({Empty}, R) = R
  BY ThenEmpty
<1>11. Then(Then(EscapeTail, R), K) = Then(EscapeTail, T)
  <2>1. EscapeTail \in SUBSET Text
    BY DerivEscapeTail
  <2> QED BY <1>6, <2>1, ThenAssociative
<1>12. Quote # Backslash /\ Quote \notin Plain /\ Backslash \notin Plain
  BY DEF Plain, Quote, Backslash
<1>13. Empty \notin T
  BY <1>4, <1>6, EmptyInThen
<1>14. CASE c = Quote
  <2>1. Deriv(c, R) = {}
    BY <1>5, <1>9, <1>10, <1>12, <1>14
  <2> QED BY <1>4, <1>7, <1>8, <1>10, <1>13, <1>14, <2>1
<1>15. CASE c = Backslash
  <2>1. Deriv(c, R) = Then(EscapeTail, R)
    BY <1>5, <1>9, <1>12, <1>15
  <2> QED BY <1>4, <1>7, <1>8, <1>11, <1>12, <1>13, <1>15, <2>1
<1>16. CASE c \in Plain
  <2>1. Deriv(c, R) = R
    BY <1>5, <1>9, <1>10, <1>16
  <2> QED BY <1>4, <1>6, <1>7, <1>8, <1>12, <1>13, <1>16, <2>1
<1>17. CASE c \notin {Quote, Backslash} \cup Plain
  <2>1. Deriv(c, R) = {}
    BY <1>5, <1>9, <1>10, <1>17
  <2> QED BY <1>4, <1>7, <1>8, <1>10, <1>13, <1>17, <2>1
<1> QED BY <1>14, <1>15, <1>16, <1>17

LEMMA ReadStringIs == ReadString = Enclosed(Quote, Star(ReadCharacter), Quote)
<1>1. \A A : Strings(A) = Enclosed(Quote, Star(A), Quote)
  BY DEF Strings
<1>2. ReadString = Strings(ReadCharacter)
  BY DEF ReadString, ReadCharacter, Single, High, Low
<1> QED BY <1>1, <1>2

LEMMA DerivReadString ==
  ASSUME NEW c \in AllChars
  PROVE  /\ ReadString \in SUBSET Text /\ Empty \notin ReadString
         /\ Deriv(c, ReadString) = IF c = Quote THEN TextRest ELSE {}
<1>1. ReadString = Enclosed(Quote, Star(ReadCharacter), Quote)
  BY ReadStringIs
<1>2. PICK R \in SUBSET Text : R = Star(ReadCharacter)
  BY DerivCharacter, StarIff
<1>3. /\ Enclosed(Quote, R, Quote) \in SUBSET Text /\ Empty \notin Enclosed(Quote, R, Quote)
      /\ Deriv(c, Enclosed(Quote, R, Quote)) = IF c = Quote THEN Then(R, OneOf({Quote})) ELSE {}
  BY Brackets, DerivEnclosed
<1> QED BY <1>1, <1>2, <1>3 DEF TextRest

\* What is left of a literal in each of its consumers.
LiteralRest ==
  [falsef |-> << "a", "l", "s", "e" >>, falsea |-> << "l", "s", "e" >>,
   falsel |-> << "s", "e" >>, falses |-> << "e" >>,
   truet |-> << "r", "u", "e" >>, truer |-> << "u", "e" >>, trueu |-> << "e" >>,
   nulln |-> << "u", "l", "l" >>, nullu |-> << "l", "l" >>, nulll |-> << "l" >>]

LEMMA DerivWord ==
  ASSUME NEW c \in AllChars, NEW d \in AllChars, NEW u \in Text
  PROVE  Deriv(c, {Ahead(d, u)}) = IF c = d THEN {u} ELSE {}
<1>1. ASSUME NEW t \in Text PROVE Ahead(c, t) = Ahead(d, u) <=> c = d /\ t = u
  BY AheadInjective
<1> QED BY <1>1 DEF Deriv

LEMMA PairAhead ==
  ASSUME NEW a \in AllChars, NEW b \in AllChars
  PROVE  << a, b >> = Ahead(a, << b >>)
<1>1. << a >> \in Seq(AllChars) /\ << b >> \in Seq(AllChars)
  OBVIOUS
<1>5. << a >> \o << b >> \in Seq(AllChars)
  BY <1>1
<1>2. PICK t \in Seq(AllChars) : t = << a >> \o << b >>
  BY <1>5
<1>3. Len(t) = 2 /\ t[1] = a /\ t[2] = b
  BY <1>1, <1>2
<1>4. << a, b >> = t
  BY <1>3
<1> QED BY <1>2, <1>4 DEF Ahead

LEMMA WordAhead ==
  /\ \A a \in AllChars : << a >> = Ahead(a, Empty)
  /\ \A a, b \in AllChars : << a, b >> = Ahead(a, << b >>)
  /\ \A a, b, d \in AllChars : << a, b, d >> = Ahead(a, << b, d >>)
  /\ \A a, b, d, e \in AllChars : << a, b, d, e >> = Ahead(a, << b, d, e >>)
  /\ \A a, b, d, e, f \in AllChars : << a, b, d, e, f >> = Ahead(a, << b, d, e, f >>)
<1>1. \A a \in AllChars : << a >> = Ahead(a, Empty)
  BY DEF Ahead, Empty
<1>2. \A a, b \in AllChars : << a, b >> = Ahead(a, << b >>)
  BY PairAhead
<1>3. \A a, b, d \in AllChars : << a, b, d >> = Ahead(a, << b, d >>)
  BY DEF Ahead
<1>4. \A a, b, d, e \in AllChars : << a, b, d, e >> = Ahead(a, << b, d, e >>)
  BY DEF Ahead
<1>5. ASSUME NEW a \in AllChars, NEW b \in AllChars, NEW d \in AllChars,
             NEW e \in AllChars, NEW f \in AllChars
      PROVE  << a, b, d, e, f >> = Ahead(a, << b, d, e, f >>)
  BY DEF Ahead
<1>6. \A a, b, d, e, f \in AllChars : << a, b, d, e, f >> = Ahead(a, << b, d, e, f >>)
  BY <1>5
<1> QED BY <1>1, <1>2, <1>3, <1>4, <1>6

LEMMA LiteralTails ==
  /\ DOMAIN LiteralRest = Literals
  /\ \A f \in Literals : LiteralRest[f] \in Text
  /\ \A f \in DOMAIN LiteralArcs :
       /\ f \in Literals /\ LiteralArcs[f][1] \in AllChars /\ LiteralArcs[f][2] \in Literals
       /\ LiteralRest[f] = Ahead(LiteralArcs[f][1], LiteralRest[LiteralArcs[f][2]])
  /\ \A f \in DOMAIN LiteralEnds :
       /\ f \in Literals /\ LiteralEnds[f][1] \in AllChars
       /\ LiteralRest[f] = Ahead(LiteralEnds[f][1], Empty)
<1>1. \A a \in AllChars : << a >> \in Text
  BY DEF Text
<1>2. \A a, b \in AllChars : << a, b >> \in Text
  BY DEF Text
<1>3. \A a, b, d \in AllChars : << a, b, d >> \in Text
  BY DEF Text
<1>4. \A a, b, d, e \in AllChars : << a, b, d, e >> \in Text
  BY DEF Text
<1>5. {"r", "u", "e", "a", "l", "s"} \subseteq AllChars
  BY DEF AllChars, NumberChars, Exponent
<1>6. DOMAIN LiteralRest = Literals
  BY DEF LiteralRest, Literals
<1>7. \A f \in Literals : LiteralRest[f] \in Text
  BY <1>1, <1>2, <1>3, <1>4, <1>5 DEF LiteralRest, Literals
<1>10. /\ << "a", "l", "s", "e" >> = Ahead("a", << "l", "s", "e" >>)
       /\ << "l", "s", "e" >> = Ahead("l", << "s", "e" >>)
       /\ << "s", "e" >> = Ahead("s", << "e" >>) /\ << "e" >> = Ahead("e", Empty)
       /\ << "r", "u", "e" >> = Ahead("r", << "u", "e" >>)
       /\ << "u", "e" >> = Ahead("u", << "e" >>)
       /\ << "u", "l", "l" >> = Ahead("u", << "l", "l" >>)
       /\ << "l", "l" >> = Ahead("l", << "l" >>) /\ << "l" >> = Ahead("l", Empty)
  BY <1>5, WordAhead
<1>8. ASSUME NEW f \in DOMAIN LiteralArcs
      PROVE  /\ f \in Literals /\ LiteralArcs[f][1] \in AllChars /\ LiteralArcs[f][2] \in Literals
             /\ LiteralRest[f] = Ahead(LiteralArcs[f][1], LiteralRest[LiteralArcs[f][2]])
  <2>1. /\ f \in Literals /\ LiteralArcs[f][1] \in AllChars /\ LiteralArcs[f][2] \in Literals
    BY <1>5 DEF LiteralArcs, Literals
  <2>2. LiteralRest[f] = Ahead(LiteralArcs[f][1], LiteralRest[LiteralArcs[f][2]])
    <3>1. /\ LiteralRest["falsef"] = Ahead("a", LiteralRest["falsea"])
          /\ LiteralRest["falsea"] = Ahead("l", LiteralRest["falsel"])
          /\ LiteralRest["falsel"] = Ahead("s", LiteralRest["falses"])
      BY <1>10 DEF LiteralRest
    <3>2. /\ LiteralRest["truet"] = Ahead("r", LiteralRest["truer"])
          /\ LiteralRest["truer"] = Ahead("u", LiteralRest["trueu"])
      BY <1>10 DEF LiteralRest
    <3>3. /\ LiteralRest["nulln"] = Ahead("u", LiteralRest["nullu"])
          /\ LiteralRest["nullu"] = Ahead("l", LiteralRest["nulll"])
      BY <1>10 DEF LiteralRest
    <3> QED BY <3>1, <3>2, <3>3 DEF LiteralArcs
  <2> QED BY <2>1, <2>2
<1>9. ASSUME NEW f \in DOMAIN LiteralEnds
      PROVE  /\ f \in Literals /\ LiteralEnds[f][1] \in AllChars
             /\ LiteralRest[f] = Ahead(LiteralEnds[f][1], Empty)
  <2>1. f \in Literals /\ LiteralEnds[f][1] \in AllChars
    BY <1>5 DEF LiteralEnds, Literals
  <2>2. LiteralRest[f] = Ahead(LiteralEnds[f][1], Empty)
    BY <1>10 DEF LiteralEnds, LiteralRest
  <2> QED BY <2>1, <2>2
<1> QED BY <1>6, <1>7, <1>8, <1>9

LEMMA DerivLiteralNames ==
  ASSUME NEW c \in AllChars
  PROVE  /\ Empty \notin LiteralNames
         /\ Deriv(c, LiteralNames) = IF c = "t" THEN {LiteralRest["truet"]}
                                     ELSE IF c = "f" THEN {LiteralRest["falsef"]}
                                     ELSE IF c = "n" THEN {LiteralRest["nulln"]} ELSE {}
<1> DEFINE T == LiteralRest["truet"]
           F == LiteralRest["falsef"]
           N == LiteralRest["nulln"]
<1>1. T \in Text /\ F \in Text /\ N \in Text
  BY LiteralTails DEF Literals
<1>2. {"t", "r", "u", "e", "f", "a", "l", "s", "n"} \subseteq AllChars
  BY DEF AllChars, NumberChars, Exponent
<1>3. LiteralNames = {Ahead("t", T)} \cup {Ahead("f", F)} \cup {Ahead("n", N)}
  <2>1. T = << "r", "u", "e" >> /\ F = << "a", "l", "s", "e" >> /\ N = << "u", "l", "l" >>
    BY DEF LiteralRest
  <2> HIDE DEF T, F, N
  <2>2. << "t", "r", "u", "e" >> = Ahead("t", T)
    BY <2>1 DEF Ahead
  <2>3. << "f", "a", "l", "s", "e" >> = Ahead("f", F)
    BY <2>1 DEF Ahead
  <2>4. << "n", "u", "l", "l" >> = Ahead("n", N)
    BY <2>1 DEF Ahead
  <2>5. LiteralNames = {Ahead("t", T), Ahead("f", F), Ahead("n", N)}
    BY <2>2, <2>3, <2>4, Zenon DEF LiteralNames
  <2> QED BY <2>5
<1> HIDE DEF T, F, N
<1>4. "t" \in AllChars /\ "f" \in AllChars /\ "n" \in AllChars
  BY <1>2
<1>5. Empty \notin LiteralNames
  BY <1>1, <1>3, <1>4, AheadText
<1>6. Deriv(c, LiteralNames) =
        Deriv(c, {Ahead("t", T)}) \cup Deriv(c, {Ahead("f", F)}) \cup Deriv(c, {Ahead("n", N)})
  BY <1>3 DEF Deriv
<1>7. /\ Deriv(c, {Ahead("t", T)}) = IF c = "t" THEN {T} ELSE {}
      /\ Deriv(c, {Ahead("f", F)}) = IF c = "f" THEN {F} ELSE {}
      /\ Deriv(c, {Ahead("n", N)}) = IF c = "n" THEN {N} ELSE {}
  BY <1>1, <1>4, DerivWord
<1>8. Deriv(c, LiteralNames) = IF c = "t" THEN {T} ELSE IF c = "f" THEN {F}
                               ELSE IF c = "n" THEN {N} ELSE {}
  BY <1>6, <1>7
<1> QED BY <1>5, <1>8 DEF T, F, N

LEMMA DerivContainers ==
  ASSUME NEW c \in AllChars, NEW S \in SUBSET Text, NEW V \in SUBSET Text
  PROVE  /\ Arrays(V) \in SUBSET Text /\ Empty \notin Arrays(V)
         /\ Objects(S, V) \in SUBSET Text /\ Empty \notin Objects(S, V)
         /\ Deriv(c, Arrays(V)) = IF c = "[" THEN FirstOf(Padded(V), "]") ELSE {}
         /\ Deriv(c, Objects(S, V)) = IF c = "{" THEN FirstOf(Member(S, V), "}") ELSE {}
<1>1. PICK I \in SUBSET Text : I = Spaces \cup Listed(Padded(V))
  BY SpacesText, ThenLanguage DEF Listed
<1>2. PICK F \in SUBSET Text : F = Spaces \cup Listed(Member(S, V))
  BY SpacesText, ThenLanguage DEF Listed
<1>3. /\ Enclosed("[", I, "]") \in SUBSET Text /\ Empty \notin Enclosed("[", I, "]")
      /\ Deriv(c, Enclosed("[", I, "]")) = IF c = "[" THEN Then(I, OneOf({"]"})) ELSE {}
  BY Brackets, DerivEnclosed
<1>4. /\ Enclosed("{", F, "}") \in SUBSET Text /\ Empty \notin Enclosed("{", F, "}")
      /\ Deriv(c, Enclosed("{", F, "}")) = IF c = "{" THEN Then(F, OneOf({"}"})) ELSE {}
  BY Brackets, DerivEnclosed
<1> QED BY <1>1, <1>2, <1>3, <1>4 DEF Arrays, Objects, FirstOf

ReadComposite == Composite(ReadString, ReadValue)

LEMMA DerivReadComposite ==
  ASSUME NEW c \in AllChars
  PROVE  /\ ReadComposite \in SUBSET Text /\ Empty \notin ReadComposite
         /\ Deriv(c, ReadComposite) = IF c = Quote THEN TextRest
                                      ELSE IF c = "[" THEN FirstOf(Element, "]")
                                      ELSE IF c = "{" THEN FirstOf(Field, "}") ELSE {}
<1>1. PICK V \in SUBSET Text : V = ReadValue
  BY DerivReadNumber, DerivReadString, ValuesRule DEF ReadValue
<1>2. PICK S \in SUBSET Text : S = ReadString
  BY DerivReadString
<1>3. Empty \notin S /\ Deriv(c, S) = IF c = Quote THEN TextRest ELSE {}
  BY <1>2, DerivReadString
<1>4. PICK A \in SUBSET Text : A = Arrays(V)
  BY DerivContainers
<1>5. PICK O \in SUBSET Text : O = Objects(S, V)
  BY DerivContainers
<1>6. Empty \notin A /\ Deriv(c, A) = IF c = "[" THEN FirstOf(Element, "]") ELSE {}
  BY <1>1, <1>4, DerivContainers DEF Element
<1>7. Empty \notin O /\ Deriv(c, O) = IF c = "{" THEN FirstOf(Field, "}") ELSE {}
  BY <1>1, <1>2, <1>5, DerivContainers DEF Field
<1>8. ReadComposite = S \cup A \cup O
  BY <1>1, <1>2, <1>4, <1>5, Zenon DEF ReadComposite, Composite
<1>9. Deriv(c, ReadComposite) = Deriv(c, S) \cup Deriv(c, A) \cup Deriv(c, O)
  BY <1>8 DEF Deriv
<1>10. Quote # "[" /\ Quote # "{"
  BY DEF Quote
<1>11. ReadComposite \in SUBSET Text /\ Empty \notin ReadComposite
  BY <1>3, <1>6, <1>7, <1>8
<1>12. CASE c = Quote
  <2>1. Deriv(c, S) = TextRest /\ Deriv(c, A) = {} /\ Deriv(c, O) = {}
    BY <1>3, <1>6, <1>7, <1>10, <1>12
  <2> QED BY <1>9, <1>11, <1>12, <2>1
<1>13. CASE c # Quote
  <2>1. Deriv(c, S) = {}
    BY <1>3, <1>13
  <2> QED BY <1>6, <1>7, <1>9, <1>11, <1>13, <2>1
<1> QED BY <1>12, <1>13

LEMMA DerivReadValue ==
  ASSUME NEW c \in AllChars
  PROVE  /\ ReadValue \in SUBSET Text /\ Empty \notin ReadValue
         /\ c \in {Quote, "[", "{"} => Deriv(c, ReadValue) = Deriv(c, ReadComposite)
         /\ c = "t" => Deriv(c, ReadValue) = {LiteralRest["truet"]}
         /\ c = "f" => Deriv(c, ReadValue) = {LiteralRest["falsef"]}
         /\ c = "n" => Deriv(c, ReadValue) = {LiteralRest["nulln"]}
         /\ c = "-" => Deriv(c, ReadValue) = MinusTail
         /\ c = "0" => Deriv(c, ReadValue) = ZeroTail
         /\ c \in Digits19 => Deriv(c, ReadValue) = IntTail
         /\ c \notin CallFree \cup {Quote, "[", "{"} => Deriv(c, ReadValue) = {}
<1>1. PICK L \in SUBSET Text : L = LiteralNames
  BY LiteralTexts
<1>2. PICK N \in SUBSET Text : N = ReadNumber
  BY DerivReadNumber
<1>3. PICK C \in SUBSET Text : C = ReadComposite
  BY DerivReadComposite
<1>4. ReadValue \in SUBSET Text /\ ReadValue = L \cup N \cup C
  <2>1. /\ ReadValue \in SUBSET Text
        /\ ReadValue = ValueRule(ReadNumber, ReadString, ReadValue)
    BY DerivReadNumber, DerivReadString, ValuesRule DEF ReadValue
  <2> QED BY <1>1, <1>2, <1>3, <2>1, Zenon DEF ValueRule, ReadComposite
<1>5. Deriv(c, ReadValue) = Deriv(c, L) \cup Deriv(c, N) \cup Deriv(c, C)
  BY <1>4 DEF Deriv
<1>6. Empty \notin ReadValue
  BY <1>1, <1>2, <1>3, <1>4, DerivLiteralNames, DerivReadNumber, DerivReadComposite
<1>7. Deriv(c, L) = IF c = "t" THEN {LiteralRest["truet"]}
                    ELSE IF c = "f" THEN {LiteralRest["falsef"]}
                    ELSE IF c = "n" THEN {LiteralRest["nulln"]} ELSE {}
  BY <1>1, DerivLiteralNames
<1>8. Deriv(c, N) = IF c = "-" THEN MinusTail ELSE IF c = "0" THEN ZeroTail
                    ELSE IF c \in Digits19 THEN IntTail ELSE {}
  BY <1>2, DerivReadNumber
<1>9. Deriv(c, C) = IF c = Quote THEN TextRest ELSE IF c = "[" THEN FirstOf(Element, "]")
                    ELSE IF c = "{" THEN FirstOf(Field, "}") ELSE {}
  BY <1>3, DerivReadComposite
<1>10. CASE c \in {Quote, "[", "{"}
  <2>1. /\ c \notin {"t", "f", "n", "-", "0"} /\ c \notin Digits19
    BY <1>10 DEF Quote, Digits19
  <2>2. Deriv(c, L) = {} /\ Deriv(c, N) = {}
    BY <1>7, <1>8, <2>1
  <2> QED BY <1>3, <1>4, <1>5, <1>6, <1>10, <2>1, <2>2 DEF CallFree
<1>11. CASE c \in {"t", "f", "n"}
  <2>1. c \notin {Quote, "[", "{", "-", "0"} /\ c \notin Digits19 /\ c \in CallFree
    BY <1>11 DEF Quote, Digits19, CallFree
  <2>2. Deriv(c, C) = {} /\ Deriv(c, N) = {}
    BY <1>8, <1>9, <2>1
  <2>3. Deriv(c, ReadValue) = Deriv(c, L)
    BY <1>5, <2>2
  <2> QED BY <1>4, <1>6, <1>7, <1>11, <2>1, <2>3
<1>12. CASE c \in {"-", "0"} \cup Digits19
  <2>1. c \notin {Quote, "[", "{", "t", "f", "n"} /\ c \in CallFree
    BY <1>12 DEF Quote, Digits19, CallFree
  <2>2. Deriv(c, C) = {} /\ Deriv(c, L) = {}
    BY <1>7, <1>9, <2>1
  <2>3. Deriv(c, ReadValue) = Deriv(c, N)
    BY <1>5, <2>2
  <2>4. "-" \notin Digits19 /\ "0" \notin Digits19
    BY DEF Digits19
  <2> QED BY <1>4, <1>6, <1>8, <1>12, <2>1, <2>3, <2>4
<1>13. CASE c \notin CallFree \cup {Quote, "[", "{"}
  <2>1. c \notin {Quote, "[", "{", "t", "f", "n", "-", "0"} /\ c \notin Digits19
    BY <1>13 DEF CallFree
  <2>2. Deriv(c, C) = {} /\ Deriv(c, N) = {} /\ Deriv(c, L) = {}
    BY <1>7, <1>8, <1>9, <2>1
  <2> QED BY <1>4, <1>5, <1>6, <2>1, <2>2
<1> QED BY <1>10, <1>11, <1>12, <1>13 DEF CallFree

-----------------------------------------------------------------------------
(* What each consumer waits for.                                           *)

\* After the colon of a property; after its key.
PropertyRest == Then(Element, Then(Repeated(Field), OneOf({"}"})))
KeyRest == Then(Spaces, Then(OneOf({":"}), PropertyRest))

\* Elements of arrays.
LEMMA DerivElement ==
  ASSUME NEW c \in AllChars
  PROVE  /\ Element \in SUBSET Text /\ Empty \notin Element
         /\ Deriv("sp", Element) = Element
         /\ Deriv(c, Element) = IF c = "sp" THEN Element
                                ELSE Then(Deriv(c, ReadValue), Spaces)
<1>1. "sp" \notin CallFree \cup {Quote, "[", "{"}
  BY DEF CallFree, Digits19, Quote
<1>2. ReadValue \in SUBSET Text /\ Empty \notin ReadValue /\ Deriv("sp", ReadValue) = {}
  BY <1>1, Brackets, DerivReadValue
<1>3. \A d \in AllChars :
        /\ Padded(ReadValue) \in SUBSET Text /\ Empty \notin Padded(ReadValue)
        /\ Deriv(d, Padded(ReadValue)) = IF d = "sp" THEN Padded(ReadValue)
                                         ELSE Then(Deriv(d, ReadValue), Spaces)
  BY <1>2, DerivPadded
<1>4. \A d \in AllChars :
        /\ Element \in SUBSET Text /\ Empty \notin Element
        /\ Deriv(d, Element) = IF d = "sp" THEN Element ELSE Then(Deriv(d, ReadValue), Spaces)
  BY <1>3 DEF Element
<1> QED BY <1>4, Brackets

\* An element and what comes after it.
LEMMA DerivItem ==
  ASSUME NEW c \in AllChars, NEW B \in SUBSET Text
  PROVE  /\ Then(Element, B) \in SUBSET Text /\ Empty \notin Then(Element, B)
         /\ Deriv(c, Then(Element, B)) = IF c = "sp" THEN Then(Element, B)
                                         ELSE Then(Deriv(c, ReadValue), Then(Spaces, B))
<1>1. PICK E \in SUBSET Text : E = Element
  BY DerivElement
<1>2. /\ Empty \notin E
      /\ Deriv(c, E) = IF c = "sp" THEN E ELSE Then(Deriv(c, ReadValue), Spaces)
  BY <1>1, DerivElement
<1>3. PICK D \in SUBSET Text : D = Deriv(c, ReadValue)
  BY DerivLanguage
<1>4. Deriv(c, Then(E, B)) = Then(Deriv(c, E), B)
  BY <1>2, DerivFirst
<1>5. Then(E, B) \in SUBSET Text /\ Empty \notin Then(E, B)
  BY <1>2, ThenLanguage, EmptyInThen
<1>6. Then(Then(D, Spaces), B) = Then(D, Then(Spaces, B))
  BY SpacesText, ThenAssociative
<1> QED BY <1>1, <1>2, <1>3, <1>4, <1>5, <1>6

\* Members of objects: a key, a colon and an element.
LEMMA DerivField ==
  ASSUME NEW c \in AllChars
  PROVE  /\ Field \in SUBSET Text /\ Empty \notin Field
         /\ Deriv(c, Field) =
              IF c = "sp" THEN Field
              ELSE IF c = Quote
              THEN Then(TextRest, Then(Spaces, Then(OneOf({":"}), Element))) ELSE {}
<1>1. PICK S \in SUBSET Text : S = ReadString
  BY DerivReadString
<1>2. \A d \in AllChars :
        Empty \notin S /\ Deriv(d, S) = IF d = Quote THEN TextRest ELSE {}
  BY <1>1, DerivReadString
<1>3. "sp" # Quote
  BY DEF Quote
<1>4. Deriv("sp", S) = {} /\ Empty \notin S
  BY <1>2, <1>3, Brackets
<1>5. PICK P \in SUBSET Text : P = Padded(S)
  BY ThenLanguage DEF Padded
<1>6. Empty \notin P /\ Deriv(c, P) = IF c = "sp" THEN P ELSE Then(Deriv(c, S), Spaces)
  BY <1>4, <1>5, DerivPadded
<1>7. PICK C \in SUBSET Text : C = Then(OneOf({":"}), Element)
  BY ThenLanguage
<1>8. Field = Then(P, C)
  BY <1>1, <1>5, <1>7 DEF Field, Member, Element
<1>9. Deriv(c, Then(P, C)) = Then(Deriv(c, P), C) /\ Empty \notin Then(P, C)
  BY <1>6, DerivFirst, EmptyInThen
<1>10. Field \in SUBSET Text /\ Empty \notin Field
  BY <1>8, <1>9, ThenLanguage
<1>11. Then({}, Spaces) = {} /\ Then({}, C) = {}
  BY SpacesText, ThenEmpty
<1>12. Then(Then(TextRest, Spaces), C) = Then(TextRest, Then(Spaces, C))
  BY SpacesText, DerivTextRest, ThenAssociative
<1>13. CASE c = "sp"
  BY <1>6, <1>8, <1>9, <1>10, <1>13
<1>14. CASE c = Quote
  <2>1. Deriv(c, S) = TextRest
    BY <1>2, <1>14
  <2>2. Deriv(c, P) = Then(TextRest, Spaces)
    BY <1>3, <1>6, <1>14, <2>1
  <2> QED BY <1>3, <1>7, <1>8, <1>9, <1>10, <1>12, <1>14, <2>2
<1>15. CASE c # "sp" /\ c # Quote
  <2>1. Deriv(c, S) = {}
    BY <1>2, <1>15
  <2>2. Deriv(c, P) = {}
    BY <1>6, <1>11, <1>15, <2>1
  <2> QED BY <1>8, <1>9, <1>10, <1>11, <1>15, <2>2
<1> QED BY <1>13, <1>14, <1>15

LEMMA DerivKeyRest ==
  ASSUME NEW c \in AllChars
  PROVE  /\ KeyRest \in SUBSET Text /\ Empty \notin KeyRest
         /\ Deriv(c, KeyRest) = IF c = "sp" THEN KeyRest
                                ELSE IF c = ":"
                                THEN PropertyRest ELSE {}
<1>1. PICK B \in SUBSET Text : B = PropertyRest
  BY ThenLanguage DEF PropertyRest
<1>2. PICK C \in SUBSET Text : C = Then(OneOf({":"}), B)
  BY ThenLanguage
<1>3. Empty \notin C /\ Deriv(c, C) = IF c = ":" THEN B ELSE {}
  BY <1>2, Brackets, DerivLed
<1>4. KeyRest = Then(Spaces, C)
  BY <1>1, <1>2 DEF KeyRest
<1>5. Then(Spaces, C) \in SUBSET Text /\ Empty \notin Then(Spaces, C)
  BY <1>3, DerivSpaced
<1>6. CASE c = "sp"
  <2>1. Deriv(c, C) = {}
    BY <1>3, <1>6
  <2>2. Deriv(c, Then(Spaces, C)) = Then(Spaces, C)
    BY <1>6, <2>1, DerivSpaced
  <2> QED BY <1>4, <1>5, <1>6, <2>2
<1>7. CASE c # "sp"
  <2>1. Deriv(c, Then(Spaces, C)) = Deriv(c, C)
    BY <1>7, DerivSpaced
  <2> QED BY <1>1, <1>3, <1>4, <1>5, <1>7, <2>1
<1> QED BY <1>6, <1>7

-----------------------------------------------------------------------------
(* What the consumers of a stack wait for.                                 *)

Document == Padded(ReadComposite)

\* A consumer that another one stands on, once that one is done.
Resumes(f, L) ==
  \/ f = "initial" /\ L = Spaces
  \/ f = "array" /\ L = AfterOne(Element, "]")
  \/ f = "objectkey" /\ L = KeyRest
  \/ f = "objectvalue" /\ L = AfterOne(Field, "}")
  \/ f \in Texts /\ L = TextRest

\* The consumer on top: value is the class of the number, low the unit so far.
Awaits(f, begin, value, low, L) ==
  \/ f = "initial" /\ begin /\ L = Document
  \/ (f = "initial" => ~begin) /\ Resumes(f, L)
  \/ f = "arraystart" /\ L = FirstOf(Element, "]")
  \/ f = "arrayseparator" /\ L = AnotherOf(Element, "]")
  \/ f = "objectstart" /\ L = FirstOf(Field, "}")
  \/ f = "objectbetween" /\ L = AnotherOf(Field, "}")
  \/ f = "objectseparator" /\ L = PropertyRest
  \/ f \in Literals /\ L = {LiteralRest[f]}
  \/ f = "number" /\ value \in Classes /\ L = NumberTail(value)
  \/ f = "numberstarting0" /\ value = "zero" /\ L = ZeroTail
  \/ f = "stringescape" /\ L = EscapeTail
  \/ f = "stringuvalue" /\ L = FirstTail4(low)
  \/ f = "stringuvalue1" /\ L = FirstTail3(low)
  \/ f = "stringuvalue2" /\ L = FirstTail2(low)
  \/ f = "stringuvalue3" /\ L = FirstTail1(low)
  \/ f = "stringuvalue4" /\ low = 0 /\ L = UnitEscape(Low, 0)
  \/ f = "stringuvalue5" /\ low = 0 /\ L = Then(OneOf({"u"}), UnitTail4(Low, 0))
  \/ f = "stringuvalue6" /\ L = UnitTail4(Low, low)
  \/ f = "stringuvalue7" /\ L = UnitTail3(Low, low)
  \/ f = "stringuvalue8" /\ L = UnitTail2(Low, low)
  \/ f = "stringuvalue9" /\ L = UnitTail1(Low, low)

\* R[i] completes what the first i consumers of a stack began.
Rests(stack, n, R) ==
  /\ R \in [0 .. n -> SUBSET Text]
  /\ R[0] = {Empty}
  /\ \A i \in 1 .. n :
       \E T \in SUBSET Text : Resumes(stack[i], T) /\ R[i] = Then(T, R[i - 1])

\* X completes what the consumers below the one on top began.
Below(stack, X) == \E R : Rests(stack, Len(stack) - 1, R) /\ X = R[Len(stack) - 1]

\* L completes what the whole stack began.
Expects(stack, begin, value, low, L) ==
  \E T \in SUBSET Text, X \in SUBSET Text :
    Awaits(Last(stack), begin, value, low, T) /\ Below(stack, X) /\ L = Then(T, X)

LEMMA BelowLanguage ==
  ASSUME NEW stack, Path(stack), NEW X, Below(stack, X)
  PROVE  X \in SUBSET Text /\ (Len(stack) = 1 => X = {Empty})
<1>1. PICK n \in Nat : n = Len(stack) - 1
  BY DEF Path
<1>2. PICK R : Rests(stack, n, R) /\ X = R[n]
  BY <1>1 DEF Below
<1>3. X \in SUBSET Text
  BY <1>2 DEF Rests
<1>4. n = 0 => X = {Empty}
  BY <1>2 DEF Rests
<1> QED BY <1>1, <1>3, <1>4

\* Only the consumer on top differs.
LEMMA BelowSame ==
  ASSUME NEW stack, Path(stack), NEW X, Below(stack, X),
         NEW new, Len(new) = Len(stack), \A i \in 1 .. Len(stack) - 1 : new[i] = stack[i]
  PROVE  Below(new, X)
<1>1. PICK n \in Nat : n = Len(stack) - 1
  BY DEF Path
<1>2. PICK R : Rests(stack, n, R) /\ X = R[n]
  BY <1>1 DEF Below
<1>3. \A i \in 1 .. n : new[i] = stack[i]
  BY <1>1
<1>4. Rests(new, n, R)
  BY <1>2, <1>3 DEF Rests
<1> QED BY <1>1, <1>2, <1>4 DEF Below

LEMMA BelowPush ==
  ASSUME NEW stack, Path(stack), NEW X, Below(stack, X),
         NEW T \in SUBSET Text, Resumes(Last(stack), T), NEW f \in Consumers
  PROVE  Below(Append(stack, f), Then(T, X))
<1>1. PICK n \in Nat : n = Len(stack) - 1
  BY DEF Path
<1>2. PICK R : Rests(stack, n, R) /\ X = R[n]
  BY <1>1 DEF Below
<1>3. Len(stack) = n + 1 /\ Len(Append(stack, f)) = n + 2
  BY <1>1 DEF Path
<1>4. \A i \in 1 .. n + 1 : Append(stack, f)[i] = stack[i]
  BY <1>3 DEF Path
<1>5. stack[n + 1] = Last(stack)
  BY <1>3 DEF Last
<1> DEFINE Q == [i \in 0 .. n + 1 |-> IF i = n + 1 THEN Then(T, X) ELSE R[i]]
<1>6. R \in [0 .. n -> SUBSET Text] /\ R[0] = {Empty}
  BY <1>2 DEF Rests
<1>7. Q \in [0 .. n + 1 -> SUBSET Text]
  <2>1. Then(T, X) \in SUBSET Text
    BY ThenLanguage
  <2>2. \A i \in 0 .. n + 1 : i # n + 1 => R[i] \in SUBSET Text
    BY <1>6
  <2> QED BY <2>1, <2>2
<1>8. Q[0] = {Empty} /\ Q[n + 1] = Then(T, X) /\ \A i \in 0 .. n : Q[i] = R[i]
  BY <1>6
<1> HIDE DEF Q
<1>9. ASSUME NEW i \in 1 .. n + 1
      PROVE  \E U \in SUBSET Text : Resumes(Append(stack, f)[i], U) /\ Q[i] = Then(U, Q[i - 1])
  <2>1. CASE i = n + 1
    <3>1. Q[i] = Then(T, Q[i - 1])
      BY <1>2, <1>8, <2>1
    <3>2. Resumes(Append(stack, f)[i], T)
      BY <1>4, <1>5, <2>1
    <3> QED BY <3>1, <3>2
  <2>2. CASE i # n + 1
    <3>1. i \in 1 .. n /\ i - 1 \in 0 .. n /\ i \in 0 .. n /\ i \in 1 .. n + 1
      BY <2>2
    <3>2. Q[i] = R[i] /\ Q[i - 1] = R[i - 1] /\ Append(stack, f)[i] = stack[i]
      BY <1>4, <1>8, <3>1
    <3>3. PICK U \in SUBSET Text : Resumes(stack[i], U) /\ R[i] = Then(U, R[i - 1])
      BY <1>2, <3>1 DEF Rests
    <3> QED BY <3>2, <3>3
  <2> QED BY <2>1, <2>2
<1>10. Rests(Append(stack, f), n + 1, Q)
  BY <1>7, <1>8, <1>9 DEF Rests
<1>11. Len(Append(stack, f)) - 1 = n + 1
  BY <1>3
<1> QED BY <1>8, <1>10, <1>11 DEF Below

LEMMA BelowFront ==
  ASSUME NEW stack, Path(stack), Len(stack) > 1, NEW X, Below(stack, X)
  PROVE  \E T \in SUBSET Text, Y \in SUBSET Text :
           Resumes(stack[Len(stack) - 1], T) /\ Below(Front(stack), Y) /\ X = Then(T, Y)
<1>15. PICK m \in Nat : m = Len(stack)
  BY DEF Path
<1>16. m > 1
  BY <1>15
<1>1. PICK n \in Nat : n = m - 2
  BY <1>16
<1>2. Len(stack) = n + 2 /\ Len(stack) - 1 = n + 1
  BY <1>1, <1>15
<1>3. PICK R : Rests(stack, n + 1, R) /\ X = R[n + 1]
  BY <1>2 DEF Below
<1>4. Len(Front(stack)) = n + 1 /\ \A i \in 1 .. n : Front(stack)[i] = stack[i]
  BY <1>2 DEF Path, Front
<1>5. R \in [0 .. n + 1 -> SUBSET Text] /\ R[0] = {Empty}
  BY <1>3 DEF Rests
<1> DEFINE Q == [i \in 0 .. n |-> R[i]]
<1>6. Q \in [0 .. n -> SUBSET Text] /\ \A i \in 0 .. n : Q[i] = R[i]
  BY <1>5
<1> HIDE DEF Q
<1>7. ASSUME NEW i \in 1 .. n
      PROVE  \E U \in SUBSET Text : Resumes(Front(stack)[i], U) /\ Q[i] = Then(U, Q[i - 1])
  <2>1. i \in 1 .. n + 1 /\ i \in 0 .. n /\ i - 1 \in 0 .. n
    OBVIOUS
  <2>2. PICK U \in SUBSET Text : Resumes(stack[i], U) /\ R[i] = Then(U, R[i - 1])
    BY <1>3, <2>1 DEF Rests
  <2>3. Q[i] = R[i] /\ Q[i - 1] = R[i - 1] /\ Front(stack)[i] = stack[i]
    BY <1>4, <1>6, <2>1
  <2> QED BY <2>2, <2>3
<1>8. Q[0] = {Empty}
  BY <1>5, <1>6
<1>9. Rests(Front(stack), n, Q)
  BY <1>6, <1>7, <1>8 DEF Rests
<1>10. Len(Front(stack)) - 1 = n
  BY <1>4
<1>11. Below(Front(stack), Q[n])
  BY <1>9, <1>10 DEF Below
<1>12. n + 1 \in 1 .. n + 1 /\ n \in 0 .. n /\ (n + 1) - 1 = n
  OBVIOUS
<1>13. PICK T \in SUBSET Text : Resumes(stack[n + 1], T) /\ R[n + 1] = Then(T, R[n])
  BY <1>3, <1>12 DEF Rests
<1>14. Q[n] = R[n] /\ Q[n] \in SUBSET Text
  BY <1>6, <1>12
<1> QED BY <1>2, <1>3, <1>11, <1>13, <1>14

-----------------------------------------------------------------------------
(* What a handler does to the stack, and what is awaited then.             *)

LEMMA ResumesLanguage ==
  ASSUME NEW f, NEW L, Resumes(f, L)
  PROVE  /\ L \in SUBSET Text
         /\ f # "initial" => Empty \notin L
         /\ \A c \in NumberChars : f \in {"array", "objectvalue"} => Deriv(c, L) = {}
<1>1. PICK c \in AllChars : TRUE
  BY Brackets
<1>2. "]" # "," /\ "]" # "sp" /\ "}" # "," /\ "}" # "sp"
  OBVIOUS
<1>3. Element \in SUBSET Text /\ Field \in SUBSET Text
  BY <1>1, DerivElement, DerivField
<1>4. /\ AfterOne(Element, "]") \in SUBSET Text /\ Empty \notin AfterOne(Element, "]")
      /\ AfterOne(Field, "}") \in SUBSET Text /\ Empty \notin AfterOne(Field, "}")
  BY <1>1, <1>2, <1>3, Brackets, DerivAfterOne
<1>5. /\ KeyRest \in SUBSET Text /\ Empty \notin KeyRest
      /\ TextRest \in SUBSET Text /\ Empty \notin TextRest
  BY <1>1, DerivKeyRest, DerivTextRest
<1>6. ASSUME NEW d \in NumberChars, f \in {"array", "objectvalue"} PROVE Deriv(d, L) = {}
  <2>1. d \in AllChars
    BY NumberCharacters DEF AllChars
  <2>2. d \notin {"sp", ",", "]", "}"}
    BY DEF NumberChars, Digits19, Exponent, Signs
  <2>3. Deriv(d, AfterOne(Element, "]")) = {}
    BY <1>2, <1>3, <2>1, <2>2, Brackets, DerivAfterOne
  <2>4. Deriv(d, AfterOne(Field, "}")) = {}
    BY <1>2, <1>3, <2>1, <2>2, Brackets, DerivAfterOne
  <2> QED BY <1>6, <2>3, <2>4 DEF Resumes, Texts
<1> QED BY <1>4, <1>5, <1>6, SpacesText DEF Resumes

\* L is what may follow after the step.
Follows(L) ==
  \/ error_' /\ L = {}
  \/ ~error_' /\ Expects(consumer_stack_', begin_', lastValue_', lastCodePoint'[2], L)

\* The handler leaves the stack of s.
Moves(s) == consumer_stack_' = s.stack /\ error_' = error_

LEMMA ReturnMoves ==
  ASSUME NEW s, NEW ok, Return(s, ok)
  PROVE  Moves(s)
BY DEF Return, Moves

\* Every handler answers true, and nothing but the calls is recorded.
LEMMA CallMoves ==
  ASSUME NEW s, NEW b \in BOOLEAN, Sound(s, b), NEW h,
         CallOnly(s, h) \/ CallOrError(s, h) \/ CallOrLateError(s, h)
  PROVE  Moves(s)
<1>1. Answers(h) = {TRUE}
  BY AcceptingAssumption DEF Answers
<1>2. Return(Called(s, h, TRUE), TRUE)
  BY <1>1 DEF CallOnly, CallOrError, CallOrLateError
<1>3. Called(s, h, TRUE).stack = s.stack
  BY SoundCalled
<1> QED BY <1>2, <1>3 DEF Return, Moves

LEMMA ErrorFollows ==
  ASSUME NEW s, make_error(s), NEW X \in SUBSET Text
  PROVE  Follows({}) /\ Follows(Then({}, X))
<1>1. Then({}, X) = {}
  BY ThenEmpty
<1> QED BY <1>1 DEF make_error, Follows

LEMMA StepFollows ==
  ASSUME ~error_, NEW s, Moves(s), NEW T \in SUBSET Text, NEW X \in SUBSET Text,
         Awaits(Last(s.stack), begin_', lastValue_', lastCodePoint'[2], T),
         Below(s.stack, X)
  PROVE  Follows(Then(T, X))
BY DEF Moves, Follows, Expects

LEMMA PushFollows ==
  ASSUME ~error_, NEW s, NEW b \in BOOLEAN, Sound(s, b), NEW f \in Consumers, Moves(Push(s, f)),
         NEW T \in SUBSET Text, Awaits(f, begin_', lastValue_', lastCodePoint'[2], T),
         NEW U \in SUBSET Text, Resumes(Last(s.stack), U),
         NEW X \in SUBSET Text, Below(s.stack, X)
  PROVE  Follows(Then(Then(T, U), X))
<1>1. s = [stack |-> s.stack, end |-> s.end, calls |-> s.calls] /\ Path(s.stack)
  BY DEF Sound
<1>2. Push(s, f).stack = Append(s.stack, f)
  BY <1>1 DEF Push
<1>3. Path(s.stack)
  BY <1>1
<1>4. Last(Append(s.stack, f)) = f
  BY <1>3 DEF Path, Last
<1>5. Below(Append(s.stack, f), Then(U, X)) /\ Then(U, X) \in SUBSET Text
  BY <1>3, BelowPush, ThenLanguage
<1>6. Then(Then(T, U), X) = Then(T, Then(U, X))
  BY ThenAssociative
<1> QED BY <1>2, <1>4, <1>5, <1>6, StepFollows

LEMMA BecomeBelow ==
  ASSUME NEW s, NEW b \in BOOLEAN, Sound(s, b), NEW g \in Consumers,
         SamePlace(Last(s.stack), g), NEW X \in SUBSET Text, Below(s.stack, X)
  PROVE  /\ Below(Become(s, g).stack, X) /\ Last(Become(s, g).stack) = g
         /\ Sound(Become(s, g), b) /\ b = FALSE
<1> DEFINE new == [s.stack EXCEPT ![Len(s.stack)] = g]
<1>1. Become(s, g) = [stack |-> new, end |-> s.end, calls |-> s.calls]
  BY DEF Sound, Become
<1>2. Path(s.stack)
  BY DEF Sound
<1>3. Len(new) = Len(s.stack) /\ \A i \in 1 .. Len(s.stack) - 1 : new[i] = s.stack[i]
  BY <1>2 DEF Path
<1> HIDE DEF new
<1>4. Below(new, X)
  BY <1>2, <1>3, BelowSame
<1>5. Become(s, g).stack = new
  BY <1>1
<1> QED BY <1>4, <1>5, SoundBecome

LEMMA BecomeFollows ==
  ASSUME ~error_, NEW s, NEW b \in BOOLEAN, Sound(s, b), NEW g \in Consumers,
         SamePlace(Last(s.stack), g), Moves(Become(s, g)),
         NEW T \in SUBSET Text, Awaits(g, begin_', lastValue_', lastCodePoint'[2], T),
         NEW X \in SUBSET Text, Below(s.stack, X)
  PROVE  Follows(Then(T, X))
<1>1. Below(Become(s, g).stack, X) /\ Last(Become(s, g).stack) = g
  BY BecomeBelow
<1> QED BY <1>1, StepFollows

\* The consumer on top is gone and the one below goes on.
LEMMA PopFollows ==
  ASSUME ~error_, NEW s, NEW b \in BOOLEAN, Sound(s, b), Len(s.stack) > 1,
         Moves(pop_state(s)) \/ Moves(PopBack(s)), begin_' = FALSE,
         NEW X \in SUBSET Text, Below(s.stack, X)
  PROVE  Follows(X) /\ Follows(Then({Empty}, X))
<1>1. Path(s.stack) /\ IsRecord(s)
  BY DEF Sound, IsRecord
<1>2. PICK T \in SUBSET Text, Y \in SUBSET Text :
        Resumes(s.stack[Len(s.stack) - 1], T) /\ Below(Front(s.stack), Y) /\ X = Then(T, Y)
  BY <1>1, BelowFront
<1>3. pop_state(s).stack = Front(s.stack) /\ PopBack(s).stack = Front(s.stack)
  BY <1>1 DEF IsRecord, pop_state, PopBack
<1>4. Last(Front(s.stack)) = s.stack[Len(s.stack) - 1]
  BY <1>1, FrontPath
<1>5. Awaits(Last(Front(s.stack)), begin_', lastValue_', lastCodePoint'[2], T)
  BY <1>2, <1>4 DEF Awaits
<1>6. Follows(Then(T, Y))
  BY <1>2, <1>3, <1>5, StepFollows
<1>7. Then({Empty}, X) = X
  BY ThenEmpty
<1> QED BY <1>2, <1>6, <1>7

-----------------------------------------------------------------------------
(* The consumers of arrays and objects.                                    *)

\* A consumer of s reads c, where T is awaited by itself and X below it.
Reads(s, c, T, X) ==
  /\ c \in AllChars /\ ~error_ /\ begin_ \in BOOLEAN /\ Sound(s, begin_)
  /\ T \in SUBSET Text /\ X \in SUBSET Text
  /\ Awaits(Last(s.stack), begin_, lastValue_, lastCodePoint[2], T) /\ Below(s.stack, X)

\* A value begins in a container that goes on with U.
LEMMA ValueFollows ==
  ASSUME ~error_, NEW c \in AllChars, NEW s, Sound(s, FALSE), begin_' = FALSE,
         NEW U \in SUBSET Text, Resumes(Last(s.stack), U),
         NEW X \in SUBSET Text, Below(s.stack, X),
         \/ c = Quote /\ Moves(Push(s, "string"))
         \/ c = "{" /\ Moves(Push(s, "objectstart"))
         \/ c = "[" /\ Moves(Push(s, "arraystart"))
         \/ StartItem(s, c)
         \/ c \notin CallFree \cup {Quote, "{", "["} /\ error_'
  PROVE  Follows(Then(Then(Deriv(c, ReadValue), U), X))
<1>1. PICK T \in SUBSET Text : T = Deriv(c, ReadValue)
  BY DerivLanguage
<1>2. ASSUME NEW f \in Consumers, Moves(Push(s, f)),
             Awaits(f, begin_', lastValue_', lastCodePoint'[2], T)
      PROVE  Follows(Then(Then(T, U), X))
  BY <1>2, PushFollows
<1>3. /\ {"string", "objectstart", "arraystart", "number", "numberstarting0",
          "nulln", "truet", "falsef"} \subseteq Consumers
      /\ {"nulln", "truet", "falsef"} \subseteq Literals
  BY DEF Consumers, Literals, Numbers
<1>4. CASE c = Quote /\ Moves(Push(s, "string"))
  <2>1. T = TextRest
    BY <1>1, <1>4, DerivReadValue, DerivReadComposite
  <2>2. Awaits("string", begin_', lastValue_', lastCodePoint'[2], T)
    BY <2>1 DEF Awaits, Resumes, Texts
  <2> QED BY <1>1, <1>2, <1>3, <1>4, <2>2
<1>5. CASE c = "{" /\ Moves(Push(s, "objectstart"))
  <2>1. c # Quote
    BY <1>5 DEF Quote
  <2>2. T = FirstOf(Field, "}")
    BY <1>1, <1>5, <2>1, DerivReadValue, DerivReadComposite
  <2>3. Awaits("objectstart", begin_', lastValue_', lastCodePoint'[2], T)
    BY <2>2 DEF Awaits
  <2> QED BY <1>1, <1>2, <1>3, <1>5, <2>3
<1>6. CASE c = "[" /\ Moves(Push(s, "arraystart"))
  <2>1. c # Quote
    BY <1>6 DEF Quote
  <2>2. T = FirstOf(Element, "]")
    BY <1>1, <1>6, <2>1, DerivReadValue, DerivReadComposite
  <2>3. Awaits("arraystart", begin_', lastValue_', lastCodePoint'[2], T)
    BY <2>2 DEF Awaits
  <2> QED BY <1>1, <1>2, <1>3, <1>6, <2>3
<1>7. CASE StartItem(s, c)
  <2>1. c \in CallFree /\ Moves(Push(s, ItemStart(c)))
    BY <1>7, ReturnMoves DEF StartItem
  <2>2. c \in NumberChars => lastValue_' = FirstClass(c)
    BY <1>7 DEF StartItem
  <2>3. CASE c = "0"
    <3>1. ItemStart(c) = "numberstarting0" /\ FirstClass(c) = "zero" /\ c \in NumberChars
      BY <2>3 DEF ItemStart, FirstClass, NumberChars, Digits19
    <3>2. T = ZeroTail
      BY <1>1, <2>3, DerivReadValue
    <3>3. Awaits("numberstarting0", begin_', lastValue_', lastCodePoint'[2], T)
      BY <2>2, <3>1, <3>2 DEF Awaits
    <3> QED BY <1>1, <1>2, <1>3, <2>1, <3>1, <3>3
  <2>4. CASE c \in Digits19
    <3>1. ItemStart(c) = "number" /\ FirstClass(c) = "int" /\ c \in NumberChars
      BY <2>4 DEF ItemStart, FirstClass, NumberChars, Digits19
    <3>2. T = NumberTail("int") /\ "int" \in Classes
      BY <1>1, <2>4, DerivReadValue, TailOfClass DEF Classes, Arcs
    <3>3. Awaits("number", begin_', lastValue_', lastCodePoint'[2], T)
      BY <2>2, <3>1, <3>2 DEF Awaits
    <3> QED BY <1>1, <1>2, <1>3, <2>1, <3>1, <3>3
  <2>5. CASE c = "-"
    <3>1. ItemStart(c) = "number" /\ FirstClass(c) = "minus" /\ c \in NumberChars
      BY <2>5 DEF ItemStart, FirstClass, NumberChars, Digits19, Signs
    <3>2. T = NumberTail("minus") /\ "minus" \in Classes
      BY <1>1, <2>5, DerivReadValue, TailOfClass DEF Classes, Arcs
    <3>3. Awaits("number", begin_', lastValue_', lastCodePoint'[2], T)
      BY <2>2, <3>1, <3>2 DEF Awaits
    <3> QED BY <1>1, <1>2, <1>3, <2>1, <3>1, <3>3
  <2>6. CASE c \in {"n", "t", "f"}
    <3>1. ItemStart(c) \in {"nulln", "truet", "falsef"}
      BY <2>6 DEF ItemStart, Digits19
    <3>2. T = {LiteralRest[ItemStart(c)]}
      <4>1. /\ c = "n" => ItemStart(c) = "nulln"
            /\ c = "t" => ItemStart(c) = "truet"
            /\ c = "f" => ItemStart(c) = "falsef"
        BY DEF ItemStart, Digits19
      <4> QED BY <1>1, <2>6, <4>1, DerivReadValue
    <3>3. Awaits(ItemStart(c), begin_', lastValue_', lastCodePoint'[2], T)
      BY <1>3, <3>1, <3>2 DEF Awaits
    <3> QED BY <1>1, <1>2, <1>3, <2>1, <3>1, <3>3
  <2> QED BY <2>1, <2>3, <2>4, <2>5, <2>6 DEF CallFree
<1>8. CASE c \notin CallFree \cup {Quote, "{", "["} /\ error_'
  <2>1. T = {}
    BY <1>1, <1>8, DerivReadValue
  <2>2. Then(Then({}, U), X) = {}
    BY ThenEmpty
  <2> QED BY <1>1, <1>8, <2>1, <2>2 DEF Follows
<1> QED BY <1>4, <1>5, <1>6, <1>7, <1>8

\* Spaces, and what is read in front of anything that is not empty.
LEMMA ReadsFirst ==
  ASSUME NEW s, NEW c, NEW T, NEW X, Reads(s, c, T, X), Empty \notin T
  PROVE  /\ Deriv(c, Then(T, X)) = Then(Deriv(c, T), X)
         /\ Deriv(c, T) = {} /\ error_' => Follows(Deriv(c, Then(T, X)))
         /\ Deriv(c, T) = T /\ Return(s, TRUE) /\ Structural => Follows(Deriv(c, Then(T, X)))
<1>1. Deriv(c, Then(T, X)) = Then(Deriv(c, T), X)
  BY DerivFirst DEF Reads
<1>2. ASSUME Deriv(c, T) = {}, error_' PROVE Follows(Deriv(c, Then(T, X)))
  <2>1. Then({}, X) = {}
    BY ThenEmpty DEF Reads
  <2> QED BY <1>1, <1>2, <2>1 DEF Follows
<1>3. ASSUME Deriv(c, T) = T, Return(s, TRUE), Structural
      PROVE  Follows(Deriv(c, Then(T, X)))
  <2>1. Moves(s) /\ UNCHANGED << begin_, lastValue_, lastCodePoint >>
    BY <1>3, ReturnMoves DEF Structural, valueVars
  <2>2. Follows(Then(T, X))
    BY <2>1, StepFollows DEF Reads
  <2> QED BY <1>1, <1>3, <2>2
<1> QED BY <1>1, <1>2, <1>3

\* In a container the stack is deeper and a document is begun.
LEMMA ReadsDeep ==
  ASSUME NEW s, NEW c, NEW T, NEW X, Reads(s, c, T, X), Last(s.stack) # "initial"
  PROVE  Len(s.stack) > 1 /\ begin_ = FALSE /\ Path(s.stack)
<1>1. Path(s.stack) /\ EndMatches(s.stack, s.end, begin_)
  BY DEF Reads, Sound
<1>2. PICK n \in Nat : n = Len(s.stack)
  BY <1>1 DEF Path
<1>3. n # 1 /\ n >= 1
  BY <1>1, <1>2, LastOfPath DEF Path
<1>4. n > 1 /\ ~(n < 2)
  BY <1>3
<1> QED BY <1>1, <1>2, <1>4 DEF EndMatches, Reads

LEMMA ArrayFollows ==
  ASSUME NEW s, NEW c, NEW T, NEW X, Reads(s, c, T, X), Last(s.stack) = "array",
         consume_array_(s, c)
  PROVE  Follows(Deriv(c, Then(T, X)))
<1>1. T = AfterOne(Element, "]") /\ c \in AllChars
  BY DEF Reads, Awaits, Resumes, Literals, Texts
<1>2. /\ Empty \notin T
      /\ Deriv(c, T) = IF c = "sp" THEN T ELSE IF c = "," THEN AnotherOf(Element, "]")
                       ELSE IF c = "]" THEN {Empty} ELSE {}
  BY <1>1, Brackets, DerivElement, DerivAfterOne
<1>3. Len(s.stack) > 1 /\ begin_' = FALSE /\ UNCHANGED << begin_, lastValue_, lastCodePoint >>
  BY ReadsDeep DEF consume_array_, Structural, valueVars
<1>4. ~error_ /\ Sound(s, begin_) /\ begin_ \in BOOLEAN /\ X \in SUBSET Text /\ Below(s.stack, X)
  BY DEF Reads
<1>5. CASE c = "sp" /\ Return(s, TRUE)
  BY <1>2, <1>5, ReadsFirst DEF consume_array_
<1>6. CASE c = "]" /\ CallOrError(pop_state(s), "end_array")
  <2>1. Sound(pop_state(s), begin_)
    BY <1>3, <1>4, SoundPop
  <2>2. Moves(pop_state(s))
    BY <1>4, <1>6, <2>1, CallMoves
  <2>3. Follows(Then({Empty}, X))
    BY <1>3, <1>4, <2>2, PopFollows
  <2> QED BY <1>2, <1>6, <2>3, ReadsFirst
<1>7. CASE c = "," /\ Return(Become(s, "arrayseparator"), TRUE)
  <2>1. Moves(Become(s, "arrayseparator"))
    BY <1>7, ReturnMoves
  <2>2. PICK L \in SUBSET Text : L = AnotherOf(Element, "]")
    BY ThenLanguage DEF AnotherOf
  <2>3. Awaits("arrayseparator", begin_', lastValue_', lastCodePoint'[2], L)
    BY <2>2 DEF Awaits
  <2>4. "arrayseparator" \in Consumers /\ SamePlace(Last(s.stack), "arrayseparator")
    BY DEF Consumers, SamePlace, Containers
  <2>5. Follows(Then(L, X))
    BY <1>4, <2>1, <2>3, <2>4, BecomeFollows
  <2> QED BY <1>2, <1>7, <2>2, <2>5, ReadsFirst
<1>8. CASE c \notin {"sp", "]", ","} /\ make_error(s)
  <2>1. error_'
    BY <1>8 DEF make_error
  <2> QED BY <1>2, <1>8, <2>1, ReadsFirst
<1> QED BY <1>5, <1>6, <1>7, <1>8 DEF consume_array_

\* The elements of an array, and after them, character by character.
LEMMA ElementLists ==
  ASSUME NEW c \in AllChars
  PROVE  /\ Empty \notin AnotherOf(Element, "]") /\ Empty \notin FirstOf(Element, "]")
         /\ Deriv(c, AnotherOf(Element, "]")) =
              IF c = "sp" THEN AnotherOf(Element, "]")
              ELSE Then(Deriv(c, ReadValue), AfterOne(Element, "]"))
         /\ Deriv(c, FirstOf(Element, "]")) =
              IF c = "sp" THEN FirstOf(Element, "]") ELSE IF c = "]" THEN {Empty}
              ELSE Then(Deriv(c, ReadValue), AfterOne(Element, "]"))
<1> DEFINE close == "]"
<1>1. close \in AllChars /\ close # "sp" /\ close \notin CallFree \cup {Quote, "[", "{"}
  BY Brackets DEF CallFree, Digits19, Quote
<1>2. PICK E \in SUBSET Text : E = Element
  BY DerivElement
<1>3. Empty \notin E /\ Deriv("sp", E) = E
  BY <1>2, DerivElement
<1>4. Deriv(close, E) = {}
  <2>1. Deriv(close, ReadValue) = {}
    BY <1>1, DerivReadValue
  <2>2. Then({}, Spaces) = {}
    BY SpacesText, ThenEmpty
  <2> QED BY <1>1, <1>2, <2>1, <2>2, DerivElement
<1> HIDE DEF close
<1>5. PICK B : B = Then(Repeated(E), OneOf({close}))
  OBVIOUS
<1>12. Empty \notin E
  BY <1>3
<1>13. close \in AllChars
  BY <1>1
<1>14. Deriv("sp", E) = E /\ close # "sp"
  BY <1>1, <1>3
<1>6. /\ Empty \notin AnotherOf(E, close) /\ B \in SUBSET Text
      /\ AnotherOf(E, close) = Then(E, B)
      /\ Deriv(c, AnotherOf(E, close)) = Then(Deriv(c, E), B)
  BY <1>5, <1>12, <1>13, DerivAnother
<1>7. Deriv(c, Then(E, B)) = IF c = "sp" THEN Then(E, B)
                             ELSE Then(Deriv(c, ReadValue), Then(Spaces, B))
  BY <1>2, <1>6, DerivItem
<1>8. AfterOne(E, close) = Then(Spaces, B)
  BY <1>5 DEF AfterOne
<1>9. Deriv(c, AnotherOf(E, close)) =
        IF c = "sp" THEN AnotherOf(E, close)
        ELSE Then(Deriv(c, ReadValue), AfterOne(E, close))
  BY <1>6, <1>7, <1>8
<1>10. /\ Empty \notin FirstOf(E, close)
       /\ c = "sp" => Deriv(c, FirstOf(E, close)) = FirstOf(E, close)
       /\ c = close /\ Deriv(c, E) = {} => Deriv(c, FirstOf(E, close)) = {Empty}
       /\ c # "sp" /\ c # close =>
            Deriv(c, FirstOf(E, close)) = Deriv(c, AnotherOf(E, close))
  BY <1>12, <1>13, <1>14, DerivFirstOf
<1>11. Deriv(c, FirstOf(E, close)) =
         IF c = "sp" THEN FirstOf(E, close) ELSE IF c = close THEN {Empty}
         ELSE Then(Deriv(c, ReadValue), AfterOne(E, close))
  BY <1>1, <1>4, <1>9, <1>10
<1> QED BY <1>2, <1>6, <1>9, <1>10, <1>11 DEF close

\* The same for the members of an object.
LEMMA FieldLists ==
  ASSUME NEW c \in AllChars
  PROVE  /\ Empty \notin AnotherOf(Field, "}") /\ Empty \notin FirstOf(Field, "}")
         /\ Deriv(c, AnotherOf(Field, "}")) =
              IF c = "sp" THEN AnotherOf(Field, "}")
              ELSE IF c = Quote THEN Then(TextRest, KeyRest) ELSE {}
         /\ Deriv(c, FirstOf(Field, "}")) =
              IF c = "sp" THEN FirstOf(Field, "}") ELSE IF c = "}" THEN {Empty}
              ELSE IF c = Quote THEN Then(TextRest, KeyRest) ELSE {}
<1> DEFINE close == "}"
<1>1. close \in AllChars /\ close # "sp" /\ close # Quote
  BY Brackets DEF Quote
<1>2. PICK F \in SUBSET Text : F = Field
  BY DerivField
<1>3. PICK C \in SUBSET Text : C = Then(Spaces, Then(OneOf({":"}), Element))
  BY ThenLanguage
<1>4. \A d \in AllChars : Deriv(d, F) = IF d = "sp" THEN F
                                        ELSE IF d = Quote THEN Then(TextRest, C) ELSE {}
  BY <1>2, <1>3, DerivField
<1>5. Empty \notin F
  BY <1>2, DerivField
<1>6. Deriv("sp", F) = F
  BY <1>4, Brackets
<1>7. Deriv(close, F) = {}
  BY <1>1, <1>4
<1>8. PICK B : B = Then(Repeated(F), OneOf({close}))
  OBVIOUS
<1>9. Then(Then(TextRest, C), B) = Then(TextRest, KeyRest)
  <2>1. B \in SUBSET Text
    BY <1>8, ThenLanguage
  <2>2. PICK E \in SUBSET Text : E = Element
    BY DerivElement
  <2>3. PICK K \in SUBSET Text : K = OneOf({":"})
    BY Brackets, DerivClose
  <2>4. PICK M \in SUBSET Text : M = Then(K, E)
    BY ThenLanguage
  <2>5. Then(M, B) = Then(K, Then(E, B))
    BY <2>1, <2>4, ThenAssociative
  <2>6. Then(Then(Spaces, M), B) = Then(Spaces, Then(M, B))
    BY <2>1, SpacesText, ThenAssociative
  <2>9. TextRest \in SUBSET Text
    BY ThenLanguage DEF TextRest
  <2>7. Then(Then(TextRest, C), B) = Then(TextRest, Then(C, B))
    BY <2>1, <2>9, ThenAssociative
  <2>8. C = Then(Spaces, M) /\ KeyRest = Then(Spaces, Then(K, Then(E, B)))
    BY <1>2, <1>3, <1>8, <2>2, <2>3, <2>4 DEF KeyRest, PropertyRest
  <2> QED BY <2>5, <2>6, <2>7, <2>8
<1> HIDE DEF close
<1>10. /\ Empty \notin AnotherOf(F, close) /\ B \in SUBSET Text
       /\ AnotherOf(F, close) = Then(F, B)
       /\ Deriv(c, AnotherOf(F, close)) = Then(Deriv(c, F), B)
  BY <1>1, <1>5, <1>8, DerivAnother
<1>11. Deriv(c, AnotherOf(F, close)) =
         IF c = "sp" THEN AnotherOf(F, close)
         ELSE IF c = Quote THEN Then(TextRest, KeyRest) ELSE {}
  <2>1. Then({}, B) = {}
    BY <1>10, ThenEmpty
  <2> QED BY <1>4, <1>9, <1>10, <2>1
<1>12. /\ Empty \notin FirstOf(F, close)
       /\ c = "sp" => Deriv(c, FirstOf(F, close)) = FirstOf(F, close)
       /\ c = close /\ Deriv(c, F) = {} => Deriv(c, FirstOf(F, close)) = {Empty}
       /\ c # "sp" /\ c # close =>
            Deriv(c, FirstOf(F, close)) = Deriv(c, AnotherOf(F, close))
  BY <1>1, <1>5, <1>6, DerivFirstOf
<1>13. Deriv(c, FirstOf(F, close)) =
         IF c = "sp" THEN FirstOf(F, close) ELSE IF c = close THEN {Empty}
         ELSE IF c = Quote THEN Then(TextRest, KeyRest) ELSE {}
  BY <1>1, <1>7, <1>11, <1>12
<1> QED BY <1>2, <1>10, <1>11, <1>12, <1>13 DEF close

\* An item of an array begins.
LEMMA ItemFollows ==
  ASSUME NEW s, NEW c, NEW T, NEW X, Reads(s, c, T, X),
         Last(s.stack) \in {"arraystart", "arrayseparator"}, c # "sp",
         consume_array_itembegin_(Become(s, "array"), c),
         Empty \notin T, Deriv(c, T) = Then(Deriv(c, ReadValue), AfterOne(Element, "]"))
  PROVE  Follows(Deriv(c, Then(T, X)))
<1> DEFINE v == Become(s, "array")
<1>1. /\ ~error_ /\ Sound(s, begin_) /\ begin_ \in BOOLEAN /\ X \in SUBSET Text
      /\ Below(s.stack, X) /\ c \in AllChars
  BY DEF Reads
<1>2. "array" \in Consumers /\ SamePlace(Last(s.stack), "array")
  BY DEF Consumers, SamePlace, Containers
<1>3. /\ Sound(v, FALSE) /\ begin_ = FALSE /\ Below(v.stack, X) /\ Last(v.stack) = "array"
  BY <1>1, <1>2, BecomeBelow
<1>4. PICK U \in SUBSET Text : U = AfterOne(Element, "]")
  BY ThenLanguage DEF AfterOne
<1>5. Resumes(Last(v.stack), U)
  BY <1>3, <1>4 DEF Resumes
<1>6. Deriv(c, Then(T, X)) = Then(Deriv(c, T), X)
  BY DerivFirst DEF Reads
<1>8. Deriv(c, Then(T, X)) = Then(Then(Deriv(c, ReadValue), U), X)
  BY <1>4, <1>6
<1>9. consume_array_itembegin_(v, c)
  OBVIOUS
<1> HIDE DEF v
<1>10. begin_' = FALSE
  BY <1>3, <1>9 DEF consume_array_itembegin_, Structural, StartItem
<1>11. \/ c = Quote /\ Moves(Push(v, "string"))
       \/ c = "{" /\ Moves(Push(v, "objectstart"))
       \/ c = "[" /\ Moves(Push(v, "arraystart"))
       \/ StartItem(v, c)
       \/ c \notin CallFree \cup {Quote, "{", "["} /\ error_'
  <2>1. ASSUME NEW f \in {"string", "objectstart", "arraystart"}
        PROVE  Sound(Push(v, f), FALSE)
    <3>1. f \in Consumers /\ Fits(Last(v.stack), f) /\ Last(v.stack) # "initial"
      BY <1>3 DEF Consumers, Fits, Containers
    <3>2. Path(v.stack)
      BY <1>3 DEF Sound
    <3>3. PICK n \in Nat : n = Len(v.stack)
      BY <3>2 DEF Path
    <3>4. n # 1 /\ n >= 1
      BY <3>1, <3>2, <3>3, LastOfPath DEF Path
    <3>6. n > 1
      BY <3>4
    <3>5. Len(v.stack) > 1
      BY <3>3, <3>6
    <3> QED BY <1>3, <3>1, <3>5, SoundPush
  <2>2. ASSUME NEW f \in {"string", "objectstart", "arraystart"}, NEW h,
               CallOrError(Push(v, f), h) \/ CallOrLateError(Push(v, f), h)
        PROVE  Moves(Push(v, f))
    BY <2>1, <2>2, CallMoves
  <2> QED BY <1>9, <2>2 DEF consume_array_itembegin_, make_error
<1>12. Follows(Then(Then(Deriv(c, ReadValue), U), X))
  BY <1>1, <1>3, <1>5, <1>10, <1>11, ValueFollows
<1> QED BY <1>8, <1>12

LEMMA ArrayStartFollows ==
  ASSUME NEW s, NEW c, NEW T, NEW X, Reads(s, c, T, X),
         \/ Last(s.stack) = "arraystart" /\ consume_arraystart_(s, c)
         \/ Last(s.stack) = "arrayseparator" /\ consume_arrayseparator_(s, c)
  PROVE  Follows(Deriv(c, Then(T, X)))
<1>1. c \in AllChars /\ ~error_ /\ Sound(s, begin_) /\ begin_ \in BOOLEAN
      /\ X \in SUBSET Text /\ Below(s.stack, X)
  BY DEF Reads
<1>6. CASE Last(s.stack) = "arrayseparator" /\ consume_arrayseparator_(s, c)
  <2>1. T = AnotherOf(Element, "]")
    BY <1>6 DEF Reads, Awaits, Resumes, Literals, Texts
  <2>4. /\ Empty \notin T
        /\ Deriv(c, T) = IF c = "sp" THEN T
                         ELSE Then(Deriv(c, ReadValue), AfterOne(Element, "]"))
    BY <1>1, <2>1, ElementLists
  <2>2. CASE c = "sp" /\ Return(s, TRUE) /\ Structural
    BY <2>2, <2>4, ReadsFirst
  <2>3. CASE c # "sp" /\ consume_array_itembegin_(Become(s, "array"), c)
    BY <1>6, <2>3, <2>4, ItemFollows
  <2> QED BY <1>6, <2>2, <2>3 DEF consume_arrayseparator_
<1>7. CASE Last(s.stack) = "arraystart" /\ consume_arraystart_(s, c)
  <2>1. T = FirstOf(Element, "]")
    BY <1>7 DEF Reads, Awaits, Resumes, Literals, Texts
  <2>2. /\ Empty \notin T
        /\ Deriv(c, T) = IF c = "sp" THEN T ELSE IF c = "]" THEN {Empty}
                         ELSE Then(Deriv(c, ReadValue), AfterOne(Element, "]"))
    BY <1>1, <2>1, ElementLists
  <2>3. CASE c = "sp" /\ Return(s, TRUE) /\ Structural
    BY <2>2, <2>3, ReadsFirst
  <2>4. CASE c = "]" /\ CallOrError(pop_state(s), "end_array") /\ Structural
    <3>4. Len(s.stack) > 1 /\ begin_ = FALSE /\ begin_' = FALSE
      BY <1>7, <2>4, ReadsDeep DEF Structural
    <3>5. Sound(pop_state(s), begin_)
      BY <1>1, <3>4, SoundPop
    <3>6. Moves(pop_state(s))
      BY <1>1, <2>4, <3>5, CallMoves
    <3>7. Follows(Then({Empty}, X))
      BY <1>1, <3>4, <3>6, PopFollows
    <3> QED BY <2>2, <2>4, <3>7, ReadsFirst
  <2>5. CASE c \notin {"sp", "]"} /\ consume_array_itembegin_(Become(s, "array"), c)
    BY <1>7, <2>2, <2>5, ItemFollows
  <2> QED BY <1>7, <2>3, <2>4, <2>5 DEF consume_arraystart_
<1> QED BY <1>6, <1>7

LEMMA KeyFollows ==
  ASSUME NEW s, NEW c, NEW T, NEW X, Reads(s, c, T, X),
         \/ Last(s.stack) = "objectstart" /\ consume_objectstart_(s, c)
         \/ Last(s.stack) = "objectbetween" /\ consume_objectbetween_(s, c)
  PROVE  Follows(Deriv(c, Then(T, X)))
<1>1. /\ c \in AllChars /\ ~error_ /\ Sound(s, begin_) /\ begin_ \in BOOLEAN
      /\ X \in SUBSET Text /\ Below(s.stack, X)
  BY DEF Reads
<1>2. /\ Structural /\ UNCHANGED << begin_, lastValue_, lastCodePoint >>
      /\ Len(s.stack) > 1 /\ begin_ = FALSE
  BY ReadsDeep DEF consume_objectstart_, consume_objectbetween_, Structural, valueVars
<1>3. /\ Empty \notin T
      /\ Deriv(c, T) = IF c = "sp" THEN T
                       ELSE IF c = "}" /\ Last(s.stack) = "objectstart" THEN {Empty}
                       ELSE IF c = Quote THEN Then(TextRest, KeyRest) ELSE {}
  <2>1. CASE Last(s.stack) = "objectstart"
    <3>1. T = FirstOf(Field, "}")
      BY <2>1 DEF Reads, Awaits, Resumes, Literals, Texts
    <3> QED BY <1>1, <2>1, <3>1, FieldLists
  <2>2. CASE Last(s.stack) = "objectbetween"
    <3>1. T = AnotherOf(Field, "}")
      BY <2>2 DEF Reads, Awaits, Resumes, Literals, Texts
    <3> QED BY <1>1, <2>2, <3>1, FieldLists
  <2> QED BY <2>1, <2>2
<1>4. CASE c = "sp" /\ Return(s, TRUE)
  BY <1>2, <1>3, <1>4, ReadsFirst
<1>5. CASE c = "}" /\ Last(s.stack) = "objectstart" /\ CallOrError(pop_state(s), "end_object")
  <2>1. Sound(pop_state(s), begin_)
    BY <1>1, <1>2, SoundPop
  <2>2. Moves(pop_state(s))
    BY <1>1, <1>5, <2>1, CallMoves
  <2>3. Follows(Then({Empty}, X))
    BY <1>1, <1>2, <2>2, PopFollows
  <2> QED BY <1>3, <1>5, <2>3, ReadsFirst
<1>6. CASE c = Quote /\ CallOnly(Push(Become(s, "objectkey"), "stringkey"), "begin_key")
  <2> DEFINE v == Become(s, "objectkey")
  <2>1. "objectkey" \in Consumers /\ SamePlace(Last(s.stack), "objectkey")
    BY DEF Consumers, SamePlace, Containers
  <2>2. Sound(v, FALSE) /\ Below(v.stack, X) /\ Last(v.stack) = "objectkey"
    BY <1>1, <1>2, <2>1, BecomeBelow
  <2>3. CallOnly(Push(v, "stringkey"), "begin_key")
    BY <1>6
  <2> HIDE DEF v
  <2>4. Path(v.stack) /\ "stringkey" \in Consumers /\ Fits(Last(v.stack), "stringkey")
    BY <2>2 DEF Sound, Consumers, Fits
  <2>5. Len(v.stack) > 1
    <3>1. PICK n \in Nat : n = Len(v.stack)
      BY <2>4 DEF Path
    <3>2. n # 1 /\ n >= 1
      BY <2>2, <2>4, <3>1, LastOfPath DEF Path
    <3>3. n > 1
      BY <3>2
    <3> QED BY <3>1, <3>3
  <2>6. Sound(Push(v, "stringkey"), FALSE)
    BY <2>2, <2>4, <2>5, SoundPush
  <2>7. Moves(Push(v, "stringkey"))
    BY <2>3, <2>6, CallMoves
  <2>8. PICK A \in SUBSET Text : A = TextRest
    BY ThenLanguage DEF TextRest
  <2>9. PICK U \in SUBSET Text : U = KeyRest
    BY ThenLanguage DEF KeyRest
  <2>10. Awaits("stringkey", begin_', lastValue_', lastCodePoint'[2], A)
    BY <2>8 DEF Awaits, Resumes, Texts
  <2>11. Resumes(Last(v.stack), U)
    BY <2>2, <2>9 DEF Resumes
  <2>12. Follows(Then(Then(A, U), X))
    BY <1>1, <2>2, <2>4, <2>7, <2>10, <2>11, PushFollows
  <2>13. c # "sp" /\ c # "}"
    BY <1>6 DEF Quote
  <2>14. Deriv(c, T) = Then(A, U)
    BY <1>3, <1>6, <2>8, <2>9, <2>13
  <2>15. Deriv(c, Then(T, X)) = Then(Deriv(c, T), X)
    BY <1>3, DerivFirst DEF Reads
  <2> QED BY <2>12, <2>14, <2>15
<1>7. CASE /\ c \notin {"sp", Quote} /\ (c = "}" => Last(s.stack) # "objectstart")
           /\ make_error(s)
  <2>1. error_'
    BY <1>7 DEF make_error
  <2> QED BY <1>3, <1>7, <2>1, ReadsFirst
<1> QED BY <1>4, <1>5, <1>6, <1>7 DEF consume_objectstart_, consume_objectbetween_

LEMMA ObjectKeyFollows ==
  ASSUME NEW s, NEW c, NEW T, NEW X, Reads(s, c, T, X), Last(s.stack) = "objectkey",
         consume_objectkey_(s, c)
  PROVE  Follows(Deriv(c, Then(T, X)))
<1>1. /\ c \in AllChars /\ ~error_ /\ Sound(s, begin_) /\ begin_ \in BOOLEAN
      /\ X \in SUBSET Text /\ Below(s.stack, X)
  BY DEF Reads
<1>2. T = KeyRest
  BY DEF Reads, Awaits, Resumes, Literals, Texts
<1>3. /\ Empty \notin T
      /\ Deriv(c, T) = IF c = "sp" THEN T ELSE IF c = ":" THEN PropertyRest ELSE {}
  BY <1>1, <1>2, DerivKeyRest
<1>4. CASE c = "sp" /\ Return(s, TRUE)
  BY <1>3, <1>4, ReadsFirst DEF consume_objectkey_
<1>5. CASE c = ":" /\ Return(Become(s, "objectseparator"), TRUE)
  <2>1. Moves(Become(s, "objectseparator"))
    BY <1>5, ReturnMoves
  <2>2. PICK L \in SUBSET Text : L = PropertyRest
    BY ThenLanguage DEF PropertyRest
  <2>3. Awaits("objectseparator", begin_', lastValue_', lastCodePoint'[2], L)
    BY <2>2 DEF Awaits
  <2>4. "objectseparator" \in Consumers /\ SamePlace(Last(s.stack), "objectseparator")
    BY DEF Consumers, SamePlace, Containers
  <2>5. Follows(Then(L, X))
    BY <1>1, <2>1, <2>3, <2>4, BecomeFollows
  <2> QED BY <1>3, <1>5, <2>2, <2>5, ReadsFirst
<1>6. CASE c \notin {"sp", ":"} /\ make_error(s)
  <2>1. error_'
    BY <1>6 DEF make_error
  <2> QED BY <1>3, <1>6, <2>1, ReadsFirst
<1> QED BY <1>4, <1>5, <1>6 DEF consume_objectkey_

LEMMA ObjectValueFollows ==
  ASSUME NEW s, NEW c, NEW T, NEW X, Reads(s, c, T, X), Last(s.stack) = "objectvalue",
         consume_objectvalue_(s, c)
  PROVE  Follows(Deriv(c, Then(T, X)))
<1>1. T = AfterOne(Field, "}") /\ c \in AllChars
  BY DEF Reads, Awaits, Resumes, Literals, Texts
<1>2. /\ Empty \notin T
      /\ Deriv(c, T) = IF c = "sp" THEN T ELSE IF c = "," THEN AnotherOf(Field, "}")
                       ELSE IF c = "}" THEN {Empty} ELSE {}
  BY <1>1, Brackets, DerivField, DerivAfterOne
<1>3. Len(s.stack) > 1 /\ begin_' = FALSE /\ UNCHANGED << begin_, lastValue_, lastCodePoint >>
  BY ReadsDeep DEF consume_objectvalue_, Structural, valueVars
<1>4. ~error_ /\ Sound(s, begin_) /\ begin_ \in BOOLEAN /\ X \in SUBSET Text /\ Below(s.stack, X)
  BY DEF Reads
<1>5. CASE c = "sp" /\ Return(s, TRUE)
  BY <1>2, <1>5, ReadsFirst DEF consume_objectvalue_
<1>6. CASE c = "}" /\ CallOrError(pop_state(s), "end_object")
  <2>1. Sound(pop_state(s), begin_)
    BY <1>3, <1>4, SoundPop
  <2>2. Moves(pop_state(s))
    BY <1>4, <1>6, <2>1, CallMoves
  <2>3. Follows(Then({Empty}, X))
    BY <1>3, <1>4, <2>2, PopFollows
  <2> QED BY <1>2, <1>6, <2>3, ReadsFirst
<1>7. CASE c = "," /\ Return(Become(s, "objectbetween"), TRUE)
  <2>1. Moves(Become(s, "objectbetween"))
    BY <1>7, ReturnMoves
  <2>2. PICK L \in SUBSET Text : L = AnotherOf(Field, "}")
    BY ThenLanguage DEF AnotherOf
  <2>3. Awaits("objectbetween", begin_', lastValue_', lastCodePoint'[2], L)
    BY <2>2 DEF Awaits
  <2>4. "objectbetween" \in Consumers /\ SamePlace(Last(s.stack), "objectbetween")
    BY DEF Consumers, SamePlace, Containers
  <2>5. Follows(Then(L, X))
    BY <1>4, <2>1, <2>3, <2>4, BecomeFollows
  <2> QED BY <1>2, <1>7, <2>2, <2>5, ReadsFirst
<1>8. CASE c \notin {"sp", "}", ","} /\ make_error(s)
  <2>1. error_'
    BY <1>8 DEF make_error
  <2> QED BY <1>2, <1>8, <2>1, ReadsFirst
<1> QED BY <1>5, <1>6, <1>7, <1>8 DEF consume_objectvalue_

LEMMA ObjectSeparatorFollows ==
  ASSUME NEW s, NEW c, NEW T, NEW X, Reads(s, c, T, X), Last(s.stack) = "objectseparator",
         consume_objectseparator_(s, c)
  PROVE  Follows(Deriv(c, Then(T, X)))
<1> DEFINE v == Become(s, "objectvalue")
<1>1. /\ ~error_ /\ Sound(s, begin_) /\ begin_ \in BOOLEAN /\ X \in SUBSET Text
      /\ Below(s.stack, X) /\ c \in AllChars
  BY DEF Reads
<1>2. T = PropertyRest
  BY DEF Reads, Awaits, Resumes, Literals, Texts
<1>3. PICK B \in SUBSET Text : B = Then(Repeated(Field), OneOf({"}"}))
  BY ThenLanguage
<1>4. PICK U \in SUBSET Text : U = AfterOne(Field, "}")
  BY ThenLanguage DEF AfterOne
<1>5. T = Then(Element, B) /\ U = Then(Spaces, B)
  BY <1>2, <1>3, <1>4 DEF PropertyRest, AfterOne
<1>6. Empty \notin T /\ Deriv(c, T) = IF c = "sp" THEN T ELSE Then(Deriv(c, ReadValue), U)
  BY <1>1, <1>5, DerivItem
<1>7. Deriv(c, Then(T, X)) = Then(Deriv(c, T), X)
  BY <1>6, DerivFirst DEF Reads
<1>8. "objectvalue" \in Consumers /\ SamePlace(Last(s.stack), "objectvalue")
  BY DEF Consumers, SamePlace, Containers
<1>9. /\ Sound(v, FALSE) /\ begin_ = FALSE /\ Below(v.stack, X) /\ Last(v.stack) = "objectvalue"
  BY <1>1, <1>8, BecomeBelow
<1>10. Resumes(Last(v.stack), U)
  BY <1>4, <1>9 DEF Resumes
<1>11. \/ c = "sp" /\ Return(s, TRUE) /\ Structural
       \/ c = Quote /\ CallOnly(Push(v, "string"), "begin_string") /\ Structural
       \/ c = "{" /\ CallOrError(Push(v, "objectstart"), "begin_object") /\ Structural
       \/ c = "[" /\ CallOrError(Push(v, "arraystart"), "begin_array") /\ Structural
       \/ StartItem(v, c)
       \/ c \notin CallFree \cup {"sp", Quote, "{", "["} /\ make_error(s) /\ Structural
  BY DEF consume_objectseparator_
<1> HIDE DEF v
<1>12. CASE c = "sp" /\ Return(s, TRUE) /\ Structural
  BY <1>6, <1>12, ReadsFirst
<1>13. CASE /\ c # "sp"
            /\ \/ c = Quote /\ CallOnly(Push(v, "string"), "begin_string") /\ Structural
               \/ c = "{" /\ CallOrError(Push(v, "objectstart"), "begin_object") /\ Structural
               \/ c = "[" /\ CallOrError(Push(v, "arraystart"), "begin_array") /\ Structural
               \/ StartItem(v, c)
               \/ c \notin CallFree \cup {"sp", Quote, "{", "["} /\ make_error(s) /\ Structural
  <2>1. ASSUME NEW f \in {"string", "objectstart", "arraystart"}
        PROVE  Sound(Push(v, f), FALSE)
    <3>1. f \in Consumers /\ Fits(Last(v.stack), f) /\ Last(v.stack) # "initial"
      BY <1>9 DEF Consumers, Fits, Containers
    <3>2. Path(v.stack)
      BY <1>9 DEF Sound
    <3>3. PICK n \in Nat : n = Len(v.stack)
      BY <3>2 DEF Path
    <3>4. n # 1 /\ n >= 1
      BY <3>1, <3>2, <3>3, LastOfPath DEF Path
    <3>5. n > 1
      BY <3>4
    <3>6. Len(v.stack) > 1
      BY <3>3, <3>5
    <3> QED BY <1>9, <3>1, <3>6, SoundPush
  <2>2. ASSUME NEW f \in {"string", "objectstart", "arraystart"}, NEW h,
               CallOnly(Push(v, f), h) \/ CallOrError(Push(v, f), h)
        PROVE  Moves(Push(v, f))
    BY <2>1, <2>2, CallMoves
  <2>3. begin_' = FALSE
    BY <1>9, <1>13 DEF Structural, StartItem
  <2>4. \/ c = Quote /\ Moves(Push(v, "string"))
        \/ c = "{" /\ Moves(Push(v, "objectstart"))
        \/ c = "[" /\ Moves(Push(v, "arraystart"))
        \/ StartItem(v, c)
        \/ c \notin CallFree \cup {Quote, "{", "["} /\ error_'
    BY <1>13, <2>2 DEF make_error
  <2>5. Follows(Then(Then(Deriv(c, ReadValue), U), X))
    BY <1>1, <1>9, <1>10, <2>3, <2>4, ValueFollows
  <2>6. Deriv(c, T) = Then(Deriv(c, ReadValue), U)
    BY <1>6, <1>13
  <2> QED BY <1>7, <2>5, <2>6
<1>14. Quote # "sp" /\ "sp" \notin CallFree
  BY DEF Quote, CallFree, Digits19
<1>15. StartItem(v, c) => c # "sp"
  BY <1>14 DEF StartItem
<1> QED BY <1>11, <1>12, <1>13, <1>14, <1>15

-----------------------------------------------------------------------------
(* The consumers of literals and numbers.                                  *)

LEMMA LiteralFollows ==
  ASSUME NEW s, NEW c, NEW T, NEW X, Reads(s, c, T, X), Last(s.stack) \in Literals,
         consume_literal_(s, c)
  PROVE  Follows(Deriv(c, Then(T, X)))
<1> DEFINE f == Last(s.stack)
<1>1. /\ ~error_ /\ Sound(s, begin_) /\ begin_ \in BOOLEAN /\ X \in SUBSET Text
      /\ Below(s.stack, X) /\ c \in AllChars
  BY DEF Reads
<1>2. T = {LiteralRest[f]}
  BY DEF Reads, Awaits, Resumes, Literals, Texts
<1>3. f # "initial"
  BY DEF Literals
<1>4. Len(s.stack) > 1 /\ begin_ = FALSE
  BY <1>3, ReadsDeep
<1>5. Structural /\ begin_' = FALSE
  BY <1>4 DEF consume_literal_, Structural
<1>6. ASSUME NEW d \in AllChars, NEW u \in Text, T = {Ahead(d, u)}
      PROVE  Empty \notin T /\ Deriv(c, T) = IF c = d THEN {u} ELSE {}
  BY <1>1, <1>6, AheadText, DerivWord
<1> HIDE DEF f
<1>7. CASE /\ f \in DOMAIN LiteralArcs
           /\ IF c = LiteralArcs[f][1] THEN Return(Become(s, LiteralArcs[f][2]), TRUE)
                                       ELSE make_error(s)
  <2>1. PICK d \in AllChars : d = LiteralArcs[f][1]
    BY <1>7, LiteralTails
  <2>2. PICK g \in Literals : g = LiteralArcs[f][2]
    BY <1>7, LiteralTails
  <2>3. PICK u \in Text : u = LiteralRest[g]
    BY LiteralTails
  <2>4. T = {Ahead(d, u)}
    BY <1>2, <1>7, <2>1, <2>2, <2>3, LiteralTails
  <2>5. Empty \notin T /\ Deriv(c, T) = IF c = d THEN {u} ELSE {}
    BY <1>6, <2>4
  <2>6. CASE c = d
    <3>1. Moves(Become(s, g))
      BY <1>7, <2>1, <2>2, <2>6, ReturnMoves
    <3>2. g \in Consumers /\ SamePlace(Last(s.stack), g)
      BY DEF Consumers, SamePlace
    <3>3. PICK L \in SUBSET Text : L = {u}
      OBVIOUS
    <3>4. Awaits(g, begin_', lastValue_', lastCodePoint'[2], L)
      BY <2>3, <3>3 DEF Awaits
    <3>5. Follows(Then(L, X))
      BY <1>1, <3>1, <3>2, <3>4, BecomeFollows
    <3> QED BY <2>5, <2>6, <3>3, <3>5, ReadsFirst
  <2>7. CASE c # d
    <3>1. error_'
      BY <1>7, <2>1, <2>7 DEF make_error
    <3> QED BY <2>5, <2>7, <3>1, ReadsFirst
  <2> QED BY <2>6, <2>7
<1>8. CASE /\ f \in DOMAIN LiteralEnds
           /\ IF c = LiteralEnds[f][1] THEN CallOrError(pop_state(s), LiteralEnds[f][2])
                                       ELSE make_error(s)
  <2>1. PICK d \in AllChars : d = LiteralEnds[f][1]
    BY <1>8, LiteralTails
  <2>2. T = {Ahead(d, Empty)}
    BY <1>2, <1>8, <2>1, LiteralTails
  <2>3. Empty \notin T /\ Deriv(c, T) = IF c = d THEN {Empty} ELSE {}
    BY <1>6, <2>2, EmptyText
  <2>4. CASE c = d
    <3>1. CallOrError(pop_state(s), LiteralEnds[f][2])
      BY <1>8, <2>1, <2>4
    <3>2. Sound(pop_state(s), begin_)
      BY <1>1, <1>4, SoundPop
    <3>3. Moves(pop_state(s))
      BY <1>1, <3>1, <3>2, CallMoves
    <3>4. Follows(Then({Empty}, X))
      BY <1>1, <1>4, <1>5, <3>3, PopFollows
    <3> QED BY <2>3, <2>4, <3>4, ReadsFirst
  <2>5. CASE c # d
    <3>1. error_'
      BY <1>8, <2>1, <2>5 DEF make_error
    <3> QED BY <2>3, <2>5, <3>1, ReadsFirst
  <2> QED BY <2>4, <2>5
<1> QED BY <1>7, <1>8 DEF consume_literal_, f

\* A number stands in an array or in an object, neither of which goes on with a
\* character of a number.
LEMMA NumberUnder ==
  ASSUME NEW s, NEW c, NEW T, NEW X, Reads(s, c, T, X), Last(s.stack) \in Numbers
  PROVE  \E U \in SUBSET Text, Y \in SUBSET Text :
           /\ Resumes(s.stack[Len(s.stack) - 1], U) /\ Below(Front(s.stack), Y)
           /\ X = Then(U, Y) /\ s.stack[Len(s.stack) - 1] \in {"array", "objectvalue"}
           /\ c \in NumberChars => Deriv(c, X) = {}
<1>1. Last(s.stack) # "initial"
  BY DEF Numbers
<1>2. Len(s.stack) > 1 /\ Path(s.stack) /\ c \in AllChars
  BY <1>1, ReadsDeep DEF Reads
<1>3. PICK U \in SUBSET Text, Y \in SUBSET Text :
        Resumes(s.stack[Len(s.stack) - 1], U) /\ Below(Front(s.stack), Y) /\ X = Then(U, Y)
  BY <1>2, BelowFront DEF Reads
<1>4. PICK g : g = s.stack[Len(s.stack) - 1]
  OBVIOUS
<1>5. g \in {"array", "objectvalue"}
  BY <1>2, <1>4, LastOfPath DEF Fits, Numbers, Containers, Escapes
<1>6. Resumes(g, U)
  BY <1>3, <1>4
<1>7. Empty \notin U /\ (c \in NumberChars => Deriv(c, U) = {})
  BY <1>5, <1>6, ResumesLanguage
<1>8. Deriv(c, Then(U, Y)) = Then(Deriv(c, U), Y) /\ Then({}, Y) = {}
  BY <1>2, <1>7, DerivFirst, ThenEmpty
<1> QED BY <1>3, <1>4, <1>5, <1>7, <1>8

LEMMA EndNumberFollows ==
  ASSUME NEW s, NEW c, NEW T, NEW X, Reads(s, c, T, X), Last(s.stack) \in Numbers,
         EndNumber(s, c), Deriv(c, T) = {}, Empty \in T <=> lastValue_ \in StrtodReadsAll
  PROVE  Follows(Deriv(c, Then(T, X)))
<1>1. /\ ~error_ /\ Sound(s, begin_) /\ begin_ \in BOOLEAN /\ X \in SUBSET Text
      /\ Below(s.stack, X) /\ c \in AllChars /\ T \in SUBSET Text
  BY DEF Reads
<1>2. Last(s.stack) # "initial"
  BY DEF Numbers
<1>3. Len(s.stack) > 1 /\ begin_ = FALSE /\ Path(s.stack)
  BY <1>2, ReadsDeep
<1>4. PICK U \in SUBSET Text, Y \in SUBSET Text :
        /\ Resumes(s.stack[Len(s.stack) - 1], U) /\ Below(Front(s.stack), Y)
        /\ X = Then(U, Y) /\ s.stack[Len(s.stack) - 1] \in {"array", "objectvalue"}
  BY NumberUnder
<1>5. Deriv(c, Then(T, X)) = IF Empty \in T THEN Deriv(c, X) ELSE {}
  <2>1. Deriv(c, Then(T, X)) = Then(Deriv(c, T), X)
                                 \cup (IF Empty \in T THEN Deriv(c, X) ELSE {})
    BY <1>1, DerivThen
  <2>2. Then({}, X) = {}
    BY <1>1, ThenEmpty
  <2> QED BY <2>1, <2>2
<1>6. CASE lastValue_ \in StrtodReadsAll /\ Reconsume(Called(pop_state(s), "double", TRUE), c)
  <2> DEFINE t == Called(pop_state(s), "double", TRUE)
  <2>1. Sound(pop_state(s), begin_)
    BY <1>1, <1>3, SoundPop
  <2>2. Sound(t, begin_) /\ t.stack = pop_state(s).stack
    BY <1>1, <2>1, SoundCalled
  <2>3. pop_state(s).stack = Front(s.stack)
    <3>1. IsRecord(s)
      BY <1>1 DEF Sound, IsRecord
    <3> QED BY <3>1 DEF IsRecord, pop_state
  <2>4. Last(t.stack) = s.stack[Len(s.stack) - 1]
    BY <1>3, <2>2, <2>3, FrontPath
  <2>5. Reconsume(t, c)
    BY <1>6
  <2> HIDE DEF t
  <2>6. Awaits(Last(t.stack), begin_, lastValue_, lastCodePoint[2], U) /\ Below(t.stack, Y)
    BY <1>4, <2>2, <2>3, <2>4 DEF Awaits
  <2>7. Reads(t, c, U, Y)
    BY <1>1, <2>2, <2>6 DEF Reads
  <2>8. Follows(Deriv(c, Then(U, Y)))
    BY <2>5, <2>7, ArrayFollows, ObjectValueFollows DEF Reconsume
  <2> QED BY <1>4, <1>5, <1>6, <2>8
<1>7. CASE lastValue_ \notin StrtodReadsAll /\ make_error(pop_state(s))
  <2>1. error_'
    BY <1>7 DEF make_error
  <2> QED BY <1>5, <1>7, <2>1 DEF Follows
<1> QED BY <1>6, <1>7, AcceptingAssumption DEF EndNumber, Answers

LEMMA AppendDigitFollows ==
  ASSUME NEW s, NEW c, NEW T, NEW X, Reads(s, c, T, X), Last(s.stack) \in Numbers,
         AppendDigit(s, c), c \in NumberChars, lastValue_ \in Classes,
         Deriv(c, T) = NumberTail(Extended(lastValue_, c))
  PROVE  Follows(Deriv(c, Then(T, X)))
<1>1. /\ ~error_ /\ Sound(s, begin_) /\ begin_ \in BOOLEAN /\ X \in SUBSET Text
      /\ Below(s.stack, X) /\ c \in AllChars /\ T \in SUBSET Text
  BY DEF Reads
<1>2. Deriv(c, X) = {}
  BY NumberUnder
<1>3. Deriv(c, Then(T, X)) = Then(Deriv(c, T), X)
                               \cup (IF Empty \in T THEN Deriv(c, X) ELSE {})
  BY <1>1, DerivThen
<1>4. Moves(Become(s, "number")) /\ lastValue_' = Extended(lastValue_, c)
  BY ReturnMoves DEF AppendDigit
<1>5. Extended(lastValue_, c) \in Classes
  BY ExtendedClass
<1>6. PICK L \in SUBSET Text : L = Deriv(c, T)
  BY DerivLanguage
<1>7. Awaits("number", begin_', lastValue_', lastCodePoint'[2], L)
  BY <1>4, <1>5, <1>6 DEF Awaits
<1>8. "number" \in Consumers /\ SamePlace(Last(s.stack), "number")
  BY DEF Consumers, Numbers, SamePlace
<1>9. Follows(Then(L, X))
  BY <1>1, <1>4, <1>7, <1>8, BecomeFollows
<1> QED BY <1>2, <1>3, <1>6, <1>9

LEMMA NumberFollows ==
  ASSUME NEW s, NEW c, NEW T, NEW X, Reads(s, c, T, X),
         \/ Last(s.stack) = "number" /\ consume_number_(s, c)
         \/ Last(s.stack) = "numberstarting0" /\ consume_numberstarting0_(s, c)
  PROVE  Follows(Deriv(c, Then(T, X)))
<1>1. c \in AllChars /\ Last(s.stack) \in Numbers
  BY DEF Reads, Numbers
<1>2. CASE Last(s.stack) = "number" /\ consume_number_(s, c)
  <2>1. lastValue_ \in Classes /\ T = NumberTail(lastValue_)
    BY <1>2 DEF Reads, Awaits, Resumes, Literals, Texts
  <2>2. /\ Empty \in T <=> lastValue_ \in StrtodReadsAll
        /\ Deriv(c, T) = IF c \in NumberChars THEN NumberTail(Extended(lastValue_, c)) ELSE {}
    BY <1>1, <2>1, DerivNumber
  <2>3. CASE c \in NumberChars
    BY <1>1, <1>2, <2>1, <2>2, <2>3, AppendDigitFollows DEF consume_number_
  <2>4. CASE c \notin NumberChars
    BY <1>1, <1>2, <2>2, <2>4, EndNumberFollows DEF consume_number_
  <2> QED BY <2>3, <2>4
<1>3. CASE Last(s.stack) = "numberstarting0" /\ consume_numberstarting0_(s, c)
  <2>1. lastValue_ = "zero" /\ T = ZeroTail
    BY <1>3 DEF Reads, Awaits, Resumes, Literals, Texts
  <2>2. /\ Empty \in T
        /\ Deriv(c, T) = IF c = "." THEN FracTail ELSE IF c \in Exponent THEN ExpTail ELSE {}
    BY <1>1, <2>1, DerivZeroTail
  <2>3. lastValue_ \in Classes /\ lastValue_ \in StrtodReadsAll
    BY <2>1 DEF Classes, Arcs, StrtodReadsAll
  <2>4. CASE c \in {"."} \cup Exponent /\ AppendDigit(s, c)
    <3>1. c \in NumberChars
      BY <2>4 DEF NumberChars
    <3>2. c = "." => Extended(lastValue_, c) = "frac"
      BY <2>1, <2>3, <3>1, ArcTaken DEF Arcs, Arc
    <3>3. c \in Exponent => Extended(lastValue_, c) = "exp"
      BY <2>1, <2>3, <3>1, ArcTaken DEF Arcs, Arc
    <3>4. Deriv(c, T) = NumberTail(Extended(lastValue_, c))
      <4>1. "." \notin Exponent
        BY DEF Exponent
      <4> QED BY <2>2, <2>4, <3>2, <3>3, <4>1, TailOfClass
    <3> QED BY <1>1, <2>3, <2>4, <3>1, <3>4, AppendDigitFollows
  <2>5. CASE c \in Digits19 \cup Signs /\ make_error(s)
    <3>1. c \in NumberChars /\ c \notin {"."} \cup Exponent
      BY <2>5 DEF NumberChars, Digits19, Signs, Exponent
    <3>2. Deriv(c, T) = {}
      BY <2>2, <3>1
    <3>3. Deriv(c, X) = {}
      BY <1>1, <3>1, NumberUnder
    <3>4. T \in SUBSET Text /\ X \in SUBSET Text
      BY DEF Reads
    <3>5. Deriv(c, Then(T, X)) = Then(Deriv(c, T), X)
                                   \cup (IF Empty \in T THEN Deriv(c, X) ELSE {})
      BY <1>1, <3>4, DerivThen
    <3>6. Then({}, X) = {}
      BY <3>4, ThenEmpty
    <3>7. Deriv(c, Then(T, X)) = {}
      BY <3>2, <3>3, <3>5, <3>6
    <3> QED BY <2>5, <3>7 DEF make_error, Follows
  <2>6. CASE c \notin {"."} \cup Exponent \cup Digits19 \cup Signs /\ EndNumber(s, c)
    <3>1. Deriv(c, T) = {}
      BY <2>2, <2>6
    <3> QED BY <1>1, <2>2, <2>3, <2>6, <3>1, EndNumberFollows
  <2> QED BY <1>3, <2>4, <2>5, <2>6 DEF consume_numberstarting0_
<1> QED BY <1>2, <1>3

-----------------------------------------------------------------------------
(* The bottom of the stack, and texts.                                     *)

\* Before the document: T is the document itself, and nothing is below.
LEMMA InitialFollows ==
  ASSUME NEW s, NEW c, NEW T, NEW X, Reads(s, c, T, X), Last(s.stack) = "initial",
         consume_initial_(s, c)
  PROVE  Follows(Deriv(c, Then(T, X)))
<1>1. /\ ~error_ /\ Sound(s, begin_) /\ begin_ \in BOOLEAN /\ X \in SUBSET Text
      /\ Below(s.stack, X) /\ c \in AllChars /\ T \in SUBSET Text
      /\ Awaits("initial", begin_, lastValue_, lastCodePoint[2], T)
  BY DEF Reads
<1>2. Path(s.stack)
  BY <1>1 DEF Sound
<1>3. Len(s.stack) = 1
  BY <1>2, LastOfPath
<1>4. X = {Empty}
  BY <1>1, <1>2, <1>3, BelowLanguage
<1>5. Then(T, X) = T /\ \A A \in SUBSET Text : Then(A, X) = A
  BY <1>1, <1>4, ThenEmpty
<1>6. T = IF begin_ THEN Document ELSE Spaces
  BY <1>1 DEF Awaits, Resumes, Literals, Texts
<1>7. Deriv("sp", ReadComposite) = {}
  BY Brackets, DerivReadComposite DEF Quote
<1>8. begin_ => Deriv(c, T) = IF c = "sp" THEN T ELSE Then(Deriv(c, ReadComposite), Spaces)
  BY <1>1, <1>6, <1>7, DerivReadComposite, DerivPadded DEF Document
<1>9. ~begin_ => Deriv(c, T) = IF c = "sp" THEN T ELSE {}
  BY <1>1, <1>6, DerivSpaces
<1>10. ASSUME NEW f \in Consumers, f \in {"objectstart", "arraystart", "string"}, NEW h,
              begin_, begin_' = FALSE, CallOrError(Push(s, f), h),
              Awaits(f, begin_', lastValue_', lastCodePoint'[2], Deriv(c, ReadComposite)),
              c # "sp"
       PROVE  Follows(Deriv(c, Then(T, X)))
  <2>1. Fits(Last(s.stack), f)
    BY <1>10 DEF Fits, Containers
  <2>2. Sound(Push(s, f), FALSE)
    BY <1>1, <1>10, <2>1, SoundPush
  <2>3. Moves(Push(s, f))
    BY <1>10, <2>2, CallMoves
  <2>4. Resumes(Last(s.stack), Spaces) /\ Spaces \in SUBSET Text
    BY SpacesText DEF Resumes
  <2>5. PICK A \in SUBSET Text : A = Deriv(c, ReadComposite)
    BY DerivLanguage
  <2>6. Awaits(f, begin_', lastValue_', lastCodePoint'[2], A)
    BY <1>10, <2>5
  <2>7. Follows(Then(Then(A, Spaces), X))
    BY <1>1, <1>10, <2>3, <2>4, <2>6, PushFollows
  <2>8. Then(Then(A, Spaces), X) = Then(A, Spaces)
    BY <1>5, ThenLanguage
  <2> QED BY <1>5, <1>8, <1>10, <2>5, <2>7, <2>8
<1>11. {"objectstart", "arraystart", "string"} \subseteq Consumers
  BY DEF Consumers
<1>12. "{" # Quote /\ "[" # Quote /\ "sp" # Quote
  BY DEF Quote
<1>13. CASE /\ c = "{" /\ begin_
            /\ begin_' = FALSE
            /\ CallOrError(Push(s, "objectstart"), "begin_object")
  <2>1. Deriv(c, ReadComposite) = FirstOf(Field, "}")
    BY <1>1, <1>12, <1>13, DerivReadComposite
  <2>2. Awaits("objectstart", begin_', lastValue_', lastCodePoint'[2], Deriv(c, ReadComposite))
    BY <2>1 DEF Awaits
  <2> QED BY <1>10, <1>11, <1>13, <2>2
<1>14. CASE /\ c = "[" /\ begin_
            /\ begin_' = FALSE
            /\ CallOrError(Push(s, "arraystart"), "begin_array")
  <2>1. Deriv(c, ReadComposite) = FirstOf(Element, "]")
    BY <1>1, <1>12, <1>14, DerivReadComposite
  <2>2. Awaits("arraystart", begin_', lastValue_', lastCodePoint'[2], Deriv(c, ReadComposite))
    BY <2>1 DEF Awaits
  <2> QED BY <1>10, <1>11, <1>14, <2>2
<1>15. CASE /\ c = Quote /\ begin_
            /\ begin_' = FALSE
            /\ CallOrError(Push(s, "string"), "begin_string")
  <2>1. Deriv(c, ReadComposite) = TextRest
    BY <1>1, <1>15, DerivReadComposite
  <2>2. Awaits("string", begin_', lastValue_', lastCodePoint'[2], Deriv(c, ReadComposite))
    BY <2>1 DEF Awaits, Resumes, Texts
  <2> QED BY <1>10, <1>11, <1>12, <1>15, <2>2
<1>16. CASE c = "sp" /\ Return(s, TRUE) /\ Structural
  <2>1. Moves(s) /\ UNCHANGED << begin_, lastValue_, lastCodePoint >>
    BY <1>16, ReturnMoves DEF Structural, valueVars
  <2>2. Follows(Then(T, X))
    BY <2>1, StepFollows DEF Reads
  <2> QED BY <1>1, <1>5, <1>8, <1>9, <1>16, <2>2
<1>17. CASE c # "sp" /\ (c \notin {"{", "[", Quote} \/ ~begin_) /\ make_error(s)
  <2>1. Deriv(c, T) = {}
    <3>1. CASE begin_
      <4>1. Deriv(c, ReadComposite) = {}
        BY <1>1, <1>17, <3>1, DerivReadComposite
      <4>2. Then({}, Spaces) = {}
        BY SpacesText, ThenEmpty
      <4> QED BY <1>8, <1>17, <3>1, <4>1, <4>2
    <3>2. CASE ~begin_
      BY <1>9, <1>17, <3>2
    <3> QED BY <3>1, <3>2
  <2> QED BY <1>5, <1>17, <2>1 DEF make_error, Follows
<1> QED BY <1>13, <1>14, <1>15, <1>16, <1>17 DEF consume_initial_

LEMMA TextFollows ==
  ASSUME NEW s, NEW c, NEW T, NEW X, Reads(s, c, T, X), Last(s.stack) \in Texts,
         NEW content, NEW closing, consume_text_(s, c, content, closing)
  PROVE  Follows(Deriv(c, Then(T, X)))
<1>1. /\ ~error_ /\ Sound(s, begin_) /\ begin_ \in BOOLEAN /\ X \in SUBSET Text
      /\ Below(s.stack, X) /\ c \in AllChars /\ T \in SUBSET Text
      /\ Awaits(Last(s.stack), begin_, lastValue_, lastCodePoint[2], T)
  BY DEF Reads
<1>2. T = TextRest
  BY DEF Reads, Awaits, Resumes, Literals, Texts
<1>3. Len(s.stack) > 1 /\ begin_ = FALSE /\ Path(s.stack)
  BY ReadsDeep DEF Texts
<1>4. /\ Empty \notin T
      /\ Deriv(c, T) = IF c = Quote THEN {Empty} ELSE IF c = Backslash THEN Then(EscapeTail, T)
                       ELSE IF c \in Plain THEN T ELSE {}
  BY <1>1, <1>2, DerivTextRest
<1>5. Deriv(c, Then(T, X)) = Then(Deriv(c, T), X)
  BY <1>4, DerivFirst DEF Reads
<1>6. Answers(content) = {TRUE} /\ ContentAnswers(content) = {TRUE} /\ Answers(closing) = {TRUE}
  BY AcceptingAssumption DEF Answers, ContentAnswers
<1>7. ASSUME NEW t, Sound(t, FALSE)
      PROVE  /\ ContentCalled(t, content, TRUE).stack = t.stack
             /\ Sound(ContentCalled(t, content, TRUE), FALSE)
  BY <1>7, SoundCalled DEF ContentCalled
<1>8. CASE c = Backslash /\ BeginEscape(s, content)
  <2>1. "stringescape" \in Consumers /\ Fits(Last(s.stack), "stringescape")
    BY DEF Consumers, Fits, Escapes, Texts
  <2>2. Sound(Push(s, "stringescape"), FALSE)
    BY <1>1, <1>3, <2>1, SoundPush
  <2>3. Return(ContentCalled(Push(s, "stringescape"), content, TRUE), TRUE)
    BY <1>6, <1>8 DEF BeginEscape
  <2>4. Moves(Push(s, "stringescape"))
    BY <1>7, <2>2, <2>3 DEF Return, Moves
  <2>5. PICK E \in SUBSET Text : E = EscapeTail
    BY <1>1, DerivEscapeTail
  <2>6. Awaits("stringescape", begin_', lastValue_', lastCodePoint'[2], E)
    BY <2>5 DEF Awaits
  <2>7. Resumes(Last(s.stack), T)
    BY <1>2 DEF Resumes
  <2>8. Follows(Then(Then(E, T), X))
    BY <1>1, <2>1, <2>4, <2>6, <2>7, PushFollows
  <2>9. Quote # Backslash
    BY DEF Quote, Backslash
  <2> QED BY <1>4, <1>5, <1>8, <2>5, <2>8, <2>9
<1>9. CASE c = Quote /\ CloseText(s, content, closing)
  <2>1. Sound(pop_state(s), FALSE)
    BY <1>1, <1>3, SoundPop
  <2>2. CallOrError(ContentCalled(pop_state(s), content, TRUE), closing)
    BY <1>6, <1>9 DEF CloseText
  <2>3. Moves(ContentCalled(pop_state(s), content, TRUE))
    BY <1>7, <2>1, <2>2, CallMoves
  <2>4. Moves(pop_state(s)) /\ begin_' = FALSE
    BY <1>3, <1>7, <1>9, <2>1, <2>3 DEF Moves, CloseText
  <2>5. Follows(Then({Empty}, X))
    BY <1>1, <1>3, <2>4, PopFollows
  <2> QED BY <1>4, <1>5, <1>9, <2>5
<1>10. CASE c = "ctrl" /\ make_error(s)
  <2>1. Deriv(c, T) = {}
    BY <1>4, <1>10 DEF Plain, Quote, Backslash
  <2>2. Then({}, X) = {}
    BY <1>1, ThenEmpty
  <2> QED BY <1>5, <1>10, <2>1, <2>2 DEF make_error, Follows
<1>11. CASE c \notin {Backslash, Quote, "ctrl"} /\ OrdinaryCharacter(s)
  <2>1. Deriv(c, T) = T
    BY <1>1, <1>4, <1>11 DEF Plain
  <2>2. Moves(s) /\ UNCHANGED << begin_, lastValue_, lastCodePoint >>
    BY <1>11, ReturnMoves DEF OrdinaryCharacter, valueVars
  <2>3. Follows(Then(T, X))
    BY <2>2, StepFollows DEF Reads
  <2> QED BY <1>5, <2>1, <2>3
<1> QED BY <1>8, <1>9, <1>10, <1>11 DEF consume_text_

-----------------------------------------------------------------------------
(* Escapes.                                                                *)

\* The next consumer of the escape.
LEMMA EscapeContinues ==
  ASSUME NEW s, NEW c, NEW T, NEW X, Reads(s, c, T, X), Last(s.stack) \in Escapes,
         Empty \notin T, NEW g \in Escapes, Moves(Become(s, g)),
         NEW L, L = Deriv(c, T), Awaits(g, begin_', lastValue_', lastCodePoint'[2], L)
  PROVE  Follows(Deriv(c, Then(T, X)))
<1>1. /\ ~error_ /\ Sound(s, begin_) /\ begin_ \in BOOLEAN /\ X \in SUBSET Text
      /\ Below(s.stack, X) /\ c \in AllChars
  BY DEF Reads
<1>2. g \in Consumers /\ SamePlace(Last(s.stack), g)
  BY DEF Consumers, SamePlace
<1>3. L \in SUBSET Text
  BY DerivLanguage
<1>4. Follows(Then(L, X))
  BY <1>1, <1>2, <1>3, BecomeFollows
<1> QED BY <1>4, ReadsFirst

\* The escape is over and the text goes on.
LEMMA EscapeLeaves ==
  ASSUME NEW s, NEW c, NEW T, NEW X, Reads(s, c, T, X), Last(s.stack) \in Escapes,
         Empty \notin T, Deriv(c, T) = {Empty}, NEW h, CallOnly(PopBack(s), h),
         begin_' = begin_
  PROVE  Follows(Deriv(c, Then(T, X)))
<1>1. /\ ~error_ /\ Sound(s, begin_) /\ begin_ \in BOOLEAN /\ X \in SUBSET Text
      /\ Below(s.stack, X)
  BY DEF Reads
<1>2. Last(s.stack) # "initial"
  BY DEF Escapes
<1>3. Len(s.stack) > 1 /\ begin_ = FALSE
  BY <1>2, ReadsDeep
<1>4. Sound(PopBack(s), begin_)
  BY <1>1, SoundPopBack
<1>5. Moves(PopBack(s))
  BY <1>1, <1>4, CallMoves
<1>6. Follows(Then({Empty}, X))
  BY <1>1, <1>3, <1>5, PopFollows
<1> QED BY <1>6, ReadsFirst

\* A character no escape goes on with.
LEMMA EscapeBreaks ==
  ASSUME NEW s, NEW c, NEW T, NEW X, Reads(s, c, T, X), Empty \notin T,
         Deriv(c, T) = {}, NEW t, make_error(t)
  PROVE  Follows(Deriv(c, Then(T, X)))
<1>1. error_'
  BY DEF make_error
<1> QED BY <1>1, ReadsFirst

LEMMA FirstTailLanguage ==
  ASSUME NEW v
  PROVE  /\ Empty \notin FirstTail4(v) /\ Empty \notin FirstTail3(v)
         /\ Empty \notin FirstTail2(v) /\ Empty \notin FirstTail1(v)
<1>1. PICK E \in SUBSET Text : E = UnitEscape(Low, 0) /\ Empty \notin E
  BY UnitEscapeLanguage
<1>2. ASSUME NEW A \in SUBSET Text, NEW B \in SUBSET Text, Empty \notin A, Empty \notin B
      PROVE  Empty \notin A \cup Then(B, E)
  BY <1>1, <1>2, EmptyInThen
<1>3. ASSUME NEW units
      PROVE  /\ UnitTail4(units, v) \in SUBSET Text /\ Empty \notin UnitTail4(units, v)
             /\ UnitTail3(units, v) \in SUBSET Text /\ Empty \notin UnitTail3(units, v)
             /\ UnitTail2(units, v) \in SUBSET Text /\ Empty \notin UnitTail2(units, v)
             /\ UnitTail1(units, v) \in SUBSET Text /\ Empty \notin UnitTail1(units, v)
  BY UnitTailLanguage
<1>4. Empty \notin FirstTail4(v)
  BY <1>1, <1>2, <1>3 DEF FirstTail4
<1>5. Empty \notin FirstTail3(v)
  BY <1>1, <1>2, <1>3 DEF FirstTail3
<1>6. Empty \notin FirstTail2(v)
  BY <1>1, <1>2, <1>3 DEF FirstTail2
<1>7. Empty \notin FirstTail1(v)
  BY <1>1, <1>2, <1>3 DEF FirstTail1
<1> QED BY <1>4, <1>5, <1>6, <1>7

LEMMA StringEscapeFollows ==
  ASSUME NEW s, NEW c, NEW T, NEW X, Reads(s, c, T, X), Last(s.stack) = "stringescape",
         consume_stringescape_(s, c)
  PROVE  Follows(Deriv(c, Then(T, X)))
<1>1. c \in AllChars /\ T = EscapeTail /\ Last(s.stack) \in Escapes
  BY DEF Reads, Awaits, Resumes, Literals, Texts, Escapes
<1>2. /\ Empty \notin T
      /\ Deriv(c, T) = IF c \in OneCharEscapes THEN {Empty}
                       ELSE IF c = "u" THEN FirstTail4(0) ELSE {}
  BY <1>1, DerivEscapeTail
<1>3. CASE /\ c = "u" /\ Return(Become(s, "stringuvalue"), TRUE)
           /\ lastCodePoint' = << 0, 0 >>
  <2>1. Moves(Become(s, "stringuvalue")) /\ "stringuvalue" \in Escapes
    BY <1>3, ReturnMoves DEF Escapes
  <2>2. c \notin OneCharEscapes
    BY <1>3 DEF OneCharEscapes, Quote, Backslash
  <2>3. Deriv(c, T) = FirstTail4(0)
    BY <1>2, <1>3, <2>2
  <2>4. lastCodePoint'[2] = 0
    BY <1>3
  <2>5. Awaits("stringuvalue", begin_', lastValue_', lastCodePoint'[2], Deriv(c, T))
    BY <2>3, <2>4 DEF Awaits
  <2> QED BY <1>1, <1>2, <2>1, <2>5, EscapeContinues
<1>4. CASE c \in OneCharEscapes /\ CallOnly(PopBack(s), Content) /\ Structural
  BY <1>1, <1>2, <1>4, EscapeLeaves DEF Structural
<1>5. CASE c \notin {"u"} \cup OneCharEscapes /\ make_error(s)
  BY <1>2, <1>5, EscapeBreaks
<1> QED BY <1>3, <1>4, <1>5 DEF consume_stringescape_

\* The two letters in front of the second unit.
LEMMA PairFollows ==
  ASSUME NEW s, NEW c, NEW T, NEW X, Reads(s, c, T, X), Last(s.stack) \in DOMAIN PairArcs,
         consume_stringuvalue4_(s, c)
  PROVE  Follows(Deriv(c, Then(T, X)))
<1> DEFINE f == Last(s.stack)
<1>1. c \in AllChars /\ f \in {"stringuvalue4", "stringuvalue5"}
  BY DEF Reads, PairArcs
<1>2. f \in Escapes
  BY <1>1 DEF Escapes
<1>3. UNCHANGED << begin_, lastValue_, lastCodePoint >>
  BY DEF consume_stringuvalue4_, Structural, valueVars
<1>4. Awaits(f, begin_, lastValue_, lastCodePoint[2], T)
  BY DEF Reads
<1>5. Backslash \in AllChars /\ "u" \in AllChars
  BY DEF AllChars
<1>6. IF c = PairArcs[f][1] THEN Return(Become(s, PairArcs[f][2]), TRUE) ELSE make_error(s)
  BY DEF consume_stringuvalue4_
<1>7. PICK U \in SUBSET Text : U = UnitTail4(Low, 0)
  BY UnitTailLanguage
<1>8. PICK V \in SUBSET Text : V = Then(OneOf({"u"}), U)
  BY ThenLanguage
<1> HIDE DEF f
<1>9. CASE f = "stringuvalue4"
  <2>1. PairArcs[f][1] = Backslash /\ PairArcs[f][2] = "stringuvalue5"
    BY <1>9 DEF PairArcs
  <2>2. lastCodePoint[2] = 0 /\ T = Then(OneOf({Backslash}), V)
    BY <1>4, <1>7, <1>8, <1>9 DEF Awaits, UnitEscape, Resumes, Literals, Texts
  <2>3. Empty \notin T /\ Deriv(c, T) = IF c = Backslash THEN V ELSE {}
    BY <1>1, <1>5, <2>2, DerivLed
  <2>4. CASE c = Backslash
    <3>1. Moves(Become(s, "stringuvalue5")) /\ "stringuvalue5" \in Escapes
      BY <1>6, <2>1, <2>4, ReturnMoves DEF Escapes
    <3>2. Awaits("stringuvalue5", begin_', lastValue_', lastCodePoint'[2], V)
      BY <1>3, <1>7, <1>8, <2>2 DEF Awaits
    <3> QED BY <1>2, <2>3, <2>4, <3>1, <3>2, EscapeContinues DEF f
  <2>5. CASE c # Backslash
    BY <1>6, <2>1, <2>3, <2>5, EscapeBreaks
  <2> QED BY <2>4, <2>5
<1>10. CASE f = "stringuvalue5"
  <2>1. PairArcs[f][1] = "u" /\ PairArcs[f][2] = "stringuvalue6"
    BY <1>10 DEF PairArcs
  <2>2. lastCodePoint[2] = 0 /\ T = Then(OneOf({"u"}), U)
    BY <1>4, <1>7, <1>10 DEF Awaits, Resumes, Literals, Texts
  <2>3. Empty \notin T /\ Deriv(c, T) = IF c = "u" THEN U ELSE {}
    BY <1>1, <1>5, <2>2, DerivLed
  <2>4. CASE c = "u"
    <3>1. Moves(Become(s, "stringuvalue6")) /\ "stringuvalue6" \in Escapes
      BY <1>6, <2>1, <2>4, ReturnMoves DEF Escapes
    <3>2. Awaits("stringuvalue6", begin_', lastValue_', lastCodePoint'[2], U)
      BY <1>3, <1>7, <2>2 DEF Awaits
    <3> QED BY <1>2, <2>3, <2>4, <3>1, <3>2, EscapeContinues DEF f
  <2>5. CASE c # "u"
    BY <1>6, <2>1, <2>3, <2>5, EscapeBreaks
  <2> QED BY <2>4, <2>5
<1> QED BY <1>1, <1>9, <1>10

\* lastCodePoint collects the digits of a unit.
LEMMA DigitsWeigh ==
  ASSUME NEW c
  PROVE  /\ UnitWith(c, 4096) = Weigh4(lastCodePoint[2], c)
         /\ UnitWith(c, 256) = Weigh3(lastCodePoint[2], c)
         /\ UnitWith(c, 16) = Weigh2(lastCodePoint[2], c)
         /\ UnitWith(c, 1) = Weigh1(lastCodePoint[2], c)
         /\ IsHex(c) <=> hexdigit_val(c) # -1
<1>1. IsHex(c) <=> hexdigit_val(c) # -1
  <2>1. hexdigit_val(c) # -1 => hexdigit_val(c) \in 0 .. 15
    BY HexDigit
  <2> QED BY <2>1 DEF IsHex
<1> QED BY <1>1 DEF UnitWith, Weigh4, Weigh3, Weigh2, Weigh1

\* A digit of a unit but the last: L is awaited after it.
LEMMA DigitFollows ==
  ASSUME NEW s, NEW c, NEW T, NEW X, Reads(s, c, T, X), Empty \notin T,
         Last(s.stack) \in DOMAIN UnicodeArcs, consume_stringuvalue_(s, c),
         NEW L, Deriv(c, T) = IF IsHex(c) THEN L ELSE {},
         \A begin, value :
           Awaits(UnicodeArcs[Last(s.stack)][2], begin, value,
                  UnitWith(c, UnicodeArcs[Last(s.stack)][1]), L)
  PROVE  Follows(Deriv(c, Then(T, X)))
<1>1. PICK f \in DOMAIN UnicodeArcs : f = Last(s.stack)
  OBVIOUS
<1>2. f \in Escapes /\ UnicodeArcs[f][2] \in Escapes
  BY <1>1 DEF UnicodeArcs, Escapes
<1>3. PICK g \in Escapes : g = UnicodeArcs[f][2]
  BY <1>2
<1>4. PICK unit : unit = UnitWith(c, UnicodeArcs[f][1])
  OBVIOUS
<1>5. IsHex(c) <=> hexdigit_val(c) # -1
  BY DigitsWeigh
<1>6. CASE /\ hexdigit_val(c) # -1 /\ Return(Become(s, g), TRUE)
           /\ lastCodePoint' = << lastCodePoint[1], unit >>
  <2>1. Moves(Become(s, g))
    BY <1>6, ReturnMoves
  <2>2. lastCodePoint'[2] = unit
    BY <1>6
  <2>3. L = Deriv(c, T)
    BY <1>5, <1>6
  <2>4. Awaits(g, begin_', lastValue_', unit, L)
    BY <1>1, <1>3, <1>4
  <2>5. Awaits(g, begin_', lastValue_', lastCodePoint'[2], L)
    BY <2>2, <2>4
  <2> QED BY <1>1, <1>2, <2>1, <2>3, <2>5, EscapeContinues
<1>7. CASE hexdigit_val(c) = -1 /\ make_error(s)
  BY <1>5, <1>7, EscapeBreaks
<1> QED BY <1>1, <1>3, <1>4, <1>6, <1>7 DEF consume_stringuvalue_

LEMMA UnitFollows ==
  ASSUME NEW s, NEW c, NEW T, NEW X, Reads(s, c, T, X),
         Last(s.stack) \in DOMAIN UnicodeArcs, consume_stringuvalue_(s, c)
  PROVE  Follows(Deriv(c, Then(T, X)))
<1>1. PICK f \in DOMAIN UnicodeArcs : f = Last(s.stack)
  OBVIOUS
<1>2. PICK low : low = lastCodePoint[2]
  OBVIOUS
<1>3. c \in AllChars /\ Awaits(f, begin_, lastValue_, low, T)
  BY <1>1, <1>2 DEF Reads
<1>4. f \in {"stringuvalue", "stringuvalue1", "stringuvalue2",
             "stringuvalue6", "stringuvalue7", "stringuvalue8"}
  BY DEF UnicodeArcs
<1>5. ASSUME NEW g, NEW unit, NEW L, Empty \notin T,
             UnicodeArcs[f][2] = g, UnitWith(c, UnicodeArcs[f][1]) = unit,
             Deriv(c, T) = IF IsHex(c) THEN L ELSE {},
             \A begin, value : Awaits(g, begin, value, unit, L)
      PROVE  Follows(Deriv(c, Then(T, X)))
  BY <1>1, <1>5, DigitFollows
<1>6. CASE f = "stringuvalue"
  <2>1. T = FirstTail4(low)
    BY <1>3, <1>6 DEF Awaits, Resumes, Literals, Texts
  <2>2. Empty \notin T /\ Deriv(c, T) = IF IsHex(c) THEN FirstTail3(Weigh4(low, c)) ELSE {}
    BY <1>3, <2>1, FirstTailLanguage, DerivFirstUnit
  <2>3. UnicodeArcs[f][2] = "stringuvalue1" /\ UnitWith(c, UnicodeArcs[f][1]) = Weigh4(low, c)
    BY <1>2, <1>6, DigitsWeigh DEF UnicodeArcs
  <2>4. \A begin, value :
          Awaits("stringuvalue1", begin, value, Weigh4(low, c), FirstTail3(Weigh4(low, c)))
    BY DEF Awaits
  <2> QED BY <1>5, <2>2, <2>3, <2>4
<1>7. CASE f = "stringuvalue1"
  <2>1. T = FirstTail3(low)
    BY <1>3, <1>7 DEF Awaits, Resumes, Literals, Texts
  <2>2. Empty \notin T /\ Deriv(c, T) = IF IsHex(c) THEN FirstTail2(Weigh3(low, c)) ELSE {}
    BY <1>3, <2>1, FirstTailLanguage, DerivFirstUnit
  <2>3. UnicodeArcs[f][2] = "stringuvalue2" /\ UnitWith(c, UnicodeArcs[f][1]) = Weigh3(low, c)
    BY <1>2, <1>7, DigitsWeigh DEF UnicodeArcs
  <2>4. \A begin, value :
          Awaits("stringuvalue2", begin, value, Weigh3(low, c), FirstTail2(Weigh3(low, c)))
    BY DEF Awaits
  <2> QED BY <1>5, <2>2, <2>3, <2>4
<1>8. CASE f = "stringuvalue2"
  <2>1. T = FirstTail2(low)
    BY <1>3, <1>8 DEF Awaits, Resumes, Literals, Texts
  <2>2. Empty \notin T /\ Deriv(c, T) = IF IsHex(c) THEN FirstTail1(Weigh2(low, c)) ELSE {}
    BY <1>3, <2>1, FirstTailLanguage, DerivFirstUnit
  <2>3. UnicodeArcs[f][2] = "stringuvalue3" /\ UnitWith(c, UnicodeArcs[f][1]) = Weigh2(low, c)
    BY <1>2, <1>8, DigitsWeigh DEF UnicodeArcs
  <2>4. \A begin, value :
          Awaits("stringuvalue3", begin, value, Weigh2(low, c), FirstTail1(Weigh2(low, c)))
    BY DEF Awaits
  <2> QED BY <1>5, <2>2, <2>3, <2>4
<1>9. CASE f = "stringuvalue6"
  <2>1. T = UnitTail4(Low, low)
    BY <1>3, <1>9 DEF Awaits, Resumes, Literals, Texts
  <2>2. Empty \notin T /\ Deriv(c, T) = IF IsHex(c) THEN UnitTail3(Low, Weigh4(low, c)) ELSE {}
    BY <1>3, <2>1, UnitTailLanguage, DerivUnitTail
  <2>3. UnicodeArcs[f][2] = "stringuvalue7" /\ UnitWith(c, UnicodeArcs[f][1]) = Weigh4(low, c)
    BY <1>2, <1>9, DigitsWeigh DEF UnicodeArcs
  <2>4. \A begin, value :
          Awaits("stringuvalue7", begin, value, Weigh4(low, c), UnitTail3(Low, Weigh4(low, c)))
    BY DEF Awaits
  <2> QED BY <1>5, <2>2, <2>3, <2>4
<1>10. CASE f = "stringuvalue7"
  <2>1. T = UnitTail3(Low, low)
    BY <1>3, <1>10 DEF Awaits, Resumes, Literals, Texts
  <2>2. Empty \notin T /\ Deriv(c, T) = IF IsHex(c) THEN UnitTail2(Low, Weigh3(low, c)) ELSE {}
    BY <1>3, <2>1, UnitTailLanguage, DerivUnitTail
  <2>3. UnicodeArcs[f][2] = "stringuvalue8" /\ UnitWith(c, UnicodeArcs[f][1]) = Weigh3(low, c)
    BY <1>2, <1>10, DigitsWeigh DEF UnicodeArcs
  <2>4. \A begin, value :
          Awaits("stringuvalue8", begin, value, Weigh3(low, c), UnitTail2(Low, Weigh3(low, c)))
    BY DEF Awaits
  <2> QED BY <1>5, <2>2, <2>3, <2>4
<1>11. CASE f = "stringuvalue8"
  <2>1. T = UnitTail2(Low, low)
    BY <1>3, <1>11 DEF Awaits, Resumes, Literals, Texts
  <2>2. Empty \notin T /\ Deriv(c, T) = IF IsHex(c) THEN UnitTail1(Low, Weigh2(low, c)) ELSE {}
    BY <1>3, <2>1, UnitTailLanguage, DerivUnitTail
  <2>3. UnicodeArcs[f][2] = "stringuvalue9" /\ UnitWith(c, UnicodeArcs[f][1]) = Weigh2(low, c)
    BY <1>2, <1>11, DigitsWeigh DEF UnicodeArcs
  <2>4. \A begin, value :
          Awaits("stringuvalue9", begin, value, Weigh2(low, c), UnitTail1(Low, Weigh2(low, c)))
    BY DEF Awaits
  <2> QED BY <1>5, <2>2, <2>3, <2>4
<1> QED BY <1>4, <1>6, <1>7, <1>8, <1>9, <1>10, <1>11

\* The last digit of the first unit and of the second, which is a unit of 16 bits.
LEMMA LastDigitFollows ==
  ASSUME NEW s, NEW c, NEW T, NEW X, Reads(s, c, T, X),
         hexdigit_val(c) # -1 => UnitWith(c, 1) \in Unit,
         \/ Last(s.stack) = "stringuvalue3" /\ consume_stringuvalue3_(s, c)
         \/ Last(s.stack) = "stringuvalue9" /\ consume_stringuvalue9_(s, c)
  PROVE  Follows(Deriv(c, Then(T, X)))
<1>1. PICK low : low = lastCodePoint[2]
  OBVIOUS
<1>2. PICK unit : unit = UnitWith(c, 1)
  OBVIOUS
<1>3. c \in AllChars /\ Awaits(Last(s.stack), begin_, lastValue_, low, T)
  BY <1>1 DEF Reads
<1>4. (IsHex(c) <=> hexdigit_val(c) # -1) /\ unit = Weigh1(low, c)
  BY <1>1, <1>2, DigitsWeigh
<1>5. Last(s.stack) \in Escapes
  BY DEF Escapes
<1>6. CASE Last(s.stack) = "stringuvalue3" /\ consume_stringuvalue3_(s, c)
  <2>1. T = FirstTail1(low)
    BY <1>3, <1>6 DEF Awaits, Resumes, Literals, Texts
  <2>2. Empty \notin T
    BY <2>1, FirstTailLanguage
  <2>3. IsHex(c) => Deriv(c, T) = IF StartsPair(unit) THEN UnitEscape(Low, 0) ELSE {Empty}
    BY <1>2, <1>3, <1>4, <2>1, DerivLastDigit
  <2>4. ~IsHex(c) => Deriv(c, T) = {}
    BY <1>3, <2>1, DerivFirstUnit
  <2>5. CASE /\ hexdigit_val(c) # -1 /\ StartsPair(unit)
             /\ Return(Become(s, "stringuvalue4"), TRUE)
             /\ lastCodePoint' = ShiftedUnit(unit)
    <3>1. Moves(Become(s, "stringuvalue4")) /\ "stringuvalue4" \in Escapes
      BY <2>5, ReturnMoves DEF Escapes
    <3>2. lastCodePoint'[2] = 0
      BY <2>5 DEF ShiftedUnit
    <3>3. Deriv(c, T) = UnitEscape(Low, 0)
      BY <1>4, <2>3, <2>5
    <3>4. Awaits("stringuvalue4", begin_', lastValue_', lastCodePoint'[2], Deriv(c, T))
      BY <3>2, <3>3 DEF Awaits
    <3> QED BY <1>5, <2>2, <3>1, <3>4, EscapeContinues
  <2>6. CASE /\ hexdigit_val(c) # -1 /\ ~StartsPair(unit)
             /\ CallOnly(PopBack(s), Content) /\ begin_' = begin_
    BY <1>4, <1>5, <2>2, <2>3, <2>6, EscapeLeaves
  <2>7. CASE hexdigit_val(c) = -1 /\ make_error(s)
    BY <1>4, <2>2, <2>4, <2>7, EscapeBreaks
  <2> QED BY <1>2, <1>6, <2>5, <2>6, <2>7 DEF consume_stringuvalue3_
<1>7. CASE Last(s.stack) = "stringuvalue9" /\ consume_stringuvalue9_(s, c)
  <2>1. T = UnitTail1(Low, low)
    BY <1>3, <1>7 DEF Awaits, Resumes, Literals, Texts
  <2>2. Empty \notin T
    BY <2>1, UnitTailLanguage
  <2>3. IsHex(c) => Deriv(c, T) = IF EndsPair(unit) THEN {Empty} ELSE {}
    BY <1>2, <1>3, <1>4, <2>1, DerivLastDigit
  <2>4. ~IsHex(c) => Deriv(c, T) = {}
    BY <1>3, <2>1, DerivUnitTail
  <2>5. CASE /\ hexdigit_val(c) # -1 /\ EndsPair(unit)
             /\ CallOnly(PopBack(s), "string_content") /\ begin_' = begin_
    BY <1>4, <1>5, <2>2, <2>3, <2>5, EscapeLeaves
  <2>6. CASE hexdigit_val(c) # -1 /\ ~EndsPair(unit) /\ make_error(PopBack(s))
    BY <1>4, <2>2, <2>3, <2>6, EscapeBreaks
  <2>7. CASE hexdigit_val(c) = -1 /\ make_error(s)
    BY <1>4, <2>2, <2>4, <2>7, EscapeBreaks
  <2> QED BY <1>2, <1>7, <2>5, <2>6, <2>7 DEF consume_stringuvalue9_
<1> QED BY <1>6, <1>7

-----------------------------------------------------------------------------
(* Every step.                                                             *)

LEMMA ReadFollows ==
  ASSUME DInv, ~error_, NEW c \in Chars, Read(c),
         NEW L, Expects(consumer_stack_, begin_, lastValue_, lastCodePoint[2], L)
  PROVE  Follows(Deriv(c, L))
<1> DEFINE s == Here
           f == Last(s.stack)
<1>1. /\ ~ended /\ begin_ \in BOOLEAN /\ Control /\ consume_(s, c)
      /\ lastCodePoint \in Unit \X Unit
  BY DEF DInv, IInv, Control, Read, Collected
<1>2. Sound(s, begin_) /\ s.stack = consumer_stack_
  BY <1>1, HereSound
<1>3. Path(s.stack)
  BY <1>2 DEF Sound
<1>4. PICK T \in SUBSET Text, X \in SUBSET Text :
        Awaits(Last(s.stack), begin_, lastValue_, lastCodePoint[2], T) /\ Below(s.stack, X)
          /\ L = Then(T, X)
  BY <1>2 DEF Expects
<1>5. c \in AllChars
  BY CharsAssumption
<1>6. Reads(s, c, T, X)
  BY <1>1, <1>2, <1>4, <1>5 DEF Reads
<1>7. f # "inerror"
  BY <1>3, NotInError
<1>8. ASSUME f \in {"stringuvalue3", "stringuvalue9"}, hexdigit_val(c) # -1
      PROVE  UnitWith(c, 1) \in Unit
  <2>1. consumer_stack_ # << "inerror" >>
    BY <1>2, <1>7 DEF Last
  <2>2. TopMatches(consumer_stack_, inside_key_, lastValue_, lastCodePoint[2])
    BY <2>1 DEF DInv, Collected, Stopped
  <2>3. lastCodePoint[2] <= 65520
    BY <1>2, <1>8, <2>2 DEF TopMatches, LowBound
  <2> QED BY <1>1, <1>8, <2>3, LastDigit
<1> HIDE DEF s
<1>9. CASE f = "initial" /\ consume_initial_(s, c)
  BY <1>4, <1>6, <1>9, InitialFollows
<1>10. CASE \/ f = "arraystart" /\ consume_arraystart_(s, c)
            \/ f = "arrayseparator" /\ consume_arrayseparator_(s, c)
  BY <1>4, <1>6, <1>10, ArrayStartFollows
<1>11. CASE f = "array" /\ consume_array_(s, c)
  BY <1>4, <1>6, <1>11, ArrayFollows
<1>12. CASE \/ f = "objectstart" /\ consume_objectstart_(s, c)
            \/ f = "objectbetween" /\ consume_objectbetween_(s, c)
  BY <1>4, <1>6, <1>12, KeyFollows
<1>13. CASE f = "objectkey" /\ consume_objectkey_(s, c)
  BY <1>4, <1>6, <1>13, ObjectKeyFollows
<1>14. CASE f = "objectseparator" /\ consume_objectseparator_(s, c)
  BY <1>4, <1>6, <1>14, ObjectSeparatorFollows
<1>15. CASE f = "objectvalue" /\ consume_objectvalue_(s, c)
  BY <1>4, <1>6, <1>15, ObjectValueFollows
<1>16. CASE f \in Literals /\ consume_literal_(s, c)
  BY <1>4, <1>6, <1>16, LiteralFollows
<1>17. CASE \/ f = "number" /\ consume_number_(s, c)
            \/ f = "numberstarting0" /\ consume_numberstarting0_(s, c)
  BY <1>4, <1>6, <1>17, NumberFollows
<1>18. CASE \/ f = "string" /\ consume_string_(s, c)
            \/ f = "stringkey" /\ consume_stringkey_(s, c)
  <2>1. f \in Texts /\ \E content, closing : consume_text_(s, c, content, closing)
    BY <1>18 DEF Texts, consume_string_, consume_stringkey_
  <2> QED BY <1>4, <1>6, <2>1, TextFollows
<1>19. CASE f = "stringescape" /\ consume_stringescape_(s, c)
  BY <1>4, <1>6, <1>19, StringEscapeFollows
<1>20. CASE f \in DOMAIN UnicodeArcs /\ consume_stringuvalue_(s, c)
  BY <1>4, <1>6, <1>20, UnitFollows
<1>21. CASE \/ f = "stringuvalue3" /\ consume_stringuvalue3_(s, c)
            \/ f = "stringuvalue9" /\ consume_stringuvalue9_(s, c)
  BY <1>4, <1>6, <1>8, <1>21, LastDigitFollows
<1>22. CASE f \in DOMAIN PairArcs /\ consume_stringuvalue4_(s, c)
  BY <1>4, <1>6, <1>22, PairFollows
<1> QED BY <1>1, <1>7, <1>9, <1>10, <1>11, <1>12, <1>13, <1>14, <1>15, <1>16, <1>17,
           <1>18, <1>19, <1>20, <1>21, <1>22 DEF consume_

-----------------------------------------------------------------------------
(* What is left of a document after a text, and the inductive invariant.   *)

\* The texts that make t a document.
Residual(t) == {u \in Text : Join(t, u) \in ReadDocuments}

LEMMA DocumentLanguage ==
  /\ ReadDocuments = Document /\ Document \in SUBSET Text /\ Empty \notin Document
<1>1. ReadDocuments = Document
  BY DEF ReadDocuments, Document, ReadComposite, Composite, ReadValue
<1>2. "sp" \in AllChars /\ "sp" # Quote
  BY DEF AllChars, Quote
<1>3. ReadComposite \in SUBSET Text /\ Empty \notin ReadComposite /\ Deriv("sp", ReadComposite) = {}
  BY <1>2, DerivReadComposite
<1> QED BY <1>1, <1>2, <1>3, DerivPadded DEF Document

LEMMA ResidualText ==
  ASSUME NEW t \in Text
  PROVE  /\ Residual(t) \in SUBSET Text
         /\ Empty \in Residual(t) <=> t \in ReadDocuments
BY JoinText, EmptyText DEF Residual

LEMMA ResidualRead ==
  ASSUME NEW t \in Text, NEW c \in AllChars
  PROVE  /\ Append(t, c) \in Text
         /\ Residual(Append(t, c)) = Deriv(c, Residual(t))
<1>7. t \in Seq(AllChars)
  BY DEF Text
<1>8. Append(t, c) \in Seq(AllChars) /\ Append(t, c) = t \o << c >>
  BY <1>7, AppendIsConcat, AppendProperties
<1>1. PICK a \in Text : a = Append(t, c)
  BY <1>8 DEF Text
<1>2. a = Join(t, << c >>)
  BY <1>1, <1>8 DEF Join
<1>3. << c >> \in Text
  BY OneText
<1>4. ASSUME NEW u \in Text
      PROVE  Join(a, u) = Join(t, Ahead(c, u)) /\ Ahead(c, u) \in Text
  <2>1. Join(Join(t, << c >>), u) = Join(t, Join(<< c >>, u))
    BY <1>3, JoinAssociative
  <2> QED BY <1>2, <2>1, AheadText DEF Join, Ahead
<1>5. ASSUME NEW u \in Text PROVE u \in Residual(a) <=> u \in Deriv(c, Residual(t))
  BY <1>4 DEF Residual, Deriv
<1>6. Residual(a) \in SUBSET Text /\ Deriv(c, Residual(t)) \in SUBSET Text
  BY DEF Residual, Deriv
<1> QED BY <1>1, <1>5, <1>6

\* The stack waits exactly for what completes the text to a document, and a text
\* refused is none and, while characters may come, begins none.
GInv ==
  /\ DInv
  /\ text \in Text
  /\ ~error_ => Expects(consumer_stack_, begin_, lastValue_, lastCodePoint[2], Residual(text))
  /\ error_ => text \notin ReadDocuments
  /\ error_ /\ ~ended => Residual(text) = {}

LEMMA GInitial == GrammarInit => GInv
<1> SUFFICES ASSUME GrammarInit PROVE GInv
  OBVIOUS
<1>1. DInv
  BY DInit DEF GrammarInit
<1>2. /\ consumer_stack_ = << "initial" >> /\ begin_ = TRUE /\ error_ = FALSE
      /\ text = Empty
  BY DEF GrammarInit, Init, Empty
<1>3. Document \in SUBSET Text /\ ReadDocuments = Document
  BY DocumentLanguage
<1>4. Residual(Empty) = Document
  BY <1>3, JoinText, EmptyText DEF Residual
<1>5. Awaits("initial", TRUE, lastValue_, lastCodePoint[2], Document)
  BY DEF Awaits
<1>6. Last(<< "initial" >>) = "initial" /\ Len(<< "initial" >>) - 1 = 0
  BY DEF Last
<1>7. Below(<< "initial" >>, {Empty})
  <2> DEFINE R == [i \in 0 .. 0 |-> {Empty}]
  <2>1. R \in [0 .. 0 -> SUBSET Text] /\ R[0] = {Empty}
    BY EmptyText
  <2> HIDE DEF R
  <2>2. Rests(<< "initial" >>, 0, R)
    BY <2>1 DEF Rests
  <2> QED BY <1>6, <2>1, <2>2 DEF Below
<1>8. {Empty} \in SUBSET Text /\ Then(Document, {Empty}) = Document
  BY <1>3, EmptyText, ThenEmpty
<1>9. Expects(<< "initial" >>, TRUE, lastValue_, lastCodePoint[2], Document)
  BY <1>3, <1>5, <1>6, <1>7, <1>8 DEF Expects
<1> QED BY <1>1, <1>2, <1>4, <1>9, EmptyText DEF GInv

\* With a consumer left that is not done, the text is no document yet.
LEMMA OpenExpects ==
  ASSUME NEW stack, Path(stack), NEW begin \in BOOLEAN, Len(stack) # 1 \/ begin,
         NEW value, NEW low, NEW L, Expects(stack, begin, value, low, L)
  PROVE  Empty \notin L
<1>1. PICK T \in SUBSET Text, X \in SUBSET Text :
        Awaits(Last(stack), begin, value, low, T) /\ Below(stack, X) /\ L = Then(T, X)
  BY DEF Expects
<1>2. Empty \in L <=> Empty \in T /\ Empty \in X
  BY <1>1, EmptyInThen
<1>3. PICK f : f = Last(stack)
  OBVIOUS
<1>4. PICK n \in Nat : n = Len(stack) /\ n >= 1
  BY DEF Path
<1>5. CASE n = 1
  <2>1. f = "initial" /\ begin
    BY <1>3, <1>4, <1>5, LastOfPath
  <2>2. T = Document
    BY <1>1, <1>3, <2>1 DEF Awaits, Literals, Texts
  <2> QED BY <1>2, <2>2, DocumentLanguage
<1>6. CASE n # 1
  <2>1. n > 1
    BY <1>4, <1>6
  <2>2. Len(stack) > 1
    BY <1>4, <2>1
  <2>3. PICK U \in SUBSET Text, Y \in SUBSET Text :
          Resumes(stack[Len(stack) - 1], U) /\ Below(Front(stack), Y) /\ X = Then(U, Y)
    BY <1>1, <2>2, BelowFront
  <2>4. PICK g : g = stack[Len(stack) - 1]
    OBVIOUS
  <2>5. Fits(g, f)
    BY <1>3, <2>2, <2>4, LastOfPath
  <2>6. CASE g # "initial"
    <3>1. Empty \notin U
      BY <2>3, <2>4, <2>6, ResumesLanguage
    <3>2. Empty \notin X
      BY <2>3, <3>1, EmptyInThen
    <3> QED BY <1>2, <3>2
  <2>7. CASE g = "initial"
    <3>1. f \in Containers \cup {"string"}
      BY <2>5, <2>7 DEF Fits
    <3>2. Awaits(f, begin, value, low, T)
      BY <1>1, <1>3
    <3>3. \/ Resumes(f, T) /\ f # "initial"
          \/ T = FirstOf(Element, "]") \/ T = AnotherOf(Element, "]")
          \/ T = FirstOf(Field, "}") \/ T = AnotherOf(Field, "}") \/ T = PropertyRest
      BY <3>1, <3>2 DEF Awaits, Containers, Literals
    <3>4. "sp" \in AllChars
      BY DEF AllChars
    <3>5. Empty \notin PropertyRest
      <4>1. Then(Repeated(Field), OneOf({"}"})) \in SUBSET Text
        BY ThenLanguage
      <4>2. Element \in SUBSET Text /\ Empty \notin Element
        BY <3>4, DerivElement
      <4> QED BY <4>1, <4>2, EmptyInThen DEF PropertyRest
    <3>6. /\ Empty \notin FirstOf(Element, "]") /\ Empty \notin AnotherOf(Element, "]")
          /\ Empty \notin FirstOf(Field, "}") /\ Empty \notin AnotherOf(Field, "}")
      BY <3>4, ElementLists, FieldLists
    <3>7. Resumes(f, T) /\ f # "initial" => Empty \notin T
      BY ResumesLanguage
    <3>8. Empty \notin T
      BY <3>3, <3>5, <3>6, <3>7
    <3> QED BY <1>2, <3>8
  <2> QED BY <2>6, <2>7
<1> QED BY <1>5, <1>6

\* With none left but the first it may be one already.
LEMMA DoneExpects ==
  ASSUME NEW stack, Path(stack), Len(stack) = 1,
         NEW value, NEW low, NEW L, Expects(stack, FALSE, value, low, L)
  PROVE  Empty \in L
<1>1. PICK T \in SUBSET Text, X \in SUBSET Text :
        Awaits(Last(stack), FALSE, value, low, T) /\ Below(stack, X) /\ L = Then(T, X)
  BY DEF Expects
<1>2. X = {Empty}
  BY <1>1, BelowLanguage
<1>3. Last(stack) = "initial"
  BY LastOfPath
<1>4. T = Spaces
  BY <1>1, <1>3 DEF Awaits, Resumes, Literals, Texts
<1>5. Empty \in T
  BY <1>4, SpacesText
<1> QED BY <1>1, <1>2, <1>5, EmptyInThen

\* Whenever it is asked, a parser tells the documents from the other texts.
LEMMA TellsDocuments ==
  ASSUME GInv, ~error_
  PROVE  text \in ReadDocuments <=> Len(consumer_stack_) = 1 /\ ~begin_
<1>1. Path(consumer_stack_) /\ begin_ \in BOOLEAN
  BY DEF GInv, DInv, IInv, Control
<1>2. /\ Expects(consumer_stack_, begin_, lastValue_, lastCodePoint[2], Residual(text))
      /\ text \in Text
  BY DEF GInv
<1>3. Empty \in Residual(text) <=> text \in ReadDocuments
  BY <1>2, ResidualText
<1>4. CASE Len(consumer_stack_) = 1 /\ begin_ = FALSE
  BY <1>1, <1>2, <1>3, <1>4, DoneExpects
<1>5. CASE Len(consumer_stack_) # 1 \/ begin_
  BY <1>1, <1>2, <1>3, <1>5, OpenExpects
<1> QED BY <1>1, <1>4, <1>5

LEMMA ReadKeeps ==
  ASSUME GInv, NEW c \in Chars, Read(c), text' = Append(text, c), DInv'
  PROVE  GInv'
<1>1. /\ DInv /\ ~ended /\ ended' = ended /\ error_ \in BOOLEAN /\ text \in Text
      /\ c \in AllChars
  BY CharsAssumption DEF GInv, DInv, IInv, Control, Read
<1>2. text' \in Text /\ Residual(text') = Deriv(c, Residual(text))
  BY <1>1, ResidualRead
<1>3. Empty \in Residual(text') <=> text' \in ReadDocuments
  BY <1>2, ResidualText
<1>4. CASE error_
  <2>1. Residual(text) = {}
    BY <1>1, <1>4 DEF GInv
  <2>2. Residual(text') = {}
    BY <1>2, <2>1 DEF Deriv
  <2>3. error_' = error_
    BY <1>1, <1>4, ErrorReads DEF Return
  <2> QED BY <1>2, <1>3, <1>4, <2>2, <2>3 DEF GInv
<1>5. CASE ~error_
  <2>1. Expects(consumer_stack_, begin_, lastValue_, lastCodePoint[2], Residual(text))
    BY <1>5 DEF GInv
  <2>2. Follows(Residual(text'))
    BY <1>1, <1>2, <1>5, <2>1, ReadFollows
  <2> QED BY <1>2, <1>3, <2>2 DEF Follows, GInv
<1> QED BY <1>4, <1>5

LEMMA OtherKeeps ==
  ASSUME GInv, DInv', text' = text,
         UNCHANGED << consumer_stack_, begin_, lastValue_, lastCodePoint, error_, ended >>
  PROVE  GInv'
BY DEF GInv

LEMMA GNext == GInv /\ [GrammarNext]_grammarVars => GInv'
<1> SUFFICES ASSUME GInv, [GrammarNext]_grammarVars PROVE GInv'
  OBVIOUS
<1>1. [Next]_vars
  BY DEF GrammarNext, grammarVars, Next
<1>2. DInv /\ DInv'
  BY <1>1, DNext DEF GInv
<1>3. ASSUME NEW c \in Chars, Read(c), text' = Append(text, c) PROVE GInv'
  BY <1>2, <1>3, ReadKeeps
<1>4. ASSUME NEW kind, StartCall(kind), text' = text PROVE GInv'
  BY <1>2, <1>4, OtherKeeps DEF StartCall, valueVars
<1>5. CASE Flush /\ text' = text
  <2>1. UNCHANGED << consumer_stack_, begin_, error_, ended >>
    BY <1>5, FlushKeeps
  <2>2. UNCHANGED << lastValue_, lastCodePoint >>
    BY <1>2, <1>5, FlushStep DEF valueVars
  <2> QED BY <1>2, <1>5, <2>1, <2>2, OtherKeeps
<1>6. CASE ReturnFalse /\ text' = text
  BY <1>2, <1>6, OtherKeeps DEF ReturnFalse, valueVars
<1>7. CASE end /\ text' = text
  <2>1. /\ ~ended /\ error_ \in BOOLEAN /\ begin_ \in BOOLEAN /\ ended'
        /\ UNCHANGED << consumer_stack_, begin_, lastValue_, lastCodePoint >>
        /\ error_' = (error_ \/ Len(consumer_stack_) # 1 \/ begin_)
    BY <1>2, <1>7 DEF end, valueVars, DInv, IInv, Control
  <2>2. CASE error_
    BY <1>2, <1>7, <2>1, <2>2 DEF GInv
  <2>3. CASE ~error_
    <3>1. text \in ReadDocuments <=> Len(consumer_stack_) = 1 /\ ~begin_
      BY <2>3, TellsDocuments
    <3> QED BY <1>2, <1>7, <2>1, <2>3, <3>1 DEF GInv
  <2> QED BY <2>2, <2>3
<1>8. CASE UNCHANGED vars /\ text' = text
  BY <1>2, <1>8, OtherKeeps DEF vars
<1> QED BY <1>3, <1>4, <1>5, <1>6, <1>7, <1>8 DEF GrammarNext, grammarVars, Done

\* To every state belongs the language that completes its document.
THEOREM GrammarInvariance == GrammarSpec => []GInv
BY GInitial, GNext, PTL DEF GrammarSpec

\* Between two calls and in the midst of one, after end() and before it: the text fed
\* so far is a document of the grammar exactly when complete_without_error() says so
\* (parser_bits.h, every consumer, complete_without_error and end).
THEOREM AcceptsExactly ==
  GrammarSpec => [](complete_without_error <=> text \in ReadDocuments)
<1>1. ASSUME GInv
      PROVE  complete_without_error <=> text \in ReadDocuments
  <2>1. IInv
    BY <1>1 DEF GInv, DInv
  <2>2. complete_without_error <=> Len(consumer_stack_) = 1 /\ ~begin_ /\ ~error_
    BY <2>1, CompletesExactly DEF CompleteExactly
  <2>3. CASE error_
    BY <1>1, <2>2, <2>3 DEF GInv
  <2>4. CASE ~error_
    BY <1>1, <2>2, <2>4, TellsDocuments
  <2> QED BY <2>3, <2>4
<1> QED BY <1>1, GrammarInvariance, PTL

\* A text that is accepted is a document, but for its numbers and its pairs of \u
\* escapes (parser_bits.h, every consumer and complete_without_error).
THEOREM AcceptedIsDocument == GrammarSpec => []AcceptsOnlyDocuments
<1>1. (complete_without_error <=> text \in ReadDocuments)
        => AcceptsOnlyDocuments
  BY DEF AcceptsOnlyDocuments
<1> QED BY <1>1, AcceptsExactly, PTL

-----------------------------------------------------------------------------
(* What RFC 8259 allows is read.                                           *)

LEMMA ThenMonotone ==
  \A A, B, C, D : A \subseteq C /\ B \subseteq D => Then(A, B) \subseteq Then(C, D)
BY DEF Then

LEMMA PaddedMonotone == \A A, B : A \subseteq B => Padded(A) \subseteq Padded(B)
BY ThenMonotone DEF Padded

LEMMA PaddedUnion ==
  ASSUME NEW A \in SUBSET Text, NEW B \in SUBSET Text
  PROVE  Padded(A \cup B) = Padded(A) \cup Padded(B)
<1>1. Then(A \cup B, Spaces) = Then(A, Spaces) \cup Then(B, Spaces)
  BY SpacesText, ThenUnion
<1>2. Then(A, Spaces) \in SUBSET Text /\ Then(B, Spaces) \in SUBSET Text
  BY ThenLanguage
<1> QED BY <1>1, <1>2, SpacesText, ThenUnionRight DEF Padded

\* Two languages whose texts begin with different characters, none of them a space, have
\* no text in common, whatever spaces there are around.
LEMMA PaddedDisjoint ==
  ASSUME NEW A \in SUBSET Text, NEW B \in SUBSET Text, Empty \notin A, Empty \notin B,
         Deriv("sp", A) = {}, Deriv("sp", B) = {},
         \A c \in AllChars : Deriv(c, A) = {} \/ Deriv(c, B) = {}
  PROVE  Padded(A) \cap Padded(B) = {}
<1>1. PICK P \in SUBSET Text : P = Padded(A)
  BY DerivPadded, Brackets
<1>2. PICK Q \in SUBSET Text : Q = Padded(B)
  BY DerivPadded, Brackets
<1>3. Empty \notin P
  BY <1>1, DerivPadded, Brackets
<1>4. ASSUME NEW c \in AllChars
      PROVE  \/ Deriv(c, P) = P /\ Deriv(c, Q) = Q
             \/ Deriv(c, P) = {} \/ Deriv(c, Q) = {}
  <2>1. /\ Deriv(c, P) = IF c = "sp" THEN P ELSE Then(Deriv(c, A), Spaces)
        /\ Deriv(c, Q) = IF c = "sp" THEN Q ELSE Then(Deriv(c, B), Spaces)
    BY <1>1, <1>2, DerivPadded
  <2>2. Then({}, Spaces) = {}
    BY SpacesText, ThenEmpty
  <2> QED BY <2>1, <2>2
<1> DEFINE K == {n \in Nat : Within(n, P, Text \ Q)}
<1>5. 0 \in K
  BY <1>3, ShortAll DEF Within
<1>6. ASSUME NEW n \in Nat, n \in K PROVE n + 1 \in K
  <2>1. ASSUME NEW t \in P, t \in Short(n + 1) PROVE t \notin Q
    <3>1. PICK c \in AllChars, u \in Text : t = Ahead(c, u)
      BY <1>3, <2>1, AheadOrEmpty
    <3>2. (t \in P <=> u \in Deriv(c, P)) /\ (t \in Q <=> u \in Deriv(c, Q))
      BY <3>1 DEF Deriv
    <3>3. u \in P => u \notin Q
      BY <1>6, <2>1, <3>1, ShortAhead DEF Within
    <3> QED BY <1>4, <2>1, <3>2, <3>3
  <2> QED BY <2>1 DEF Within
<1> HIDE DEF K
<1>7. \A n \in Nat : n \in K
  BY <1>5, <1>6, AllNumbers
<1>8. P \subseteq Text \ Q
  BY <1>7, WithinAll DEF K
<1> QED BY <1>1, <1>2, <1>8

LEMMA NumbersRead == JsonNumber \subseteq ReadNumber /\ JsonNumber \in SUBSET Text
<1>1. "-" \in AllChars /\ "." \in AllChars
  BY DEF AllChars, NumberChars, Signs
<1>2. PICK M \in SUBSET Text : M = OneOf({"-"})
  BY <1>1, OneText DEF OneOf
<1>3. PICK D \in SUBSET Text : D = SomeDigits
  BY DEF SomeDigits, Only
<1>4. PICK I \in SUBSET Text : I = Integers /\ I \subseteq D
  BY <1>3 DEF Integers
<1>5. PICK F \in SUBSET Text : F = Optional(Fraction)
  BY ThenLanguage, EmptyText DEF Optional, Fraction, Empty
<1>6. PICK P \in SUBSET Text : P = Optional(Point)
  BY ThenLanguage, EmptyText DEF Optional, Point, Empty
<1>7. PICK E \in SUBSET Text : E = Optional(ExponentPart)
  BY ThenLanguage, EmptyText DEF Optional, ExponentPart, Empty
<1>8. F \subseteq P
  <2>1. SomeDigits \subseteq Only(Digits)
    BY DEF SomeDigits
  <2>2. Fraction \subseteq Point
    BY <2>1, ThenMonotone DEF Fraction, Point
  <2> QED BY <1>5, <1>6, <2>2 DEF Optional
<1>9. PICK Z \in SUBSET Text : Z = Then(I, Then(F, E))
  BY ThenLanguage
<1>10. JsonNumber = Z \cup Then(M, Z)
  <2>1. {Empty} \in SUBSET Text /\ Optional(M) = {Empty} \cup M
    BY EmptyText DEF Optional, Empty
  <2>2. Then({Empty} \cup M, Z) = Then({Empty}, Z) \cup Then(M, Z)
    BY <2>1, ThenUnion
  <2>3. Then({Empty}, Z) = Z
    BY ThenEmpty
  <2> QED BY <1>2, <1>4, <1>5, <1>7, <1>9, <2>1, <2>2, <2>3 DEF JsonNumber
<1>11. PICK IP \in SUBSET Text : IP = Then(I, P)
  BY ThenLanguage
<1>12. PICK DP \in SUBSET Text : DP = Then(D, P)
  BY ThenLanguage
<1>13. PICK S \in SUBSET Text : S = StrtodMantissa /\ DP \subseteq S
  <2>1. StrtodMantissa \in SUBSET Text /\ DP \subseteq StrtodMantissa
    BY <1>3, <1>6, <1>12, ThenLanguage DEF StrtodMantissa
  <2> QED BY <2>1
<1>14. PICK MS \in SUBSET Text : MS = Then(M, S)
  BY ThenLanguage
<1>15. ReadNumber = Then(MS \cup IP, E)
  BY <1>2, <1>4, <1>6, <1>7, <1>11, <1>13, <1>14 DEF ReadNumber
<1>16. Z \subseteq Then(IP, E)
  <2>1. Then(F, E) \subseteq Then(P, E)
    BY <1>8, ThenMonotone
  <2>2. Z \subseteq Then(I, Then(P, E))
    BY <1>9, <2>1, ThenMonotone
  <2>3. Then(I, Then(P, E)) = Then(IP, E)
    BY <1>11, ThenAssociative
  <2> QED BY <2>2, <2>3
<1>17. Then(M, Z) \subseteq Then(MS, E)
  <2>1. IP \subseteq S
    BY <1>4, <1>11, <1>12, <1>13, ThenMonotone
  <2>2. Z \subseteq Then(S, E)
    BY <1>16, <2>1, ThenMonotone
  <2>3. Then(M, Z) \subseteq Then(M, Then(S, E))
    BY <2>2, ThenMonotone
  <2>4. Then(M, Then(S, E)) = Then(MS, E)
    BY <1>14, ThenAssociative
  <2> QED BY <2>3, <2>4
<1>18. Then(MS \cup IP, E) = Then(MS, E) \cup Then(IP, E)
  BY ThenUnion
<1>19. JsonNumber \in SUBSET Text
  BY ThenLanguage DEF JsonNumber
<1> QED BY <1>10, <1>15, <1>16, <1>17, <1>18, <1>19

LEMMA SubRange ==
  ASSUME NEW a \in Int, NEW b \in Int, NEW c \in Int, NEW d \in Int, c <= a, b <= d
  PROVE  a .. b \subseteq c .. d
OBVIOUS

\* The surrogates are among the units a pair may be made of, and no unit that stands
\* alone in the RFC begins one.
LEMMA SurrogatesRead ==
  /\ Unit \ (HighSurrogate \cup LowSurrogate) \subseteq Single
  /\ HighSurrogate \subseteq High /\ LowSurrogate \subseteq Low
<1> DEFINE a == 55296  b == 56319  c == 56320  d == 57343  e == 57342  f == 65535
<1>1. a \in Int /\ b \in Int /\ c \in Int /\ d \in Int /\ e \in Int /\ f \in Int
  OBVIOUS
<1>2. a <= a /\ b <= e /\ c <= c /\ d <= f /\ c = b + 1 /\ e <= d
  OBVIOUS
<1>3. /\ HighSurrogate = a .. b /\ LowSurrogate = c .. d /\ High = a .. e /\ Low = c .. f
      /\ Single = Unit \ (a .. e)
  BY DEF HighSurrogate, LowSurrogate, High, Low, Single
<1> HIDE DEF a, b, c, d, e, f
<1>4. HighSurrogate \subseteq High /\ LowSurrogate \subseteq Low
  BY <1>1, <1>2, <1>3, SubRange
<1>5. ASSUME NEW n \in a .. e PROVE n \in a .. b \/ n \in c .. d
  BY <1>1, <1>2, <1>5
<1> QED BY <1>3, <1>4, <1>5

LEMMA StringsRead == JsonString \subseteq ReadString /\ JsonString \in SUBSET Text
<1>1. PICK A \in SUBSET Text :
        A = Character(Unit \ (HighSurrogate \cup LowSurrogate), HighSurrogate, LowSurrogate)
  <2>1. \A cs \in SUBSET AllChars : OneOf(cs) \in SUBSET Text
    BY OneText DEF OneOf
  <2>2. AllChars \ {Quote, Backslash, "ctrl"} \in SUBSET AllChars
    OBVIOUS
  <2>3. {Backslash, Quote, "/", "b", "f", "n", "r", "t"} \in SUBSET AllChars
    BY DEF AllChars
  <2>4. \A c \in AllChars : << Backslash, c >> \in Text
    BY <2>3 DEF Text
  <2>5. {<< Backslash, c >> : c \in {Backslash, Quote, "/", "b", "f", "n", "r", "t"}}
          \in SUBSET Text
    BY <2>3, <2>4
  <2>6. \A units : EscapedUnit(units) \in SUBSET Text
    BY DEF EscapedUnit
  <2> QED BY <2>1, <2>2, <2>5, <2>6, ThenLanguage DEF Character
<1>2. PICK B \in SUBSET Text : B = ReadCharacter
  BY Brackets, DerivCharacter
<1>3. \A units, more : units \subseteq more => EscapedUnit(units) \subseteq EscapedUnit(more)
  BY DEF EscapedUnit
<1>4. A \subseteq B
  <2>1. Then(EscapedUnit(HighSurrogate), EscapedUnit(LowSurrogate))
          \subseteq Then(EscapedUnit(High), EscapedUnit(Low))
    BY <1>3, SurrogatesRead, ThenMonotone
  <2>2. EscapedUnit(Unit \ (HighSurrogate \cup LowSurrogate)) \subseteq EscapedUnit(Single)
    BY <1>3, SurrogatesRead
  <2> QED BY <1>1, <1>2, <2>1, <2>2 DEF ReadCharacter, Character
<1>5. Star(A) \in SUBSET Text /\ Star(B) \in SUBSET Text
  BY DEF Star
<1>6. JsonString = Enclosed(Quote, Star(A), Quote)
  BY <1>1 DEF JsonString, Strings
<1>7. ReadString = Enclosed(Quote, Star(B), Quote)
  BY <1>2, ReadStringIs
<1>8. \A n \in Nat : Within(n, Star(A), Star(B))
  BY <1>4, WithinSame, WithinStar
<1>9. Star(A) \subseteq Star(B)
  BY <1>5, <1>8, WithinAll
<1>10. \A L, K : L \subseteq K => Enclosed(Quote, L, Quote) \subseteq Enclosed(Quote, K, Quote)
  BY DEF Enclosed
<1>11. Enclosed(Quote, Star(A), Quote) \in SUBSET Text
  BY DEF Enclosed
<1> QED BY <1>6, <1>7, <1>9, <1>10, <1>11

\* A text of the RFC that is not a number or a literal name is read as a document.
LEMMA DocumentsRead ==
  /\ JsonText \subseteq RootScalars \cup ReadDocuments
  /\ RootScalars \subseteq Padded(LiteralNames \cup ReadNumber)
<1>1. PICK S \in SUBSET Text : S = JsonString
  BY StringsRead
<1>2. PICK Q \in SUBSET Text : Q = ReadString /\ S \subseteq Q
  BY <1>1, StringsRead, Brackets, DerivReadString
<1>3. PICK M \in SUBSET Text : M = JsonNumber
  BY NumbersRead
<1>4. PICK N \in SUBSET Text : N = ReadNumber /\ M \subseteq N
  BY <1>3, NumbersRead, ThenLanguage DEF ReadNumber
<1>5. PICK V \in SUBSET Text : V = Values(M, S) /\ V = ValueRule(M, S, V)
  BY ValuesRule
<1>6. PICK W \in SUBSET Text : W = Values(N, Q) /\ V \subseteq W
  <2>1. Values(N, Q) \in SUBSET Text
    BY DEF Values
  <2> QED BY <1>2, <1>4, <1>5, <2>1, ValuesWithin
<1>7. PICK A \in SUBSET Text : A = Composite(S, V)
  BY RuleText
<1>8. PICK B \in SUBSET Text : B = Composite(Q, W)
  BY RuleText
<1>9. ASSUME NEW n \in Nat PROVE Within(n, A, B)
  <2>1. Within(n, V, W)
    BY <1>6, WithinSame
  <2>2. Within(n + 1, A, B)
    BY <1>2, <1>4, <1>7, <1>8, <2>1, RuleWithin
  <2>3. Short(n) \subseteq Short(n + 1)
    BY ShortAll
  <2> QED BY <2>2, <2>3 DEF Within
<1>10. A \subseteq B
  BY <1>9, WithinAll
<1>11. PICK L \in SUBSET Text : L = LiteralNames \cup M
  BY LiteralTexts
<1>12. V = L \cup A
  BY <1>5, <1>7, <1>11 DEF ValueRule
<1>13. Padded(V) = Padded(L) \cup Padded(A)
  BY <1>12, PaddedUnion
<1>14. Padded(A) \subseteq Padded(B) /\ Padded(L) \subseteq Padded(LiteralNames \cup N)
  BY <1>4, <1>10, <1>11, PaddedMonotone
<1>15. ReadDocuments = Padded(B)
  BY <1>2, <1>4, <1>6, <1>8 DEF ReadDocuments, Composite
<1>16. JsonText = Padded(V) /\ RootScalars = Padded(L)
  BY <1>1, <1>3, <1>5, <1>11 DEF JsonText, RootScalars
<1> QED BY <1>4, <1>13, <1>14, <1>15, <1>16

\* No text is a document for the parser and has a number or a literal name as its root:
\* they begin with different characters.
LEMMA ScalarsRefused == Padded(LiteralNames \cup ReadNumber) \cap ReadDocuments = {}
<1>1. PICK L \in SUBSET Text : L = LiteralNames \cup ReadNumber
  BY Brackets, LiteralTexts, DerivReadNumber
<1>2. PICK C \in SUBSET Text : C = ReadComposite
  BY Brackets, DerivReadComposite
<1>3. Empty \notin L /\ Empty \notin C
  BY <1>1, <1>2, Brackets, DerivLiteralNames, DerivReadNumber, DerivReadComposite
<1>4. ASSUME NEW c \in AllChars, c \in {Quote, "[", "{", "sp"}
      PROVE  Deriv(c, L) = {}
  <2>1. Deriv(c, L) = Deriv(c, LiteralNames) \cup Deriv(c, ReadNumber)
    BY <1>1, DerivUnion
  <2>2. c \notin {"t", "f", "n", "-", "0"} /\ c \notin Digits19
    BY <1>4 DEF Quote, Digits19
  <2> QED BY <2>1, <2>2, DerivLiteralNames, DerivReadNumber
<1>5. ASSUME NEW c \in AllChars, c \notin {Quote, "[", "{"}
      PROVE  Deriv(c, C) = {}
  BY <1>2, <1>5, DerivReadComposite
<1>6. "sp" \notin {Quote, "[", "{"}
  BY DEF Quote
<1>7. Deriv("sp", L) = {} /\ Deriv("sp", C) = {}
  BY <1>4, <1>5, <1>6, Brackets
<1>8. Padded(L) \cap Padded(C) = {}
  BY <1>3, <1>4, <1>5, <1>7, PaddedDisjoint
<1> QED BY <1>1, <1>2, <1>8, DocumentLanguage DEF Document

\* Of the texts of RFC 8259, of every length and depth, those whose root is an array, an
\* object or a string are accepted, and those whose root is a number, true, false or null
\* are refused (parser_bits.h:155-194, consume_initial_, and every other consumer).
THEOREM JsonTextAccepted == GrammarSpec => []AcceptsAllButScalars
<1>1. RootScalars \cap ReadDocuments = {}
  BY DocumentsRead, ScalarsRefused
<1>2. (complete_without_error <=> text \in ReadDocuments) => AcceptsAllButScalars
  BY <1>1, DocumentsRead DEF AcceptsAllButScalars
<1> QED BY <1>2, AcceptsExactly, PTL
=============================================================================
