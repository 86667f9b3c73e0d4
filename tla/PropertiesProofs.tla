-------------------------- MODULE PropertiesProofs --------------------------
(***************************************************************************)
(* Proofs about Properties, for any names and items and objects of every   *)
(* size: without a name that was added twice an object is a map.           *)
(***************************************************************************)
EXTENDS Properties, FiniteSetTheorems, FunctionTheorems, SequenceTheorems, TLAPS

-----------------------------------------------------------------------------
(* Objects in which no name is there twice.                                *)

Values == Items \cup {Null}

Pairs == [name : Names, item : Values]

IsObject(o) ==
  /\ o \in Seq(Pairs)
  /\ \A i, j \in 1 .. Len(o) : o[i].name = o[j].name => i = j

FirstIn(o, name) == SelectInSeq(o, LAMBDA pair : pair.name = name)

NamesIn(o) == {o[i].name : i \in DOMAIN o}

\* What Seen is for the object o.
SeenIn(o) == [name \in NamesIn(o) |-> o[FirstIn(o, name)].item]

LEMMA PairParts ==
  ASSUME NEW n \in Names, NEW v \in Values
  PROVE  Pair(n, v) \in Pairs /\ Pair(n, v).name = n /\ Pair(n, v).item = v
BY DEF Pair, Pairs

LEMMA FirstIs ==
  ASSUME NEW o, IsObject(o), NEW i \in 1 .. Len(o)
  PROVE  FirstIn(o, o[i].name) = i
<1> DEFINE I == {j \in 1 .. Len(o) : o[j].name = o[i].name}
<1>1. I = {i}
  BY DEF IsObject
<1>2. FirstIn(o, o[i].name) = Min(I)
  BY <1>1 DEF FirstIn, SelectInSeq
<1>3. i \in Int
  OBVIOUS
<1> QED BY <1>1, <1>2, <1>3 DEF Min

\* At(name) is 0 for the names that are not there.
LEMMA FirstOfNone ==
  ASSUME NEW o, NEW n, n \notin NamesIn(o), DOMAIN o = 1 .. Len(o)
  PROVE  FirstIn(o, n) = 0
<1>1. {j \in 1 .. Len(o) : o[j].name = n} = {}
  BY DEF NamesIn
<1> QED BY <1>1 DEF FirstIn, SelectInSeq

LEMMA HasMeansThere ==
  ASSUME NEW o, IsObject(o), NEW n
  PROVE  /\ FirstIn(o, n) > 0 <=> n \in NamesIn(o)
         /\ n \in NamesIn(o) => FirstIn(o, n) \in 1 .. Len(o) /\ o[FirstIn(o, n)].name = n
<1>1. DOMAIN o = 1 .. Len(o) /\ Len(o) \in Nat
  BY DEF IsObject
<1>2. ASSUME n \in NamesIn(o)
      PROVE  FirstIn(o, n) \in 1 .. Len(o) /\ o[FirstIn(o, n)].name = n
  <2>1. PICK i \in 1 .. Len(o) : o[i].name = n
    BY <1>1, <1>2 DEF NamesIn
  <2> QED BY <2>1, FirstIs
<1>3. ASSUME n \notin NamesIn(o) PROVE FirstIn(o, n) = 0
  BY <1>1, <1>3, FirstOfNone
<1> QED BY <1>1, <1>2, <1>3

LEMMA SeenParts ==
  ASSUME NEW o, IsObject(o)
  PROVE  /\ DOMAIN SeenIn(o) = NamesIn(o)
         /\ NamesIn(o) = {o[i].name : i \in 1 .. Len(o)}
         /\ \A i \in 1 .. Len(o) : o[i].name \in NamesIn(o) /\ SeenIn(o)[o[i].name] = o[i].item
<1>1. DOMAIN o = 1 .. Len(o)
  BY DEF IsObject
<1>2. ASSUME NEW i \in 1 .. Len(o)
      PROVE  o[i].name \in NamesIn(o) /\ SeenIn(o)[o[i].name] = o[i].item
  BY <1>1, FirstIs DEF NamesIn, SeenIn
<1> QED BY <1>1, <1>2 DEF NamesIn, SeenIn

-----------------------------------------------------------------------------
(* The changes of an object.                                               *)

\* The object with another item in a pair.
WithItem(o, i, v) == [o EXCEPT ![i].item = v]

\* What the actions of PropertyMap make of a map.
PutIn(s, n, v) == [m \in DOMAIN s \cup {n} |-> IF m = n THEN v ELSE s[m]]
MovedIn(s, n, from) ==
  [m \in DOMAIN s \cup {n} |-> IF m = n THEN s[from] ELSE IF m = from THEN Null ELSE s[m]]
RemovedIn(s, n) == [m \in DOMAIN s \ {n} |-> s[m]]

LEMMA ItemChanged ==
  ASSUME NEW o, IsObject(o), NEW i \in 1 .. Len(o), NEW v \in Values,
         NEW u, u = WithItem(o, i, v)
  PROVE  /\ IsObject(u) /\ Len(u) = Len(o) /\ NamesIn(u) = NamesIn(o)
         /\ u[i].item = v
         /\ \A j \in 1 .. Len(o) : u[j].name = o[j].name /\ (j # i => u[j] = o[j])
         /\ SeenIn(u) = PutIn(SeenIn(o), o[i].name, v)
<1>1. o \in Seq(Pairs) /\ Len(o) \in Nat /\ DOMAIN o = 1 .. Len(o) /\ o[i] \in Pairs
  BY DEF IsObject
<1>2. [o[i] EXCEPT !.item = v] \in Pairs
  BY <1>1 DEF Pairs
<1>3. u \in Seq(Pairs) /\ Len(u) = Len(o) /\ DOMAIN u = 1 .. Len(o)
  BY <1>1, <1>2 DEF WithItem
<1>4. /\ u[i].item = v /\ u[i].name = o[i].name
      /\ \A j \in 1 .. Len(o) : j # i => u[j] = o[j]
  BY <1>1 DEF Pairs, WithItem
<1>5. \A j \in 1 .. Len(o) : u[j].name = o[j].name
  BY <1>4
<1>6. IsObject(u)
  BY <1>3, <1>5 DEF IsObject
<1>7. NamesIn(u) = NamesIn(o)
  BY <1>1, <1>3, <1>5 DEF NamesIn
<1>8. SeenIn(u) = PutIn(SeenIn(o), o[i].name, v)
  <2> DEFINE s == SeenIn(o)
  <2>1. /\ DOMAIN s = NamesIn(o) /\ o[i].name \in NamesIn(o)
        /\ \A j \in 1 .. Len(o) : s[o[j].name] = o[j].item
    BY SeenParts
  <2>2. /\ DOMAIN SeenIn(u) = NamesIn(u)
        /\ NamesIn(u) = {u[j].name : j \in 1 .. Len(u)}
        /\ \A j \in 1 .. Len(u) : SeenIn(u)[u[j].name] = u[j].item
    BY <1>6, SeenParts
  <2> HIDE DEF s
  <2>3. ASSUME NEW m \in NamesIn(o) PROVE SeenIn(u)[m] = IF m = o[i].name THEN v ELSE s[m]
    <3>1. PICK j \in 1 .. Len(o) : u[j].name = m
      BY <1>3, <1>7, <2>2
    <3>2. CASE j = i
      BY <3>1, <3>2, <1>3, <1>4, <2>2
    <3>3. CASE j # i
      <4>1. o[j].name # o[i].name
        BY <3>3 DEF IsObject
      <4> QED BY <3>1, <3>3, <4>1, <1>3, <1>4, <2>1, <2>2
    <3> QED BY <3>2, <3>3
  <2>4. NamesIn(o) \cup {o[i].name} = NamesIn(o)
    BY <2>1
  <2>5. SeenIn(u) = [m \in NamesIn(o) |-> IF m = o[i].name THEN v ELSE s[m]]
    BY <2>2, <2>3, <1>7 DEF SeenIn
  <2> QED BY <2>1, <2>4, <2>5 DEF PutIn, s
<1> QED BY <1>3, <1>4, <1>5, <1>6, <1>7, <1>8

LEMMA PairAdded ==
  ASSUME NEW o, IsObject(o), NEW n \in Names, n \notin NamesIn(o), NEW v \in Values,
         NEW u, u = Append(o, Pair(n, v))
  PROVE  IsObject(u) /\ SeenIn(u) = PutIn(SeenIn(o), n, v)
<1>1. o \in Seq(Pairs) /\ Len(o) \in Nat /\ DOMAIN o = 1 .. Len(o)
  BY DEF IsObject
<1>2. /\ u \in Seq(Pairs) /\ Len(u) = Len(o) + 1 /\ u[Len(o) + 1] = Pair(n, v)
      /\ \A j \in 1 .. Len(o) : u[j] = o[j]
  BY <1>1, PairParts, AppendProperties
<1>3. u[Len(o) + 1].name = n /\ u[Len(o) + 1].item = v
  BY <1>2, PairParts
<1>4. /\ DOMAIN SeenIn(o) = NamesIn(o)
      /\ NamesIn(o) = {o[i].name : i \in 1 .. Len(o)}
      /\ \A i \in 1 .. Len(o) : o[i].name \in NamesIn(o) /\ SeenIn(o)[o[i].name] = o[i].item
  BY SeenParts
<1>5. \A j \in 1 .. Len(u) : j \in 1 .. Len(o) \/ j = Len(o) + 1
  BY <1>1, <1>2
<1>6. IsObject(u)
  <2>1. ASSUME NEW i \in 1 .. Len(u), NEW j \in 1 .. Len(u), u[i].name = u[j].name PROVE i = j
    <3>1. CASE i \in 1 .. Len(o) /\ j \in 1 .. Len(o)
      BY <2>1, <3>1, <1>2 DEF IsObject
    <3>2. CASE i \in 1 .. Len(o) /\ j = Len(o) + 1
      BY <2>1, <3>2, <1>2, <1>3, <1>4
    <3>3. CASE i = Len(o) + 1 /\ j \in 1 .. Len(o)
      BY <2>1, <3>3, <1>2, <1>3, <1>4
    <3> QED BY <3>1, <3>2, <3>3, <1>5
  <2> QED BY <2>1, <1>2 DEF IsObject
<1>7. /\ DOMAIN SeenIn(u) = NamesIn(u)
      /\ NamesIn(u) = {u[i].name : i \in 1 .. Len(u)}
      /\ \A i \in 1 .. Len(u) : SeenIn(u)[u[i].name] = u[i].item
  BY <1>6, SeenParts
<1>8. NamesIn(u) = NamesIn(o) \cup {n}
  <2>1. 1 .. Len(o) \subseteq 1 .. Len(u) /\ Len(o) + 1 \in 1 .. Len(u)
    BY <1>1, <1>2
  <2> QED BY <2>1, <1>2, <1>3, <1>4, <1>5, <1>7
<1>9. ASSUME NEW m \in NamesIn(u) PROVE SeenIn(u)[m] = IF m = n THEN v ELSE SeenIn(o)[m]
  <2>1. PICK j \in 1 .. Len(u) : u[j].name = m
    BY <1>7
  <2>2. CASE j = Len(o) + 1
    BY <2>1, <2>2, <1>3, <1>7
  <2>3. CASE j \in 1 .. Len(o)
    <3>1. u[j] = o[j] /\ o[j].name # n
      BY <2>3, <1>2, <1>4
    <3>2. o[j].name = m /\ m # n
      BY <2>1, <3>1
    <3>3. SeenIn(u)[m] = u[j].item
      BY <2>1, <1>7
    <3>4. SeenIn(o)[m] = o[j].item
      BY <2>3, <3>2, <1>4
    <3> QED BY <3>1, <3>2, <3>3, <3>4
  <2> QED BY <2>2, <2>3, <1>5
<1>10. SeenIn(u) = [m \in NamesIn(u) |-> IF m = n THEN v ELSE SeenIn(o)[m]]
  BY <1>9 DEF SeenIn
<1> QED BY <1>4, <1>6, <1>8, <1>10 DEF PutIn

LEMMA PairRemoved ==
  ASSUME NEW o, IsObject(o), NEW k \in 1 .. Len(o), NEW u, u = RemoveAt(o, k)
  PROVE  /\ IsObject(u)
         /\ SeenIn(u) = RemovedIn(SeenIn(o), o[k].name)
<1>1. o \in Seq(Pairs) /\ Len(o) \in Nat /\ DOMAIN o = 1 .. Len(o) /\ k \in Nat
  BY DEF IsObject
<1> DEFINE before == SubSeq(o, 1, k - 1)
           behind == SubSeq(o, k + 1, Len(o))
           From(j) == IF j < k THEN j ELSE j + 1
<1>2. /\ before \in Seq(Pairs) /\ Len(before) = k - 1
      /\ \A j \in 1 .. k - 1 : before[j] = o[j]
  BY <1>1
<1>3. /\ behind \in Seq(Pairs) /\ Len(behind) = Len(o) - k
      /\ \A j \in 1 .. Len(o) - k : behind[j] = o[j + k]
  <2>1. /\ k + 1 \in Int /\ Len(o) \in Int /\ Len(o) - (k + 1) + 1 = Len(o) - k
        /\ \A j \in 1 .. Len(o) - k : (k + 1) + j - 1 = j + k
        /\ k + 1 <= Len(o) \/ Len(o) - k = 0
    <3>1. k \in Int /\ Len(o) \in Int /\ k <= Len(o)
      BY <1>1
    <3> HIDE DEF before, behind
    <3> QED BY <3>1
  <2>2. \A i \in k + 1 .. Len(o) : o[i] \in Pairs
    BY <1>1
  <2>3. /\ behind \in Seq(Pairs)
        /\ Len(behind) = IF k + 1 <= Len(o) THEN Len(o) - (k + 1) + 1 ELSE 0
        /\ \A i \in 1 .. Len(o) - (k + 1) + 1 : behind[i] = o[(k + 1) + i - 1]
    BY <2>1, <2>2, SubSeqProperties
  <2> QED BY <1>1, <2>1, <2>3
<1>4. u = before \o behind
  BY DEF RemoveAt
<1> HIDE DEF before, behind
<1>5. /\ u \in Seq(Pairs) /\ Len(u) = Len(o) - 1
      /\ \A j \in 1 .. Len(u) : u[j] = IF j <= k - 1 THEN before[j] ELSE behind[j - (k - 1)]
  <2>0. before \in Seq(Pairs) /\ behind \in Seq(Pairs)
    BY <1>2, <1>3
  <2>1. /\ u \in Seq(Pairs) /\ Len(u) = Len(before) + Len(behind)
        /\ \A j \in 1 .. Len(before) + Len(behind) :
             u[j] = IF j <= Len(before) THEN before[j] ELSE behind[j - Len(before)]
    <3>1. /\ before \o behind \in Seq(Pairs)
          /\ Len(before \o behind) = Len(before) + Len(behind)
          /\ \A j \in 1 .. Len(before) + Len(behind) : (before \o behind)[j] =
               IF j <= Len(before) THEN before[j] ELSE behind[j - Len(before)]
      BY <2>0, ConcatProperties
    <3> QED BY <3>1, <1>4
  <2>2. Len(before) + Len(behind) = Len(o) - 1
    BY <1>1, <1>2, <1>3
  <2> QED BY <1>2, <2>1, <2>2
<1>6. ASSUME NEW j \in 1 .. Len(u)
      PROVE  From(j) \in 1 .. Len(o) /\ From(j) # k /\ u[j] = o[From(j)]
  <2>1. CASE j < k
    <3>1. j \in 1 .. k - 1 /\ u[j] = before[j]
      BY <2>1, <1>1, <1>5
    <3> QED BY <3>1, <2>1, <1>1, <1>2
  <2>2. CASE ~(j < k)
    <3>1. j - (k - 1) \in 1 .. Len(o) - k /\ u[j] = behind[j - (k - 1)]
      BY <2>2, <1>1, <1>5
    <3>2. behind[j - (k - 1)] = o[(j - (k - 1)) + k] /\ (j - (k - 1)) + k = j + 1
      BY <3>1, <1>1, <1>3
    <3> QED BY <3>1, <3>2, <2>2, <1>1, <1>5
  <2> QED BY <2>1, <2>2
<1>7. ASSUME NEW i \in 1 .. Len(o), i # k PROVE \E j \in 1 .. Len(u) : From(j) = i
  <2>1. CASE i < k
    BY <2>1, <1>1, <1>5
  <2>2. CASE i > k
    <3>1. i - 1 \in 1 .. Len(u) /\ From(i - 1) = i
      BY <2>2, <1>1, <1>5
    <3> QED BY <3>1
  <2> QED BY <2>1, <2>2, <1>1, <1>7
<1>8. \A i, j \in 1 .. Len(u) : From(i) = From(j) => i = j
  BY <1>1, <1>5
<1> HIDE DEF From
<1>9. IsObject(u)
  <2>1. ASSUME NEW i \in 1 .. Len(u), NEW j \in 1 .. Len(u), u[i].name = u[j].name PROVE i = j
    <3>1. o[From(i)].name = o[From(j)].name
      BY <2>1, <1>6
    <3>2. From(i) = From(j)
      BY <3>1, <1>6 DEF IsObject
    <3> QED BY <3>2, <1>8
  <2> QED BY <2>1, <1>5 DEF IsObject
<1>10. /\ DOMAIN SeenIn(o) = NamesIn(o)
       /\ NamesIn(o) = {o[i].name : i \in 1 .. Len(o)}
       /\ \A i \in 1 .. Len(o) : o[i].name \in NamesIn(o) /\ SeenIn(o)[o[i].name] = o[i].item
  BY SeenParts
<1>11. /\ DOMAIN SeenIn(u) = NamesIn(u)
       /\ NamesIn(u) = {u[i].name : i \in 1 .. Len(u)}
       /\ \A i \in 1 .. Len(u) : SeenIn(u)[u[i].name] = u[i].item
  BY <1>9, SeenParts
<1>12. NamesIn(u) = NamesIn(o) \ {o[k].name}
  <2>1. ASSUME NEW m \in NamesIn(u) PROVE m \in NamesIn(o) \ {o[k].name}
    <3>1. PICK j \in 1 .. Len(u) : u[j].name = m
      BY <1>11
    <3>2. From(j) \in 1 .. Len(o) /\ From(j) # k /\ o[From(j)].name = m
      BY <3>1, <1>6
    <3>3. o[From(j)].name # o[k].name
      BY <3>2 DEF IsObject
    <3> QED BY <3>2, <3>3, <1>10
  <2>2. ASSUME NEW m \in NamesIn(o), m # o[k].name PROVE m \in NamesIn(u)
    <3>1. PICK i \in 1 .. Len(o) : o[i].name = m
      BY <1>10
    <3>2. PICK j \in 1 .. Len(u) : From(j) = i
      BY <3>1, <2>2, <1>7
    <3> QED BY <3>1, <3>2, <1>6, <1>11
  <2> QED BY <2>1, <2>2
<1>13. ASSUME NEW m \in NamesIn(u) PROVE SeenIn(u)[m] = SeenIn(o)[m]
  <2>1. PICK j \in 1 .. Len(u) : u[j].name = m
    BY <1>11
  <2>2. From(j) \in 1 .. Len(o) /\ u[j] = o[From(j)]
    BY <1>6
  <2>3. o[From(j)].name = m
    BY <2>1, <2>2
  <2>4. SeenIn(u)[m] = u[j].item
    BY <2>1, <1>11
  <2>5. SeenIn(o)[m] = o[From(j)].item
    BY <2>2, <2>3, <1>10
  <2> QED BY <2>2, <2>4, <2>5
<1>14. SeenIn(u) = [m \in NamesIn(u) |-> SeenIn(o)[m]]
  BY <1>13 DEF SeenIn
<1> QED BY <1>9, <1>10, <1>12, <1>14 DEF RemovedIn

-----------------------------------------------------------------------------
(* The inductive invariant.                                                *)

\* After a name was added twice nothing is claimed.
IInv == duplicated \in BOOLEAN /\ (~duplicated => IsObject(object))

LEMMA SeenOf ==
  /\ Seen = SeenIn(object)
  /\ NamesUsed = NamesIn(object)
  /\ \A n : At(n) = FirstIn(object, n)
BY DEF Seen, SeenIn, NamesUsed, NamesIn, property, At, FirstIn

LEMMA SeenNext == Seen' = SeenIn(object')
<1>1. Seen = SeenIn(object)
  BY SeenOf
<1>2. (Seen = SeenIn(object))'
  BY <1>1, PTL
<1> QED BY <1>2

LEMMA SeenUnchanged ==
  ASSUME object' = object
  PROVE  Seen' = Seen
BY SeenOf, SeenNext

\* What is left after an item was moved away, and what was moved.
LEMMA MovedAway ==
  ASSUME IsObject(object), NEW slot \in Slots, NEW new \in Items
  PROVE  /\ IsObject(Without(slot)) /\ NamesIn(Without(slot)) = NamesIn(object)
         /\ Len(Without(slot)) = Len(object)
         /\ \A i \in 1 .. Len(object) : Without(slot)[i].name = object[i].name
         /\ Taken(slot, new) \in Values
         /\ slot = 0 => SeenIn(Without(slot)) = SeenIn(object) /\ Taken(slot, new) = new
         /\ slot # 0 =>
              /\ slot \in 1 .. Len(object) /\ object[slot].name \in NamesIn(object)
              /\ object[slot].name \in Names
              /\ SeenIn(Without(slot)) = PutIn(SeenIn(object), object[slot].name, Null)
              /\ Taken(slot, new) = SeenIn(object)[object[slot].name]
<1>1. CASE slot = 0
  BY <1>1 DEF Without, Taken, Values
<1>2. CASE slot # 0
  <2>1. slot \in 1 .. Len(object) /\ object \in Seq(Pairs)
    BY <1>2 DEF Slots, IsObject
  <2>2. object[slot] \in Pairs
    BY <2>1
  <2>3. object[slot].name \in Names /\ object[slot].item \in Values
    BY <2>2 DEF Pairs
  <2>4. Null \in Values
    BY DEF Values
  <2>5. Without(slot) = WithItem(object, slot, Null) /\ Taken(slot, new) = object[slot].item
    BY <1>2 DEF Without, Taken, WithItem
  <2>6. /\ IsObject(Without(slot)) /\ NamesIn(Without(slot)) = NamesIn(object)
        /\ Len(Without(slot)) = Len(object)
        /\ \A i \in 1 .. Len(object) : Without(slot)[i].name = object[i].name
        /\ SeenIn(Without(slot)) = PutIn(SeenIn(object), object[slot].name, Null)
    BY <2>1, <2>4, <2>5, ItemChanged
  <2>7. object[slot].name \in NamesIn(object) /\ SeenIn(object)[object[slot].name] = object[slot].item
    BY <2>1, SeenParts
  <2> QED BY <1>2, <2>1, <2>3, <2>5, <2>6, <2>7
<1> QED BY <1>1, <1>2

\* An item moved from one name to another is Move of PropertyMap.
LEMMA MoveIs ==
  ASSUME NEW s, NEW t, NEW n, NEW from \in DOMAIN s, from # n,
         t = PutIn(PutIn(s, from, Null), n, s[from])
  PROVE  t = MovedIn(s, n, from)
<1>1. DOMAIN PutIn(s, from, Null) = DOMAIN s
  BY DEF PutIn
<1>2. \A m \in DOMAIN s : PutIn(s, from, Null)[m] = IF m = from THEN Null ELSE s[m]
  BY DEF PutIn
<1> HIDE DEF PutIn
<1>3. t = [m \in DOMAIN s \cup {n} |-> IF m = n THEN s[from] ELSE PutIn(s, from, Null)[m]]
  BY <1>1 DEF PutIn
<1>4. \A m \in DOMAIN s \cup {n} :
        (IF m = n THEN s[from] ELSE PutIn(s, from, Null)[m])
          = IF m = n THEN s[from] ELSE IF m = from THEN Null ELSE s[m]
  BY <1>2
<1> QED BY <1>3, <1>4 DEF MovedIn

\* A new item or the item of another name becomes the item of a name.
LEMMA PutOrMove ==
  ASSUME IsObject(object), NEW slot \in Slots, NEW new \in Items, NEW n \in Names,
         slot # 0 => object[slot].name # n,
         Seen' = PutIn(SeenIn(Without(slot)), n, Taken(slot, new))
  PROVE  M!Next
<1>1. Seen = SeenIn(object) /\ DOMAIN Seen = NamesIn(object)
  BY SeenOf, SeenParts
<1>2. CASE slot = 0
  <2>1. Seen' = PutIn(Seen, n, new)
    BY <1>1, <1>2, MovedAway
  <2>2. M!Put(n, new)
    BY <2>1 DEF PutIn, M!Put, M!Present
  <2> QED BY <2>2 DEF M!Next
<1>3. CASE slot # 0
  <2> DEFINE from == object[slot].name
  <2>1. from \in DOMAIN Seen /\ from \in Names /\ from # n
    BY <1>1, <1>3, MovedAway
  <2>2. Seen' = PutIn(PutIn(Seen, from, Null), n, Seen[from])
    BY <1>1, <1>3, MovedAway
  <2> HIDE DEF from
  <2>3. Seen' = MovedIn(Seen, n, from)
    BY <2>1, <2>2, MoveIs
  <2>4. M!Move(n, from)
    BY <2>1, <2>3 DEF M!Move, M!Present, MovedIn
  <2> QED BY <2>1, <2>4 DEF M!Next
<1> QED BY <1>2, <1>3

\* A pair with a name that was not there.
LEMMA StepEmplace ==
  ASSUME IsObject(object), NEW n \in Names, NEW slot \in Slots, NEW new \in Items,
         n \notin NamesIn(object), Emplace(n, slot, new)
  PROVE  IsObject(object)' /\ M!Next
<1> DEFINE o == Without(slot)
           v == Taken(slot, new)
<1>1. IsObject(o) /\ NamesIn(o) = NamesIn(object) /\ v \in Values
  BY MovedAway
<1>2. object' = Append(o, Pair(n, v))
  BY DEF Emplace
<1> HIDE DEF o, v
<1>3. IsObject(object') /\ SeenIn(object') = PutIn(SeenIn(o), n, v)
  BY <1>1, <1>2, PairAdded
<1>4. Seen' = PutIn(SeenIn(o), n, v)
  BY <1>3, SeenNext
<1>5. slot # 0 => object[slot].name # n
  BY MovedAway
<1> QED BY <1>3, <1>4, <1>5, PutOrMove DEF IsObject, o, v

\* The item of a pair that is there is assigned to.
LEMMA StepAssign ==
  ASSUME IsObject(object), NEW to \in 1 .. Len(object), NEW slot \in Slots,
         NEW new \in Items, Assign(to, slot, new)
  PROVE  IsObject(object)' /\ [M!Next]_Seen
<1>1. CASE slot = to /\ UNCHANGED object
  BY <1>1, SeenUnchanged
<1>2. CASE slot # to /\ object' = [Without(slot) EXCEPT ![to].item = Taken(slot, new)]
  <2> DEFINE o == Without(slot)
             v == Taken(slot, new)
             n == object[to].name
  <2>1. /\ IsObject(o) /\ Len(o) = Len(object) /\ o[to].name = n /\ v \in Values
        /\ object \in Seq(Pairs)
    BY MovedAway DEF IsObject
  <2>2. object' = WithItem(o, to, v) /\ to \in 1 .. Len(o)
    BY <1>2, <2>1 DEF WithItem
  <2>3. n \in Names
    <3>1. object[to] \in Pairs
      BY <2>1
    <3> QED BY <3>1 DEF Pairs
  <2>4. slot # 0 => object[slot].name # n
    BY <1>2, MovedAway DEF IsObject
  <2> HIDE DEF o, v, n
  <2>5. IsObject(object') /\ SeenIn(object') = PutIn(SeenIn(o), n, v)
    BY <2>1, <2>2, ItemChanged
  <2>6. Seen' = PutIn(SeenIn(o), n, v)
    BY <2>5, SeenNext
  <2> QED BY <2>3, <2>4, <2>5, <2>6, PutOrMove DEF IsObject, o, v
<1> QED BY <1>1, <1>2 DEF Assign

LEMMA StepCreate ==
  ASSUME IsObject(object), NEW n \in Names, n \notin NamesIn(object), Emplace(n, 0, Null)
  PROVE  IsObject(object)' /\ M!Next
<1>1. object' = Append(object, Pair(n, Null)) /\ Null \in Values
  BY DEF Emplace, Without, Taken, Values
<1>2. IsObject(object') /\ SeenIn(object') = PutIn(SeenIn(object), n, Null)
  BY <1>1, PairAdded
<1>3. Seen' = PutIn(Seen, n, Null)
  BY <1>2, SeenOf, SeenNext
<1>4. n \notin M!Present
  BY SeenOf, SeenParts DEF M!Present
<1>5. M!Put(n, Null)
  BY <1>3 DEF M!Put, M!Present, PutIn
<1> QED BY <1>2, <1>4, <1>5 DEF M!Next, IsObject

LEMMA StepRemove ==
  ASSUME IsObject(object), NEW n \in Names, remove_property(n)
  PROVE  IsObject(object)' /\ M!Next
<1> DEFINE k == FirstIn(object, n)
<1>1. n \in NamesIn(object) /\ k \in 1 .. Len(object) /\ object[k].name = n
  BY SeenOf, HasMeansThere DEF remove_property, Has
<1>2. object' = RemoveAt(object, k)
  BY SeenOf DEF remove_property
<1> HIDE DEF k
<1>3. IsObject(object') /\ SeenIn(object') = RemovedIn(SeenIn(object), n)
  BY <1>1, <1>2, PairRemoved
<1>4. Seen' = RemovedIn(Seen, n)
  BY <1>3, SeenOf, SeenNext
<1>5. n \in DOMAIN Seen
  BY <1>1, SeenOf, SeenParts
<1>6. M!Remove(n)
  BY <1>4, <1>5 DEF M!Remove, M!Present, RemovedIn
<1> QED BY <1>3, <1>6 DEF M!Next, IsObject

LEMMA StepModify ==
  ASSUME IsObject(object), NEW n \in Names, NEW new \in Items, Modify(n, new)
  PROVE  IsObject(object)' /\ M!Next
<1> DEFINE k == FirstIn(object, n)
<1>1. k \in 1 .. Len(object) /\ object[k].name = n /\ new \in Values
  BY SeenOf, HasMeansThere DEF Modify, Has, Values
<1>2. object' = WithItem(object, k, new)
  BY SeenOf DEF Modify, WithItem
<1> HIDE DEF k
<1>3. IsObject(object') /\ SeenIn(object') = PutIn(SeenIn(object), n, new)
  BY <1>1, <1>2, ItemChanged
<1>4. Seen' = PutIn(Seen, n, new)
  BY <1>3, SeenOf, SeenNext
<1>5. M!Put(n, new)
  BY <1>4 DEF M!Put, M!Present, PutIn
<1> QED BY <1>3, <1>5 DEF M!Next, IsObject

LEMMA StepSet ==
  ASSUME IsObject(object), NEW n \in Names, NEW slot \in Slots, NEW new \in Items,
         set_property(n, slot, new)
  PROVE  IsObject(object)' /\ [M!Next]_Seen
<1>1. /\ Has(n) <=> n \in NamesIn(object)
      /\ n \in NamesIn(object) => At(n) \in 1 .. Len(object)
  BY SeenOf, HasMeansThere DEF Has
<1>2. CASE Has(n)
  BY <1>1, <1>2, StepAssign DEF set_property
<1>3. CASE ~Has(n)
  BY <1>1, <1>3, StepEmplace DEF set_property
<1> QED BY <1>2, <1>3

LEMMA StepProperties ==
  ASSUME IsObject(object), ~duplicated, ~duplicated', [Next]_vars
  PROVE  IsObject(object)' /\ [M!Next]_Seen
<1>1. CASE UNCHANGED vars
  BY <1>1, SeenUnchanged DEF vars
<1>2. ASSUME NEW n \in Names PROVE Has(n) <=> n \in NamesIn(object)
  BY SeenOf, HasMeansThere DEF Has
<1>3. ASSUME NEW n \in Names, NEW slot \in Slots, NEW new \in Items, add_property(n, slot, new)
      PROVE  IsObject(object)' /\ M!Next
  BY <1>2, <1>3, StepEmplace DEF add_property
<1>4. ASSUME NEW n \in Names, create_property(n)
      PROVE  IsObject(object)' /\ M!Next
  BY <1>2, <1>4, StepCreate DEF create_property, add_property
<1> QED BY <1>1, <1>3, <1>4, StepSet, StepRemove, StepModify DEF Next

LEMMA InitIInv ==
  ASSUME Init
  PROVE  IInv /\ M!Init
<1>1. object = << >> /\ duplicated = FALSE
  BY DEF Init
<1>2. << >> \in Seq(Pairs) /\ Len(<< >>) = 0
  BY EmptySeq
<1>3. IsObject(object)
  BY <1>1, <1>2 DEF IsObject
<1>4. NamesUsed = {}
  BY <1>1, <1>2 DEF NamesUsed
<1>5. Seen = << >>
  BY <1>4 DEF Seen
<1> QED BY <1>1, <1>3, <1>5 DEF IInv, M!Init

\* Once a name was added twice it is remembered.
LEMMA StepDuplicated ==
  ASSUME duplicated \in BOOLEAN, [Next]_vars
  PROVE  duplicated' \in BOOLEAN /\ (duplicated => duplicated')
BY DEF Next, vars, add_property, create_property, set_property, remove_property, Modify, Has

LEMMA StepIInv ==
  ASSUME IInv, [Next]_vars
  PROVE  IInv' /\ [M!Next \/ duplicated']_Seen
<1>1. duplicated' \in BOOLEAN /\ (duplicated => duplicated')
  BY StepDuplicated DEF IInv
<1>2. CASE duplicated'
  BY <1>1, <1>2 DEF IInv
<1>3. CASE ~duplicated'
  BY <1>1, <1>3, StepProperties DEF IInv
<1> QED BY <1>2, <1>3

-----------------------------------------------------------------------------
(* The theorems.                                                           *)

\* However long an object is used, its pairs are of different names until one was added
\* that was there.
THEOREM Inductive == Spec => []IInv
<1>1. Init => IInv
  BY InitIInv
<1>2. IInv /\ [Next]_vars => IInv'
  BY StepIInv
<1> QED BY <1>1, <1>2, PTL DEF Spec

\* An object is a map, for any names and items and with items moved within it.
THEOREM ObjectIsMap == Spec => IsMapUnlessDuplicated
<1>1. Init => M!Init
  BY InitIInv
<1>2. IInv /\ [Next]_vars => [M!Next \/ duplicated']_Seen
  BY StepIInv
<1> QED BY <1>1, <1>2, Inductive, PTL DEF Spec, IsMapUnlessDuplicated

LEMMA AsManyNames ==
  ASSUME NEW o, IsObject(o)
  PROVE  Len(o) = Cardinality(NamesIn(o))
<1> DEFINE S == 1 .. Len(o)
           f == [i \in S |-> o[i].name]
<1>1. Len(o) \in Nat /\ DOMAIN o = S
  BY DEF IsObject
<1>2. IsFiniteSet(S) /\ Cardinality(S) = Len(o)
  <2>1. 0 + 1 = 1 /\ (1 > Len(o) <=> Len(o) = 0) /\ Len(o) - 1 + 1 = Len(o)
    BY <1>1
  <2> QED BY <1>1, <2>1, FS_Interval
<1>3. f \in Bijection(S, NamesIn(o))
  <2>1. NamesIn(o) = {f[i] : i \in S}
    BY <1>1 DEF NamesIn
  <2>2. \A i, j \in S : f[i] = f[j] => i = j
    BY DEF IsObject
  <2>3. \A t \in NamesIn(o) : \E i \in S : f[i] = t
    BY <2>1
  <2> QED BY <2>1, <2>2, <2>3, Fun_IsBij
<1>4. ExistsBijection(S, NamesIn(o))
  BY <1>3 DEF ExistsBijection
<1> HIDE DEF S
<1> QED BY <1>2, <1>4, FS_Bijection

\* As long as no name was added that was there (add_property and create_property do not
\* look), child_count() counts every name once.
THEOREM NamesDistinct == Spec => []NamesOnce
<1>1. IInv => NamesOnce
  BY AsManyNames, SeenOf DEF IInv, NamesOnce
<1> QED BY <1>1, Inductive, PTL
=============================================================================
