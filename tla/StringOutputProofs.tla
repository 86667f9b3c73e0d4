------------------------ MODULE StringOutputProofs --------------------------
(***************************************************************************)
(* Proofs about StringOutput, for UTF-8 strings of every length and        *)
(* buffers with any room.                                                  *)
(***************************************************************************)
EXTENDS StringOutput, SequenceTheorems, WellFoundedInduction, TLAPS

-----------------------------------------------------------------------------
(* UTF-8.                                                                  *)

\* A character begins at n, or the string has ended before it.
Starts(n) == n \in 1 .. Len(value) + 1 /\ (n <= Len(value) => value[n] # "cont")

LEMMA KindsOfValue ==
  ASSUME value \in Values
  PROVE  /\ value \in Seq(Kinds) /\ Len(value) \in Nat /\ IsUTF8(value)
         /\ \A n \in 1 .. Len(value) : value[n] \in Kinds
BY ValuesAssumption, UTF8Assumption

LEMMA BytesOfKind ==
  ASSUME NEW k \in Kinds
  PROVE  /\ Bytes(k) = Continuations(k) + 1
         /\ Continuations(k) \in 0 .. 3
         /\ Continuations(k) > 0 <=> k \in Leads
         /\ Bytes(k) \in 1 .. 4
         /\ Bytes(k) > 1 <=> k \in Leads
BY DEF Kinds, Bytes, Continuations, Leads

\* The first character begins the string.
LEMMA FirstStarts ==
  ASSUME value \in Values
  PROVE  Starts(1)
<1>1. Len(value) \in Nat /\ IsUTF8(value)
  BY KindsOfValue
<1>2. ASSUME 1 <= Len(value), value[1] = "cont" PROVE FALSE
  <2>1. 1 \in 1 .. Len(value)
    BY <1>1, <1>2
  <2>2. PICK lead \in 1 .. 1 - 1 : TRUE
    BY <1>2, <2>1, <1>1 DEF IsUTF8
  <2> QED BY <2>2
<1> QED BY <1>1, <1>2 DEF Starts

\* After the last byte of a character the next one begins.
LEMMA NextStarts ==
  ASSUME value \in Values, NEW n \in 1 .. Len(value), value[n] # "cont"
  PROVE  n + Bytes(value[n]) <= Len(value) + 1 /\ Starts(n + Bytes(value[n]))
<1> DEFINE past == n + Bytes(value[n])
<1>1. Len(value) \in Nat /\ IsUTF8(value) /\ \A m \in 1 .. Len(value) : value[m] \in Kinds
  BY KindsOfValue
<1>2. past = n + Continuations(value[n]) + 1 /\ Continuations(value[n]) \in 0 .. 3
  BY <1>1, BytesOfKind
<1>3. n + Continuations(value[n]) <= Len(value)
  BY <1>1 DEF IsUTF8
<1>4. past \in 1 .. Len(value) + 1
  BY <1>1, <1>2, <1>3
<1>5. ASSUME past <= Len(value), value[past] = "cont" PROVE FALSE
  <2>1. past \in 1 .. Len(value)
    BY <1>4, <1>5
  <2>2. PICK lead \in 1 .. past - 1 : past <= lead + Continuations(value[lead])
    BY <1>1, <1>5, <2>1 DEF IsUTF8
  <2>3. lead \in 1 .. Len(value) /\ Continuations(value[lead]) \in 0 .. 3
    BY <1>1, <2>1, <2>2, BytesOfKind
  <2>4. CASE lead = n
    BY <1>2, <2>2, <2>4
  <2>5. CASE lead > n
    <3>1. lead \in n + 1 .. n + Continuations(value[n])
      BY <1>2, <2>2, <2>3, <2>5
    <3>2. value[lead] = "cont"
      BY <1>1, <3>1 DEF IsUTF8
    <3>3. Continuations(value[lead]) = 0
      BY <3>2 DEF Continuations
    <3> QED BY <1>4, <2>2, <3>3
  <2>6. CASE lead < n
    <3>1. n \in lead + 1 .. lead + Continuations(value[lead])
      BY <1>2, <2>2, <2>3, <2>6
    <3>2. value[n] = "cont"
      BY <1>1, <2>3, <3>1 DEF IsUTF8
    <3> QED BY <3>2
  <2> QED BY <2>3, <2>4, <2>5, <2>6
<1> QED BY <1>4, <1>5 DEF Starts

-----------------------------------------------------------------------------
(* The types, in every state.                                              *)

\* What was written of the next character is less than all of it.
Partial ==
  sub_position > 0 =>
    \/ /\ codepoint # << >> /\ sub_position < Width(value[codepoint[1]])
    \/ /\ codepoint = << >> /\ position \in 1 .. Len(value)
       /\ value[position] \in {"short", "control"} /\ sub_position < Width(value[position])
       /\ phase = "content" => next = position /\ ~pending

\* Bytes are kept of a code point that has more than these.
Kept ==
  codepoint # << >> =>
    value[codepoint[1]] \in Leads /\ Len(codepoint) < Bytes(value[codepoint[1]])

\* The positions are in the string.
Located ==
  /\ value \in Values
  /\ position \in 0 .. Len(value) + 1 /\ next \in 0 .. Len(value) + 1
  /\ codepoint \in Seq(1 .. Len(value))

Typed ==
  /\ Located
  /\ sub_position \in Nat /\ pending \in BOOLEAN
  /\ room \in Nat \cup {-1} /\ (room = -1 <=> phase = "idle")
  /\ phase \in Phases /\ result \in {"none", "more", "done"} /\ split \in BOOLEAN
  /\ result = "done" => phase = "idle"
  /\ phase = "content" => position >= 1 /\ position <= next
  /\ phase = "content" /\ pending => codepoint = << >> /\ next - position <= room
  /\ Kept
  /\ Partial

LEMMA WidthOfKind ==
  ASSUME NEW k \in Leads \cup {"short", "control"}
  PROVE  Width(k) \in 2 .. 12
BY DEF Width, Leads

\* Some room is left in the loop after what waits is copied.
LEMMA WaitingTyped ==
  ASSUME Typed, phase = "content"
  PROVE  /\ Len(Waiting) = (IF pending THEN next - position ELSE 0)
         /\ room - Len(Waiting) \in Nat
         /\ InLoop => /\ room - Len(Waiting) > 0
                      /\ next \in 1 .. Len(value) /\ value[next] \in Kinds
<1>1. /\ position \in Nat /\ next \in Nat /\ room \in Nat /\ Len(value) \in Nat
      /\ position >= 1 /\ position <= next /\ (pending => next - position <= room)
  BY KindsOfValue DEF Typed, Located
<1>2. Len(Waiting) = (IF pending THEN next - position ELSE 0)
  BY <1>1 DEF Waiting, Copied
<1>3. InLoop => next \in 1 .. Len(value) /\ next - position < room
  BY <1>1 DEF InLoop
<1> HIDE DEF Waiting
<1> QED BY <1>1, <1>2, <1>3, KindsOfValue DEF Typed, Located

LEMMA WrittenLength ==
  ASSUME NEW of, NEW width \in Nat
  PROVE  Len(Written(of, width)) = width
BY DEF Written

LEMMA RestLength ==
  ASSUME NEW w \in Nat, NEW s \in 0 .. w, NEW of
  PROVE  Len(SubSeq(Written(of, w), s + 1, Len(Written(of, w)))) = w - s
<1> DEFINE all == Written(of, w)
           S == {all[k] : k \in 1 .. w}
<1>1. all \in Seq(S) /\ Len(all) = w
  BY DEF Written
<1> HIDE DEF all, S
<1>2. Len(SubSeq(all, s + 1, Len(all))) = w - s
  BY <1>1
<1> QED BY <1>2 DEF all

\* The character a byte takes part in, when no byte of it is missing.
LeadAt(n) == IF codepoint = << >> THEN n ELSE codepoint[1]

LEMMA WholeTyped ==
  ASSUME Typed, InLoop, ~NeedsMore(next), ~Stray(next),
         ~Basic(value[next]) \/ codepoint # << >>
  PROVE  /\ LeadAt(next) \in 1 .. Len(value)
         /\ value[LeadAt(next)] \in Leads \cup {"short", "control"}
         /\ codepoint = << >> => value[next] \in {"short", "control"}
         /\ Width(value[LeadAt(next)]) \in 2 .. 12
         /\ sub_position < Width(value[LeadAt(next)])
         /\ Len(Tmp(next)) = Width(value[LeadAt(next)]) - sub_position
<1> DEFINE lead == LeadAt(next)
<1>1. /\ next \in 1 .. Len(value) /\ value[next] \in Kinds /\ phase = "content"
      /\ sub_position \in Nat
  BY WaitingTyped DEF InLoop, Typed
<1>2. /\ lead \in 1 .. Len(value) /\ value[lead] \in Leads \cup {"short", "control"}
      /\ codepoint = << >> => lead = next /\ value[next] \in {"short", "control"}
      /\ codepoint # << >> => lead = codepoint[1]
  <2>1. CASE codepoint = << >>
    <3>1. value[next] \notin Leads \cup {"basic", "cont"} /\ lead = next
      BY <2>1 DEF NeedsMore, Stray, Basic, LeadAt
    <3> QED BY <1>1, <2>1, <3>1 DEF Kinds, Leads
  <2>2. CASE codepoint # << >>
    <3>1. lead = codepoint[1] /\ codepoint[1] \in 1 .. Len(value)
      BY <2>2 DEF LeadAt, Typed, Located
    <3> QED BY <2>2, <3>1 DEF Typed, Kept
  <2> QED BY <2>1, <2>2
<1>3. Width(value[lead]) \in 2 .. 12
  BY <1>2, WidthOfKind
<1>4. sub_position < Width(value[lead])
  BY <1>1, <1>2, <1>3 DEF Typed, Partial
<1>5. Len(Tmp(next)) = Width(value[lead]) - sub_position
  <2>1. Tmp(next) = LET all == Written(Append(codepoint, next), Width(value[lead]))
                    IN  SubSeq(all, sub_position + 1, Len(all))
    BY DEF Tmp, LeadAt
  <2>2. Width(value[lead]) \in Nat /\ sub_position \in 0 .. Width(value[lead])
    BY <1>1, <1>3, <1>4
  <2> HIDE DEF lead
  <2>3. Len(LET all == Written(Append(codepoint, next), Width(value[lead]))
            IN  SubSeq(all, sub_position + 1, Len(all))) = Width(value[lead]) - sub_position
    BY <2>2, RestLength
  <2> QED BY <2>1, <2>3 DEF lead
<1> QED BY <1>2, <1>3, <1>4, <1>5

\* What remains to be shown of a step within a call that leaves nothing to be copied.
LEMMA TypedWithin ==
  ASSUME Typed, result' = result, result # "done", Located', sub_position' \in Nat,
         pending' = FALSE, room' \in Nat, phase' \in Phases \ {"idle"}, split' \in BOOLEAN,
         phase' = "content" => position' >= 1 /\ position' <= next', Kept', Partial'
  PROVE  Typed'
<1>1. phase' \in Phases /\ phase' # "idle" /\ room' \in Nat \cup {-1} /\ room' # -1
  OBVIOUS
<1>2. pending' \in BOOLEAN /\ ~pending'
  OBVIOUS
<1>3. result' \in {"none", "more", "done"} /\ result' # "done"
  BY DEF Typed
<1> QED BY <1>1, <1>2, <1>3 DEF Typed

LEMMA TypedSpecialByte ==
  ASSUME Typed, SpecialByte
  PROVE  Typed'
<1> DEFINE left == room - Len(Waiting)
           tmp == Tmp(next)
<1>1. /\ InLoop /\ phase = "content" /\ ~Stray(next)
      /\ ~Basic(value[next]) \/ codepoint # << >>
      /\ value' = value /\ pending' = FALSE /\ result' = result
      /\ sub_position \in Nat /\ split \in BOOLEAN /\ codepoint \in Seq(1 .. Len(value))
      /\ position >= 1 /\ position <= next /\ Kept /\ Partial /\ Located
  BY DEF SpecialByte, InLoop, Typed, Located
<1>2. left \in Nat /\ left > 0 /\ next \in 1 .. Len(value) /\ Len(value) \in Nat
      /\ value[next] \in Kinds
  BY <1>1, WaitingTyped, KindsOfValue DEF Typed, Located
<1>3. result # "done"
  BY <1>1 DEF Typed
<1> HIDE DEF left, tmp
<1>4. CASE /\ NeedsMore(next)
           /\ codepoint' = Append(codepoint, next)
           /\ position' = next
           /\ next' = next + 1
           /\ room' = left
           /\ split' = (split \/ (left = 1 /\ codepoint = << >>))
           /\ UNCHANGED << sub_position, phase >>
  <2>1. /\ codepoint' \in Seq(1 .. Len(value)) /\ Len(codepoint') = Len(codepoint) + 1
        /\ codepoint' # << >> /\ codepoint'[1] = LeadAt(next)
    BY <1>1, <1>2, <1>4 DEF LeadAt
  <2>2. Kept'
    <3>1. CASE codepoint = << >>
      <4>1. value[next] \in Leads /\ LeadAt(next) = next /\ Len(codepoint') = 1
        BY <1>4, <2>1, <3>1 DEF NeedsMore, LeadAt
      <4>2. Bytes(value[next]) > 1
        BY <1>2, <4>1, BytesOfKind
      <4> QED BY <1>1, <2>1, <4>1, <4>2 DEF Kept
    <3>2. CASE codepoint # << >>
      BY <1>1, <1>4, <2>1, <3>2 DEF NeedsMore, LeadAt, Kept
    <3> QED BY <3>1, <3>2
  <2>3. Partial'
    <3>1. CASE codepoint = << >>
      <4>1. value[next] \in Leads
        BY <1>4, <3>1 DEF NeedsMore
      <4>2. sub_position = 0
        BY <1>1, <3>1, <4>1 DEF Partial, Leads
      <4> QED BY <1>4, <4>2 DEF Partial
    <3>2. CASE codepoint # << >>
      BY <1>1, <1>4, <2>1, <3>2 DEF Partial, LeadAt
    <3> QED BY <3>1, <3>2
  <2>4. /\ phase' = "content" /\ "content" \in Phases \ {"idle"} /\ room' \in Nat
        /\ split' \in BOOLEAN /\ sub_position' \in Nat /\ position' >= 1
    BY <1>1, <1>2, <1>4 DEF Phases
  <2>5. Located' /\ position' <= next'
    BY <1>1, <1>2, <1>4, <2>1 DEF Located
  <2> QED BY <1>1, <1>3, <2>2, <2>3, <2>4, <2>5, TypedWithin
<1>5. CASE /\ ~NeedsMore(next) /\ left >= Len(tmp)
           /\ room' = left - Len(tmp)
           /\ position' = next + 1
           /\ next' = next + 1
           /\ sub_position' = 0
           /\ codepoint' = << >>
           /\ UNCHANGED << phase, split >>
  <2>1. Len(tmp) \in Nat
    BY <1>1, <1>5, WholeTyped DEF tmp
  <2>2. Kept' /\ Partial'
    BY <1>5 DEF Kept, Partial
  <2>3. Located' /\ room' \in Nat /\ position' >= 1 /\ position' <= next'
    <3>1. position' \in 0 .. Len(value) + 1 /\ codepoint' \in Seq(1 .. Len(value))
      BY <1>2, <1>5
    <3>2. position' >= 1 /\ position' <= next'
      BY <1>2, <1>5
    <3>3. room' \in Nat
      BY <1>2, <1>5, <2>1
    <3> QED BY <1>1, <1>5, <3>1, <3>2, <3>3 DEF Located
  <2>4. /\ phase' = "content" /\ "content" \in Phases \ {"idle"} /\ split' \in BOOLEAN
        /\ sub_position' \in Nat
    BY <1>1, <1>5 DEF Phases
  <2> QED BY <1>1, <1>3, <2>2, <2>3, <2>4, TypedWithin
<1>6. CASE /\ ~NeedsMore(next) /\ left < Len(tmp)
           /\ room' = 0
           /\ position' = next
           /\ sub_position' = sub_position + left
           /\ phase' = "full"
           /\ UNCHANGED << next, codepoint, split >>
  <2>1. /\ Len(tmp) = Width(value[LeadAt(next)]) - sub_position
        /\ Width(value[LeadAt(next)]) \in 2 .. 12
        /\ codepoint = << >> => value[next] \in {"short", "control"}
    BY <1>1, <1>6, WholeTyped DEF tmp
  <2>2. sub_position' \in Nat /\ sub_position' < Width(value[LeadAt(next)])
    <3> DEFINE w == Width(value[LeadAt(next)])
    <3>1. w \in Nat /\ left < w - sub_position
      BY <1>6, <2>1
    <3> HIDE DEF w
    <3>2. sub_position + left \in Nat /\ sub_position + left < w
      BY <1>1, <1>2, <3>1
    <3> QED BY <1>6, <3>2 DEF w
  <2>3. Partial'
    BY <1>1, <1>2, <1>6, <2>1, <2>2 DEF Partial, LeadAt
  <2>4. Kept' /\ Located'
    BY <1>1, <1>2, <1>6 DEF Kept, Located
  <2>5. /\ phase' = "full" /\ "full" \in Phases \ {"idle"} /\ split' \in BOOLEAN
        /\ room' \in Nat
    BY <1>1, <1>6 DEF Phases
  <2> QED BY <1>1, <1>3, <2>2, <2>3, <2>4, <2>5, TypedWithin
<1> QED BY <1>4, <1>5, <1>6 DEF SpecialByte, left, tmp

LEMMA TypedEndOfLoop ==
  ASSUME Typed, EndOfLoop
  PROVE  Typed'
<1>1. /\ phase = "content" /\ phase' \in {"quote", "full"}
      /\ room' = room - Len(Waiting) /\ room - Len(Waiting) \in Nat
      /\ position' = (IF pending THEN next ELSE position) /\ pending' = FALSE
      /\ UNCHANGED << value, sub_position, codepoint, next, result, split >>
  BY WaitingTyped DEF EndOfLoop
<1>2. Kept'
  BY <1>1 DEF Typed, Kept
<1>3. Partial'
  BY <1>1 DEF Typed, Partial
<1>4. Located'
  BY <1>1 DEF Typed, Located
<1>5. result # "done" /\ split' \in BOOLEAN /\ sub_position' \in Nat
  BY <1>1 DEF Typed
<1>6. phase' \in Phases \ {"idle"} /\ phase' # "content" /\ room' \in Nat
  BY <1>1 DEF Phases
<1> QED BY <1>1, <1>2, <1>3, <1>4, <1>5, <1>6, TypedWithin

LEMMA TypedBasicByte ==
  ASSUME Typed, BasicByte
  PROVE  Typed'
<1>1. /\ InLoop /\ phase = "content" /\ codepoint = << >> /\ value[next] = "basic"
      /\ next \in 1 .. Len(value) /\ next - position < room
      /\ pending' = TRUE /\ next' = next + 1
      /\ UNCHANGED << value, position, sub_position, codepoint, room, phase, result, split >>
  BY WaitingTyped DEF BasicByte, InLoop, Basic, locator
<1>2. sub_position = 0
  BY <1>1 DEF Typed, Partial
<1>3. Partial' /\ Kept'
  BY <1>1, <1>2 DEF Typed, Partial, Kept
<1>4. Located' /\ position <= next' /\ next' - position <= room
  <2>1. room \in Nat /\ position \in Nat /\ next \in Nat /\ Len(value) \in Nat /\ position <= next
    BY <1>1, KindsOfValue DEF Typed, Located
  <2> QED BY <1>1, <2>1 DEF Typed, Located
<1> QED BY <1>1, <1>3, <1>4 DEF Typed

LEMMA TypedOthers ==
  ASSUME Typed,
         \/ \E r \in Rooms : Call(r)
         \/ OpenQuote \/ EnterContent \/ StrayByte \/ CloseQuote \/ ReturnTrue \/ ReturnFalse
         \/ UNCHANGED vars
  PROVE  Typed'
<1>0. Len(value) \in Nat
  BY KindsOfValue DEF Typed, Located
<1>1. ASSUME NEW r \in Rooms, Call(r) PROVE Typed'
  <2>1. r \in Nat
    BY RoomsAssumption
  <2>2. Kept' /\ Partial' /\ Located'
    BY <1>1 DEF Typed, Call, locator, loop, Kept, Partial, Located
  <2> QED BY <1>1, <2>1, <2>2 DEF Typed, Call, locator, loop, Phases
<1>2. CASE OpenQuote
  <2>1. Kept' /\ Partial' /\ Located'
    BY <1>0, <1>2 DEF Typed, OpenQuote, loop, Kept, Partial, Located
  <2>2. room' \in Nat
    BY <1>0, <1>2 DEF Typed, OpenQuote, DelimiterFits
  <2> QED BY <1>2, <2>1, <2>2 DEF Typed, OpenQuote, loop, Phases
<1>3. CASE EnterContent
  <2>1. Kept' /\ Partial' /\ Located'
    BY <1>3 DEF Typed, EnterContent, locator, Kept, Partial, Located
  <2>2. position >= 1 /\ position <= position
    BY <1>0, <1>3 DEF Typed, Located, EnterContent
  <2> QED BY <1>3, <2>1, <2>2 DEF Typed, EnterContent, locator, Phases
<1>4. CASE StrayByte
  <2>1. Kept' /\ Partial' /\ Located'
    BY <1>4 DEF Typed, StrayByte, InLoop, locator, loop, Kept, Partial, Located
  <2> QED BY <1>4, <2>1 DEF Typed, StrayByte, InLoop, locator, loop, Phases
<1>5. CASE CloseQuote
  <2>1. Kept' /\ Partial' /\ Located'
    BY <1>0, <1>5 DEF Typed, CloseQuote, loop, Kept, Partial, Located
  <2>2. room' \in Nat
    BY <1>5 DEF Typed, CloseQuote, DelimiterFits
  <2> QED BY <1>5, <2>1, <2>2 DEF Typed, CloseQuote, loop, Phases
<1>6. CASE ReturnTrue \/ ReturnFalse
  <2>1. Kept' /\ Partial' /\ Located'
    BY <1>0, <1>6 DEF Typed, ReturnTrue, ReturnFalse, LeaveLoop, locator, Kept, Partial, Located
  <2> QED BY <1>0, <1>6, <2>1 DEF Typed, ReturnTrue, ReturnFalse, LeaveLoop, locator, Phases
<1>7. CASE UNCHANGED vars
  <2>1. Kept' /\ Partial' /\ Located'
    BY <1>7 DEF Typed, vars, locator, loop, Kept, Partial, Located
  <2> QED BY <1>7, <2>1 DEF Typed, vars, locator, loop
<1> QED BY <1>1, <1>2, <1>3, <1>4, <1>5, <1>6, <1>7

LEMMA StepTyped ==
  ASSUME Typed, [Next]_vars
  PROVE  Typed'
BY TypedBasicByte, TypedSpecialByte, TypedEndOfLoop, TypedOthers DEF Next, Advance, Finished

LEMMA InitTyped ==
  ASSUME Init
  PROVE  Typed
<1>1. Len(value) \in Nat /\ value \in Values
  BY KindsOfValue DEF Init
<1>2. Kept /\ Partial /\ Located
  BY <1>1 DEF Init, Kept, Partial, Located
<1> QED BY <1>1, <1>2 DEF Init, Typed, Phases

LEMMA FewerThanBytes ==
  ASSUME NEW k \in Nat, NEW b \in 1 .. 4, k < b
  PROVE  k \in 0 .. 3
OBVIOUS

-----------------------------------------------------------------------------
(* The inductive invariant, as long as no leading byte met the last byte   *)
(* of a buffer.                                                            *)

\* The bytes kept of a code point are its first ones, and some are missing.
Collected ==
  \/ codepoint = << >>
  \/ /\ codepoint \in Seq(Nat) /\ Len(codepoint) > 0
     /\ codepoint[1] \in 1 .. Len(value) /\ value[codepoint[1]] \in Leads
     /\ Len(codepoint) < Bytes(value[codepoint[1]])

\* n is the last byte of the code point that is kept.
Completes(n) ==
  /\ codepoint # << >>
  /\ n = codepoint[1] + Len(codepoint)
  /\ Len(codepoint) + 1 = Bytes(value[codepoint[1]])

\* Where the locator is left: before the string, where a character begins, or on the last
\* byte of one of which some was written.
Resting ==
  /\ phase \in {"quote", "complete"} => codepoint = << >>
  /\ \/ position = 0 /\ codepoint = << >>
     \/ Starts(position) /\ codepoint = << >>
     \/ Completes(position)

\* In the loop the bytes of a code point are read one after another with room left, or
\* its last one is read again.
Looping ==
  /\ room \in Int
  /\ \/ /\ codepoint = << >>
        /\ Starts(next) /\ Starts(position)
        /\ position <= next /\ (~pending => position = next)
     \/ /\ codepoint # << >> /\ ~pending
        /\ next = codepoint[1] + Len(codepoint)
        /\ \/ position = next - 1 /\ room >= 2
           \/ position = next /\ Completes(next)

Aligned ==
  /\ value \in Values
  /\ position \in Nat /\ next \in Nat /\ sub_position \in Nat /\ pending \in BOOLEAN
  /\ phase \in Phases \ {"aborted"}
  /\ Collected
  /\ phase # "idle" => room \in Int
  /\ IF phase = "content" THEN Looping ELSE Resting

-----------------------------------------------------------------------------
(* Lemmas.                                                                 *)

LEMMA WithinBytes ==
  ASSUME NEW c, NEW k, NEW b, NEW length \in Nat,
         c \in 1 .. length, k \in Nat, k > 0, b \in 1 .. 4, k < b, c + b <= length + 1
  PROVE  k \in 1 .. 3 /\ c + k \in 1 .. length
OBVIOUS

LEMMA CollectedBound ==
  ASSUME value \in Values, Collected, codepoint # << >>
  PROVE  /\ codepoint[1] \in 1 .. Len(value) /\ Len(codepoint) \in 1 .. 3
         /\ value[codepoint[1]] \in Kinds /\ value[codepoint[1]] # "cont"
         /\ Bytes(value[codepoint[1]]) \in 1 .. 4
         /\ codepoint[1] + Bytes(value[codepoint[1]]) <= Len(value) + 1
         /\ codepoint[1] + Len(codepoint) \in 1 .. Len(value)
<1>1. /\ codepoint \in Seq(Nat) /\ Len(codepoint) > 0
      /\ codepoint[1] \in 1 .. Len(value) /\ value[codepoint[1]] \in Leads
      /\ Len(codepoint) < Bytes(value[codepoint[1]])
  BY DEF Collected
<1>2. value[codepoint[1]] # "cont"
  BY <1>1 DEF Leads
<1>3. codepoint[1] + Bytes(value[codepoint[1]]) <= Len(value) + 1
  BY <1>1, <1>2, NextStarts
<1>4. value[codepoint[1]] \in Kinds /\ Len(value) \in Nat
  BY <1>1, KindsOfValue
<1>5. Bytes(value[codepoint[1]]) \in 1 .. 4
  BY <1>4, BytesOfKind
<1>6. Len(codepoint) \in Nat
  BY <1>1
<1>7. Len(codepoint) \in 1 .. 3 /\ codepoint[1] + Len(codepoint) \in 1 .. Len(value)
  BY <1>1, <1>3, <1>4, <1>5, <1>6, WithinBytes
<1> QED BY <1>1, <1>2, <1>3, <1>4, <1>5, <1>7

\* The last byte of a code point is in the string, and a character begins after it.
LEMMA AfterCompletes ==
  ASSUME value \in Values, Collected, NEW n, Completes(n)
  PROVE  n \in 1 .. Len(value) /\ Starts(n + 1)
<1>1. codepoint # << >>
  BY DEF Completes
<1>2. /\ codepoint[1] \in 1 .. Len(value) /\ value[codepoint[1]] # "cont"
      /\ codepoint[1] + Len(codepoint) \in 1 .. Len(value) /\ Len(codepoint) \in 1 .. 3
      /\ Bytes(value[codepoint[1]]) \in 1 .. 4
  BY <1>1, CollectedBound
<1>3. Starts(codepoint[1] + Bytes(value[codepoint[1]]))
  BY <1>2, NextStarts
<1>4. n + 1 = codepoint[1] + Bytes(value[codepoint[1]])
  BY <1>2, KindsOfValue DEF Completes
<1> QED BY <1>2, <1>3, <1>4 DEF Completes

\* What waits to be copied is what the loop has passed, outside of a code point.
LEMMA WaitingLength ==
  ASSUME Aligned, phase = "content"
  PROVE  /\ Len(Waiting) \in Nat
         /\ codepoint = << >> => Len(Waiting) = next - position
         /\ codepoint # << >> => Len(Waiting) = 0
<1>1. Looping /\ position \in Nat /\ next \in Nat /\ pending \in BOOLEAN
  BY DEF Aligned
<1>2. CASE pending
  <2>1. codepoint = << >> /\ next - position \in Nat
    BY <1>1, <1>2 DEF Looping
  <2> QED BY <1>2, <2>1 DEF Waiting, Copied
<1>3. CASE ~pending
  <2>1. Waiting = << >> /\ Len(Waiting) = 0
    BY <1>3 DEF Waiting
  <2>2. codepoint = << >> => next - position = 0
    BY <1>1, <1>3 DEF Looping
  <2> QED BY <2>1, <2>2
<1> QED BY <1>1, <1>2, <1>3

\* The room is known while the loop runs, and some is left after what waits is copied.
LEMMA RoomLeft ==
  ASSUME Aligned, InLoop
  PROVE  /\ room \in Int /\ room - Len(Waiting) \in Nat /\ room - Len(Waiting) > 0
         /\ next \in 1 .. Len(value) /\ value[next] \in Kinds
<1>1. /\ Looping /\ phase = "content" /\ next \in Nat /\ position \in Nat /\ room \in Int
      /\ next - position < room /\ next <= Len(value) /\ Len(value) \in Nat /\ Collected
  BY KindsOfValue DEF Aligned, InLoop, Looping
<1>2. CASE codepoint = << >>
  <2>1. Len(Waiting) = next - position /\ next > 0
    BY <1>1, <1>2, WaitingLength DEF Looping, Starts
  <2> QED BY <1>1, <2>1, KindsOfValue DEF Aligned
<1>3. CASE codepoint # << >>
  <2>1. Len(Waiting) = 0
    BY <1>1, <1>3, WaitingLength
  <2>2. next \in 1 .. Len(value)
    BY <1>1, <1>3, CollectedBound DEF Aligned, Looping
  <2>3. room > 0
    BY <1>1, <1>3 DEF Looping
  <2> QED BY <1>1, <2>1, <2>2, <2>3, KindsOfValue DEF Aligned
<1> QED BY <1>2, <1>3

-----------------------------------------------------------------------------
(* The actions outside of the loop.                                        *)

LEMMA StepCall ==
  ASSUME Aligned, NEW r \in Rooms, Call(r)
  PROVE  Aligned'
<1>1. /\ r \in Nat /\ room' = r /\ phase = "idle" /\ phase' = "called"
      /\ UNCHANGED << value, position, sub_position, codepoint, next, pending >>
  BY RoomsAssumption DEF Call, locator, loop
<1>2. Resting'
  BY <1>1 DEF Aligned, Resting, Starts, Completes
<1> QED BY <1>1, <1>2 DEF Aligned, Collected, Phases

LEMMA StepOpenQuote ==
  ASSUME Aligned, OpenQuote
  PROVE  Aligned'
<1>1. /\ phase = "called" /\ position = 0 /\ room \in Int /\ Resting
      /\ UNCHANGED << value, sub_position, codepoint, next, pending >>
  BY DEF Aligned, OpenQuote, loop
<1>2. codepoint = << >>
  <2>1. ~Starts(position)
    BY <1>1 DEF Starts
  <2>2. ~Completes(position)
    BY <1>1, AfterCompletes DEF Aligned
  <2> QED BY <1>1, <2>1, <2>2 DEF Resting
<1>3. CASE DelimiterFits
  <2>1. position' = 1 /\ phase' = "called" /\ room' = room - 1
    BY <1>1, <1>3 DEF OpenQuote
  <2>2. Starts(1)'
    BY <1>1, FirstStarts DEF Aligned, Starts
  <2>3. Resting'
    BY <1>1, <1>2, <2>1, <2>2 DEF Resting, Starts
  <2> QED BY <1>1, <2>1, <2>3 DEF Aligned, Collected
<1>4. CASE ~DelimiterFits
  <2>1. position' = 0 /\ phase' = "full" /\ room' = room
    BY <1>1, <1>4 DEF OpenQuote
  <2>2. Resting'
    BY <1>1, <1>2, <2>1 DEF Resting
  <2> QED BY <1>1, <2>1, <2>2 DEF Aligned, Collected, Phases
<1> QED BY <1>3, <1>4

LEMMA StepEnterContent ==
  ASSUME Aligned, EnterContent
  PROVE  Aligned'
<1>1. /\ phase = "called" /\ position \in Nat /\ position > 0 /\ room \in Int /\ Resting
      /\ next' = position /\ pending' = FALSE
      /\ phase' = (IF position = Len(value) + 1 THEN "quote" ELSE "content")
      /\ UNCHANGED << value, position, sub_position, codepoint, room >>
  BY DEF Aligned, EnterContent, locator
<1>2. CASE codepoint = << >>
  <2>1. Starts(position)
    BY <1>1, <1>2 DEF Resting, Completes
  <2>2. phase' = "content" => Looping'
    BY <1>1, <1>2, <2>1 DEF Looping, Starts
  <2>3. phase' = "quote" => Resting'
    BY <1>1, <1>2, <2>1 DEF Resting, Starts
  <2> QED BY <1>1, <1>2, <2>2, <2>3 DEF Aligned, Collected, Phases
<1>3. CASE codepoint # << >>
  <2>1. Completes(position)
    BY <1>1, <1>3 DEF Resting
  <2>2. position \in 1 .. Len(value) /\ Len(value) \in Nat
    BY <2>1, AfterCompletes, KindsOfValue DEF Aligned
  <2>3. phase' = "content"
    BY <1>1, <2>2
  <2>4. Looping'
    BY <1>1, <1>3, <2>1 DEF Looping, Completes
  <2> QED BY <1>1, <2>3, <2>4 DEF Aligned, Collected, Phases
<1> QED BY <1>2, <1>3

LEMMA StepCloseQuote ==
  ASSUME Aligned, CloseQuote
  PROVE  Aligned'
<1>1. /\ phase = "quote" /\ phase' = "complete" /\ room \in Int /\ room' = room - 1
      /\ position' = 0 /\ sub_position' = 0 /\ codepoint = << >>
      /\ UNCHANGED << value, codepoint, next, pending >>
  BY DEF Aligned, CloseQuote, loop, Resting
<1>2. Resting'
  BY <1>1 DEF Resting
<1> QED BY <1>1, <1>2 DEF Aligned, Collected, Phases

LEMMA StepReturn ==
  ASSUME Aligned, ReturnTrue \/ ReturnFalse
  PROVE  Aligned'
<1>1. /\ phase \in {"complete", "full", "quote"} /\ phase' = "idle"
      /\ next' = 0 /\ pending' = FALSE
      /\ UNCHANGED << value, position, sub_position, codepoint >>
  BY DEF ReturnTrue, ReturnFalse, LeaveLoop, locator
<1>2. Resting'
  BY <1>1 DEF Aligned, Resting, Starts, Completes
<1> QED BY <1>1, <1>2 DEF Aligned, Collected, Phases

-----------------------------------------------------------------------------
(* The loop.                                                               *)

LEMMA StepBasicByte ==
  ASSUME Aligned, BasicByte
  PROVE  Aligned'
<1>1. /\ InLoop /\ phase = "content" /\ Looping /\ codepoint = << >> /\ value[next] = "basic"
      /\ pending' = TRUE /\ next' = next + 1 /\ next \in Nat
      /\ UNCHANGED << value, position, sub_position, codepoint, room, phase >>
  BY DEF Aligned, BasicByte, InLoop, Basic, locator
<1>2. next \in 1 .. Len(value)
  BY <1>1, RoomLeft
<1>3. Bytes(value[next]) = 1
  BY <1>1 DEF Bytes
<1>4. Starts(next + 1)
  BY <1>1, <1>2, <1>3, NextStarts DEF Aligned
<1>5. Looping'
  <2>1. Starts(next)' /\ Starts(position)'
    BY <1>1, <1>4 DEF Looping, Starts
  <2>2. position' \in Nat /\ position' <= next' /\ room' \in Int /\ codepoint' = << >>
    BY <1>1 DEF Aligned, Looping
  <2> QED BY <1>1, <2>1, <2>2 DEF Looping, Starts
<1> QED BY <1>1, <1>5 DEF Aligned, Collected

\* No byte comes that begins no character.
LEMMA NoStray ==
  ASSUME Aligned, InLoop
  PROVE  ~Stray(next)
<1>1. Looping /\ next <= Len(value)
  BY DEF Aligned, InLoop
<1> QED BY <1>1 DEF Looping, Starts, Stray

LEMMA StepEndOfLoop ==
  ASSUME Aligned, EndOfLoop
  PROVE  Aligned'
<1>1. /\ phase = "content" /\ ~InLoop /\ Looping
      /\ position \in Nat /\ next \in Nat /\ pending \in BOOLEAN /\ room \in Int
      /\ position' = (IF pending THEN next ELSE position)
      /\ room' = room - Len(Waiting)
      /\ pending' = FALSE
      /\ phase' = (IF next - position < room THEN "quote" ELSE "full")
      /\ UNCHANGED << value, sub_position, codepoint, next >>
  BY DEF Aligned, EndOfLoop, Looping
<1>2. room' \in Int
  BY <1>1, WaitingLength
<1>3. Resting'
  <2>1. CASE codepoint = << >>
    <3>1. position' = next /\ Starts(next)
      BY <1>1, <2>1 DEF Looping
    <3> QED BY <1>1, <2>1, <3>1 DEF Resting, Starts
  <2>2. CASE codepoint # << >>
    <3>1. next \in 1 .. Len(value) /\ ~pending
      BY <1>1, <2>2, CollectedBound DEF Aligned, Looping
    <3>2. ~(next - position < room)
      BY <1>1, <3>1, KindsOfValue DEF InLoop, Aligned
    <3>3. position = next /\ Completes(next)
      BY <1>1, <2>2, <3>2 DEF Looping
    <3> QED BY <1>1, <3>1, <3>2, <3>3 DEF Resting, Completes
  <2> QED BY <2>1, <2>2
<1> QED BY <1>1, <1>2, <1>3 DEF Aligned, Collected, Phases

\* What char_to_tmp has computed when no byte is missing, at the last byte of a character.
LEMMA WhenWhole ==
  ASSUME Typed, Aligned, InLoop, ~NeedsMore(next), ~Basic(value[next]) \/ codepoint # << >>
  PROVE  /\ Len(Tmp(next)) \in Int
         /\ Starts(next + 1)
         /\ codepoint # << >> => Completes(next)
         /\ codepoint = << >> => Starts(next)
<1>1. /\ Looping /\ value \in Values /\ Collected /\ sub_position \in Nat
      /\ next \in 1 .. Len(value) /\ value[next] \in Kinds /\ Len(value) \in Nat
  BY RoomLeft, KindsOfValue DEF Aligned, InLoop
<1>0. Len(Tmp(next)) \in Int
  <2>1. /\ Width(value[LeadAt(next)]) \in 2 .. 12
        /\ Len(Tmp(next)) = Width(value[LeadAt(next)]) - sub_position
    BY NoStray, WholeTyped
  <2> QED BY <1>1, <2>1
<1>2. CASE codepoint = << >>
  <2>1. Starts(next) /\ value[next] # "cont" /\ value[next] \notin Leads /\ value[next] # "basic"
    BY <1>1, <1>2 DEF Looping, Starts, NeedsMore, Basic
  <2>2. value[next] \in {"short", "control"}
    BY <1>1, <2>1 DEF Kinds, Leads
  <2>3. Bytes(value[next]) = 1
    BY <2>2 DEF Bytes
  <2>4. Starts(next + 1)
    BY <1>1, <2>1, <2>3, NextStarts
  <2> QED BY <1>0, <1>2, <2>1, <2>4
<1>3. CASE codepoint # << >>
  <2>1. /\ Len(codepoint) \in 1 .. 3 /\ Bytes(value[codepoint[1]]) \in 1 .. 4
        /\ value[codepoint[1]] \in Leads /\ Len(codepoint) < Bytes(value[codepoint[1]])
    BY <1>1, <1>3, CollectedBound DEF Collected
  <2>2. ~(Len(codepoint) + 1 < Bytes(value[codepoint[1]]))
    BY <1>3 DEF NeedsMore
  <2>3. Completes(next)
    BY <1>1, <1>3, <2>1, <2>2 DEF Looping, Completes
  <2>4. Starts(next + 1)
    BY <1>1, <2>3, AfterCompletes
  <2> QED BY <1>0, <1>3, <2>3, <2>4
<1> QED BY <1>2, <1>3

\* What remains to be shown of a step that stays in the loop.
LEMMA StaysInLoop ==
  ASSUME value' \in Values, position' \in Nat, next' \in Nat, sub_position' \in Nat,
         pending' = FALSE, phase' = "content", Collected', Looping'
  PROVE  Aligned'
BY DEF Aligned, Looping, Phases

LEMMA StepSpecialByte ==
  ASSUME Typed, Aligned, split \in BOOLEAN, SpecialByte, ~split'
  PROVE  Aligned'
<1> DEFINE left == room - Len(Waiting)
           tmp == Tmp(next)
<1>1. /\ InLoop /\ Looping /\ phase = "content"
      /\ ~Basic(value[next]) \/ codepoint # << >>
      /\ value' = value /\ pending' = FALSE
      /\ sub_position \in Nat /\ next \in Nat /\ Collected /\ value \in Values
  BY DEF Aligned, SpecialByte, InLoop
<1>2. /\ left \in Nat /\ left > 0
      /\ next \in 1 .. Len(value) /\ value[next] \in Kinds /\ Len(value) \in Nat
  BY <1>1, RoomLeft, KindsOfValue
<1>3. CASE /\ NeedsMore(next)
           /\ codepoint' = Append(codepoint, next)
           /\ position' = next
           /\ next' = next + 1
           /\ room' = left
           /\ split' = (split \/ (left = 1 /\ codepoint = << >>))
           /\ UNCHANGED << sub_position, phase >>
  <2>1. ~(left = 1 /\ codepoint = << >>)
    BY <1>3
  <2>2. CASE codepoint = << >>
    <3>1. value[next] \in Leads /\ left >= 2
      BY <1>2, <1>3, <2>1, <2>2 DEF NeedsMore
    <3>2. codepoint' = << next >> /\ Len(codepoint') = 1 /\ codepoint'[1] = next
      BY <1>3, <2>2
    <3>3. Bytes(value[next]) > 1
      BY <1>2, <3>1, BytesOfKind
    <3>4. Collected'
      BY <1>1, <1>2, <3>1, <3>2, <3>3 DEF Collected
    <3>5. codepoint' # << >>
      BY <3>2
    <3>6. Looping'
      BY <1>1, <1>2, <1>3, <3>1, <3>2, <3>5 DEF Looping
    <3>7. position' \in Nat /\ next' \in Nat /\ sub_position' \in Nat /\ phase' = "content"
      BY <1>1, <1>3
    <3> QED BY <1>1, <3>4, <3>6, <3>7, StaysInLoop
  <2>3. CASE codepoint # << >>
    <3>1. /\ codepoint \in Seq(Nat) /\ Len(codepoint) \in 1 .. 3
          /\ codepoint[1] \in 1 .. Len(value) /\ value[codepoint[1]] \in Leads
          /\ Bytes(value[codepoint[1]]) \in 1 .. 4
      BY <1>1, <2>3, CollectedBound DEF Collected
    <3>2. Len(codepoint) + 1 < Bytes(value[codepoint[1]])
      BY <1>3, <2>3 DEF NeedsMore
    <3>3. next = codepoint[1] + Len(codepoint) /\ position = next - 1 /\ room >= 2
      BY <1>1, <2>3, <3>1, <3>2 DEF Looping, Completes
    <3>4. left >= 2
      BY <1>1, <2>3, <3>3, WaitingLength DEF Looping
    <3>5. /\ codepoint' \in Seq(Nat) /\ Len(codepoint') = Len(codepoint) + 1
          /\ codepoint'[1] = codepoint[1] /\ codepoint' # << >>
      BY <1>1, <1>3, <3>1
    <3>6. Collected'
      BY <1>1, <3>1, <3>2, <3>5 DEF Collected
    <3>7. next' = codepoint'[1] + Len(codepoint') /\ position' = next' - 1
      <4>1. codepoint[1] \in Nat /\ Len(codepoint) \in Nat
        BY <3>1
      <4>2. next' = next + 1 /\ position' = next
        BY <1>3
      <4>3. position' = next' - 1
        BY <1>1, <4>2
      <4>4. next' = codepoint[1] + (Len(codepoint) + 1)
        BY <3>3, <4>1, <4>2
      <4>5. codepoint'[1] = codepoint[1] /\ Len(codepoint') = Len(codepoint) + 1
        BY <3>5
      <4> QED BY ONLY <4>3, <4>4, <4>5
    <3>8. Looping'
      BY <1>1, <1>2, <1>3, <3>4, <3>5, <3>7 DEF Looping
    <3>9. position' \in Nat /\ next' \in Nat /\ sub_position' \in Nat /\ phase' = "content"
      BY <1>1, <1>3
    <3> QED BY <1>1, <3>6, <3>8, <3>9, StaysInLoop
  <2> QED BY <2>2, <2>3
<1>4. CASE /\ ~NeedsMore(next)
           /\ room' = left - Len(tmp)
           /\ position' = next + 1
           /\ next' = next + 1
           /\ sub_position' = 0
           /\ codepoint' = << >>
           /\ UNCHANGED << phase, split >>
  <2>1. Len(tmp) \in Int /\ Starts(next + 1)
    BY <1>1, <1>4, WhenWhole
  <2>2. room' \in Int
    <3> HIDE DEF left, tmp
    <3> QED BY <1>2, <1>4, <2>1
  <2>3. Starts(next)' /\ Starts(position)'
    BY <1>1, <1>4, <2>1 DEF Starts
  <2>4. Looping'
    BY <1>1, <1>4, <2>2, <2>3 DEF Looping
  <2>5. position' \in Nat /\ next' \in Nat /\ sub_position' \in Nat /\ phase' = "content"
    BY <1>1, <1>4
  <2>6. Collected'
    BY <1>4 DEF Collected
  <2> QED BY <1>1, <2>4, <2>5, <2>6, StaysInLoop
<1>5. CASE /\ ~NeedsMore(next)
           /\ room' = 0
           /\ position' = next
           /\ sub_position' = sub_position + left
           /\ phase' = "full"
           /\ UNCHANGED << next, codepoint, split >>
  <2>1. /\ codepoint # << >> => Completes(next)
        /\ codepoint = << >> => Starts(next)
    BY <1>1, <1>5, WhenWhole
  <2>2. Resting'
    BY <1>1, <1>5, <2>1 DEF Resting, Starts, Completes
  <2>3. sub_position' \in Nat
    <3> HIDE DEF left
    <3> QED BY <1>1, <1>2, <1>5
  <2>4. position' \in Nat /\ next' \in Nat /\ room' \in Int /\ phase' = "full"
    BY <1>1, <1>5
  <2>5. Collected'
    BY <1>1, <1>5 DEF Collected
  <2> QED BY <1>1, <2>2, <2>3, <2>4, <2>5 DEF Aligned, Phases
<1> QED BY <1>3, <1>4, <1>5 DEF SpecialByte

-----------------------------------------------------------------------------
(* The text of a string.                                                   *)

\* A set that holds a number and with each number up to a bound the next one holds all
\* of them up to the bound.
LEMMA UpTo ==
  ASSUME NEW a \in Nat, NEW b \in Nat, NEW S, a \in S,
         \A i \in a .. b - 1 : i \in S => i + 1 \in S
  PROVE  \A i \in a .. b : i \in S
<1> DEFINE Less == {p \in Nat \X Nat : p[1] < p[2]}
           T == {k \in a .. b : k \notin S}
<1>1. SUFFICES ASSUME T # {} PROVE FALSE
  OBVIOUS
<1>2. T \subseteq Nat /\ IsWellFoundedOn(Less, Nat)
  BY NatLessThanWellFounded DEF OpToRel
<1>3. PICK m \in T : \A k \in T : << k, m >> \notin Less
  <2> HIDE DEF Less, T
  <2> QED BY <1>1, <1>2, WFMin, Zenon
<1>4. m # a /\ m - 1 \in a .. b - 1 /\ << m - 1, m >> \in Less
  OBVIOUS
<1>5. m - 1 \in S /\ (m - 1) + 1 = m
  BY <1>3, <1>4
<1> QED BY <1>4, <1>5

\* What the definition of TextUpTo says of the text up to the n-th byte.
IsTextUpTo(v, n, f) ==
  /\ f = [k \in 0 .. n |-> f[k]]
  /\ f[0] = OpeningQuote
  /\ \A k \in 1 .. n : f[k] = f[k - 1] \o Character(v, k)

\* There is such a function, so that TextUpTo is one.
LEMMA TextDefined ==
  ASSUME NEW v, Len(v) \in Nat
  PROVE  IsTextUpTo(v, Len(v), TextUpTo(v))
<1> DEFINE S == {n \in 0 .. Len(v) : \E f : IsTextUpTo(v, n, f)}
<1>1. 0 \in S
  <2> DEFINE f == [k \in 0 .. 0 |-> OpeningQuote]
  <2>1. IsTextUpTo(v, 0, f)
    BY DEF IsTextUpTo
  <2> QED BY <2>1
<1>2. ASSUME NEW n \in 0 .. Len(v) - 1, n \in S PROVE n + 1 \in S
  <2>1. PICK f : IsTextUpTo(v, n, f)
    BY <1>2
  <2> DEFINE g == [k \in 0 .. n + 1 |-> IF k <= n THEN f[k] ELSE f[n] \o Character(v, n + 1)]
  <2>2. g[0] = OpeningQuote
    BY <2>1 DEF IsTextUpTo
  <2>3. ASSUME NEW k \in 1 .. n + 1 PROVE g[k] = g[k - 1] \o Character(v, k)
    <3>1. CASE k <= n
      <4>0. k \in 1 .. n
        BY <3>1
      <4>1. f[k] = f[k - 1] \o Character(v, k)
        BY <2>1, <4>0 DEF IsTextUpTo
      <4>2. g[k] = f[k] /\ g[k - 1] = f[k - 1]
        BY <3>1
      <4> QED BY <4>1, <4>2
    <3>2. CASE k = n + 1
      BY <3>2
    <3> QED BY <3>1, <3>2
  <2>4. g = [k \in 0 .. n + 1 |-> g[k]]
    OBVIOUS
  <2> HIDE DEF g
  <2>5. IsTextUpTo(v, n + 1, g)
    BY <2>2, <2>3, <2>4 DEF IsTextUpTo
  <2> QED BY <2>5
<1>3. \A n \in 0 .. Len(v) : n \in S
  <2> HIDE DEF S
  <2> QED BY <1>1, <1>2, UpTo
<1>4. PICK f : IsTextUpTo(v, Len(v), f)
  BY <1>3
<1>5. f = [n \in 0 .. Len(v) |-> IF n = 0 THEN OpeningQuote ELSE f[n - 1] \o Character(v, n)]
  <2>1. /\ f = [n \in 0 .. Len(v) |-> f[n]]
        /\ f[0] = OpeningQuote
        /\ \A n \in 1 .. Len(v) : f[n] = f[n - 1] \o Character(v, n)
    BY <1>4 DEF IsTextUpTo
  <2>2. \A n \in 0 .. Len(v) :
          f[n] = IF n = 0 THEN OpeningQuote ELSE f[n - 1] \o Character(v, n)
    <3>1. \A n \in 0 .. Len(v) : n = 0 \/ n \in 1 .. Len(v)
      OBVIOUS
    <3>2. \A n \in 1 .. Len(v) : n # 0
      OBVIOUS
    <3> QED BY <2>1, <3>1, <3>2, Zenon
  <2> QED BY <2>1, <2>2, Zenon
<1> DEFINE Text == TextUpTo(v)
<1>6. Text = [n \in 0 .. Len(v) |-> IF n = 0 THEN OpeningQuote ELSE Text[n - 1] \o Character(v, n)]
  BY <1>5 DEF TextUpTo
<1> HIDE DEF Text
<1>7. \A n \in 0 .. Len(v) :
        Text[n] = IF n = 0 THEN OpeningQuote ELSE Text[n - 1] \o Character(v, n)
  BY <1>6, Zenon
<1>8. Text = [n \in 0 .. Len(v) |-> Text[n]]
  BY <1>6, <1>7
<1>9. IsTextUpTo(v, Len(v), Text)
  BY <1>7, <1>8 DEF IsTextUpTo
<1> QED BY <1>9 DEF Text

\* The bytes that are written.
Octets == [of : Seq(Nat), part : Nat]

LEMMA WrittenSeq ==
  ASSUME NEW of \in Seq(Nat), NEW width \in Nat
  PROVE  Written(of, width) \in Seq(Octets) /\ Len(Written(of, width)) = width
BY DEF Written, Octets

LEMMA CharacterSeq ==
  ASSUME NEW v \in Values, NEW n \in 1 .. Len(v)
  PROVE  /\ Character(v, n) \in Seq(Octets)
         /\ v[n] = "cont" => Character(v, n) = << >>
         /\ v[n] = "basic" => Character(v, n) = Copied(n, n + 1)
         /\ v[n] \in Leads \cup {"short", "control"} =>
              /\ Character(v, n) = Written([k \in 1 .. Bytes(v[n]) |-> n + k - 1], Width(v[n]))
              /\ Len(Character(v, n)) = Width(v[n])
<1>1. v \in Seq(Kinds) /\ v[n] \in Kinds /\ n \in Nat
  BY ValuesAssumption
<1>2. CASE v[n] = "cont"
  <2>1. Character(v, n) = << >>
    BY <1>2 DEF Character, Basic
  <2> QED BY <1>2, <2>1 DEF Leads
<1>3. CASE v[n] = "basic"
  <2>1. Character(v, n) = Copied(n, n + 1)
    BY <1>3 DEF Character, Basic
  <2>2. Copied(n, n + 1) \in Seq(Octets)
    BY <1>1 DEF Copied, Octets
  <2> QED BY <1>3, <2>1, <2>2 DEF Leads
<1>4. CASE v[n] \in Leads \cup {"short", "control"}
  <2>1. Character(v, n) = Written([k \in 1 .. Bytes(v[n]) |-> n + k - 1], Width(v[n]))
    BY <1>4 DEF Character, Basic, Leads
  <2>2. Bytes(v[n]) \in Nat /\ Width(v[n]) \in Nat
    BY <1>1, <1>4, BytesOfKind, WidthOfKind
  <2>3. [k \in 1 .. Bytes(v[n]) |-> n + k - 1] \in Seq(Nat)
    BY <1>1, <2>2
  <2>4. Character(v, n) \in Seq(Octets) /\ Len(Character(v, n)) = Width(v[n])
    BY <2>1, <2>2, <2>3, WrittenSeq
  <2> QED BY <1>4, <2>1, <2>4 DEF Leads
<1> QED BY <1>1, <1>2, <1>3, <1>4 DEF Kinds, Leads

\* The text up to a byte and the text up to the next one.
LEMMA TextGrows ==
  ASSUME NEW v \in Values, NEW n \in 1 .. Len(v)
  PROVE  /\ TextUpTo(v)[n - 1] \in Seq(Octets) /\ TextUpTo(v)[n] \in Seq(Octets)
         /\ TextUpTo(v)[0] = OpeningQuote
         /\ TextUpTo(v)[n] = TextUpTo(v)[n - 1] \o Character(v, n)
<1> DEFINE Text == TextUpTo(v)
<1>1. Len(v) \in Nat
  BY ValuesAssumption
<1>2. IsTextUpTo(v, Len(v), Text)
  BY <1>1, TextDefined
<1> HIDE DEF Text
<1>3. /\ Text[0] = OpeningQuote
      /\ \A k \in 1 .. Len(v) : Text[k] = Text[k - 1] \o Character(v, k)
  BY <1>1, <1>2 DEF IsTextUpTo
<1> DEFINE S == {k \in 0 .. Len(v) : Text[k] \in Seq(Octets)}
<1>4. 0 \in S
  <2>1. << 0 >> \in Seq(Nat)
    OBVIOUS
  <2>2. OpeningQuote \in Seq(Octets)
    BY <2>1, WrittenSeq DEF OpeningQuote
  <2> QED BY <1>1, <1>3, <2>2
<1>5. ASSUME NEW k \in 0 .. Len(v) - 1, k \in S PROVE k + 1 \in S
  <2>1. k + 1 \in 1 .. Len(v) /\ (k + 1) - 1 = k
    BY <1>1
  <2>2. Text[k + 1] = Text[k] \o Character(v, k + 1)
    BY <1>3, <2>1
  <2>3. Character(v, k + 1) \in Seq(Octets)
    BY <2>1, CharacterSeq
  <2>4. Text[k + 1] \in Seq(Octets)
    BY <1>5, <2>2, <2>3, ConcatProperties
  <2> QED BY <1>1, <2>1, <2>4
<1>6. \A k \in 0 .. Len(v) : k \in S
  <2> HIDE DEF S
  <2> QED BY <1>1, <1>4, <1>5, UpTo
<1>7. n \in S /\ n - 1 \in S
  <2> HIDE DEF S
  <2> QED BY <1>1, <1>6
<1> QED BY <1>3, <1>7 DEF Text

LEMMA TextSeq ==
  ASSUME NEW v \in Values, NEW n \in 0 .. Len(v)
  PROVE  TextUpTo(v)[n] \in Seq(Octets) /\ TextUpTo(v)[0] = OpeningQuote
<1>1. Len(v) \in Nat
  BY ValuesAssumption
<1>2. CASE n > 0
  <2>1. n \in 1 .. Len(v)
    BY <1>1, <1>2
  <2> QED BY <2>1, TextGrows
<1>3. CASE n = 0
  <2>1. IsTextUpTo(v, Len(v), TextUpTo(v))
    BY <1>1, TextDefined
  <2>2. TextUpTo(v)[0] = OpeningQuote
    BY <1>1, <2>1 DEF IsTextUpTo
  <2>3. << 0 >> \in Seq(Nat)
    OBVIOUS
  <2>4. OpeningQuote \in Seq(Octets)
    BY <2>3, WrittenSeq DEF OpeningQuote
  <2> QED BY <1>3, <2>2, <2>4
<1> QED BY <1>1, <1>2, <1>3

\* s is the beginning of t.
Begins(s, t) == Len(s) <= Len(t) /\ \A i \in 1 .. Len(s) : s[i] = t[i]

LEMMA BeginsConcat ==
  ASSUME NEW s \in Seq(Octets), NEW t \in Seq(Octets)
  PROVE  s \o t \in Seq(Octets) /\ Len(s \o t) = Len(s) + Len(t) /\ Begins(s, s \o t)
BY ConcatProperties DEF Begins

LEMMA BeginsTransitive ==
  ASSUME NEW s \in Seq(Octets), NEW t \in Seq(Octets), NEW u \in Seq(Octets),
         Begins(s, t), Begins(t, u)
  PROVE  Begins(s, u)
BY DEF Begins

\* The text up to a byte begins the text up to a later one.
LEMMA TextBegins ==
  ASSUME NEW v \in Values, NEW n \in 0 .. Len(v), NEW m \in 0 .. n
  PROVE  Begins(TextUpTo(v)[m], TextUpTo(v)[n])
<1> DEFINE S == {k \in m .. Len(v) : Begins(TextUpTo(v)[m], TextUpTo(v)[k])}
<1>1. Len(v) \in Nat /\ m \in 0 .. Len(v) /\ n \in m .. Len(v)
  BY ValuesAssumption
<1>2. m \in S
  <2>1. TextUpTo(v)[m] \in Seq(Octets)
    BY <1>1, TextSeq
  <2>2. Begins(TextUpTo(v)[m], TextUpTo(v)[m])
    BY <2>1 DEF Begins
  <2> QED BY <1>1, <2>2
<1>3. ASSUME NEW k \in m .. Len(v) - 1, k \in S PROVE k + 1 \in S
  <2>1. k + 1 \in 1 .. Len(v) /\ (k + 1) - 1 = k /\ k + 1 \in m .. Len(v)
    BY <1>1
  <2>2. /\ TextUpTo(v)[k] \in Seq(Octets) /\ TextUpTo(v)[m] \in Seq(Octets)
        /\ TextUpTo(v)[k + 1] \in Seq(Octets)
        /\ TextUpTo(v)[k + 1] = TextUpTo(v)[k] \o Character(v, k + 1)
        /\ Character(v, k + 1) \in Seq(Octets)
    BY <1>1, <2>1, TextGrows, TextSeq, CharacterSeq
  <2>3. Begins(TextUpTo(v)[k], TextUpTo(v)[k + 1])
    BY <2>2, BeginsConcat
  <2>4. Begins(TextUpTo(v)[m], TextUpTo(v)[k + 1])
    BY <1>3, <2>2, <2>3, BeginsTransitive
  <2> QED BY <2>1, <2>4
<1>4. \A k \in m .. Len(v) : k \in S
  <2>1. m \in Nat
    BY <1>1
  <2> HIDE DEF S
  <2> QED BY <1>1, <1>2, <1>3, <2>1, UpTo
<1> QED BY <1>1, <1>4

\* The bytes of a character after its first one add nothing to the text.
LEMMA TextOfCharacter ==
  ASSUME value \in Values, NEW n \in 1 .. Len(value), value[n] # "cont"
  PROVE  TextUpTo(value)[n + Bytes(value[n]) - 1] = TextUpTo(value)[n]
<1> DEFINE last == n + Continuations(value[n])
           S == {k \in n .. last : TextUpTo(value)[k] = TextUpTo(value)[n]}
<1>1. /\ Len(value) \in Nat /\ IsUTF8(value) /\ value[n] \in Kinds
      /\ Bytes(value[n]) = Continuations(value[n]) + 1 /\ Continuations(value[n]) \in 0 .. 3
  BY KindsOfValue, BytesOfKind
<1>2. /\ last \in n .. Len(value)
      /\ \A m \in n + 1 .. last : value[m] = "cont"
  BY <1>1 DEF IsUTF8
<1>3. n \in S
  BY <1>2
<1>4. ASSUME NEW k \in n .. last - 1, k \in S PROVE k + 1 \in S
  <2>1. /\ k + 1 \in n + 1 .. last /\ k + 1 \in 1 .. Len(value) /\ (k + 1) - 1 = k
        /\ k + 1 \in n .. last
    BY <1>1, <1>2
  <2>2. value[k + 1] = "cont"
    BY <1>2, <2>1
  <2>3. TextUpTo(value)[k + 1] = TextUpTo(value)[k] \o << >> /\ TextUpTo(value)[k] \in Seq(Octets)
    BY <2>1, <2>2, TextGrows, CharacterSeq
  <2>4. TextUpTo(value)[k + 1] = TextUpTo(value)[k]
    BY <2>3, ConcatEmptySeq
  <2> QED BY <1>4, <2>1, <2>4
<1>5. last \in S
  <2>1. n \in Nat /\ last \in Nat /\ last \in n .. last
    BY <1>1
  <2> HIDE DEF S, last
  <2> QED BY <1>3, <1>4, <2>1, UpTo
<1>6. last = n + Bytes(value[n]) - 1
  BY <1>1
<1> QED BY <1>5, <1>6

-----------------------------------------------------------------------------
(* What was written, as long as no leading byte met the last byte of a     *)
(* buffer: the text up to where the locator stands.                        *)

\* The first byte of the character that the locator stands in or before.
First == LeadAt(position)

\* What was written of the character at n, when it is s bytes.
Begun(v, n, s) == IF s = 0 THEN << >> ELSE SubSeq(Character(v, n), 1, s)

Stands ==
  IF position = 0 THEN out = << >> ELSE out = TextUpTo(value)[First - 1] \o Begun(value, First, sub_position)

Consecutive == \A k \in 1 .. Len(codepoint) : codepoint[k] = codepoint[1] + k - 1

Carried ==
  /\ Consecutive
  /\ phase = "full" => room = 0
  /\ phase = "quote" => position = Len(value) + 1
  /\ IF phase = "complete" \/ result = "done" THEN out = Serialisation ELSE Stands
  /\ phase = "content" /\ pending => out \o Waiting = TextUpTo(value)[next - 1]

-----------------------------------------------------------------------------
\* Sequences, apart from this program.
LEMMA Rejoined ==
  ASSUME NEW c \in Seq(Octets), NEW s \in 0 .. Len(c), NEW l \in 0 .. Len(c) - s
  PROVE  /\ SubSeq(c, 1, s) \in Seq(Octets) /\ SubSeq(c, s + 1, Len(c)) \in Seq(Octets)
         /\ Len(SubSeq(c, 1, s)) = s /\ Len(SubSeq(c, s + 1, Len(c))) = Len(c) - s
         /\ SubSeq(c, 1, s) \o SubSeq(c, s + 1, Len(c)) = c
         /\ SubSeq(SubSeq(c, s + 1, Len(c)), 1, l) \in Seq(Octets)
         /\ Len(SubSeq(SubSeq(c, s + 1, Len(c)), 1, l)) = l
         /\ SubSeq(c, 1, s) \o SubSeq(SubSeq(c, s + 1, Len(c)), 1, l) = SubSeq(c, 1, s + l)
<1> DEFINE a == SubSeq(c, 1, s)
           b == SubSeq(c, s + 1, Len(c))
           d == SubSeq(b, 1, l)
<1>1. a \in Seq(Octets) /\ Len(a) = s /\ \A i \in 1 .. s : a[i] = c[i]
  BY SubSeqProperties
<1>2. /\ b \in Seq(Octets) /\ Len(b) = Len(c) - s
      /\ \A i \in 1 .. Len(c) - s : b[i] = c[s + i]
  BY SubSeqProperties
<1> HIDE DEF a, b
<1>3. d \in Seq(Octets) /\ Len(d) = l /\ \A i \in 1 .. l : d[i] = c[s + i]
  <2>1. Len(c) \in Nat /\ s \in Nat /\ l \in Nat /\ l <= Len(b)
    BY <1>2
  <2>2. d \in Seq(Octets) /\ Len(d) = l /\ \A i \in 1 .. l : d[i] = b[i]
    BY <1>2, <2>1, SubSeqProperties
  <2> QED BY <1>2, <2>1, <2>2
<1> HIDE DEF d
<1>4. a \o b = c
  <2>1. /\ a \o b \in Seq(Octets) /\ Len(a \o b) = Len(c)
        /\ \A i \in 1 .. Len(c) : (a \o b)[i] = IF i <= s THEN a[i] ELSE b[i - s]
    BY <1>1, <1>2, ConcatProperties
  <2>2. \A i \in 1 .. Len(c) : (a \o b)[i] = c[i]
    BY <1>1, <1>2, <2>1
  <2> QED BY <2>1, <2>2, SeqEqual
<1>5. a \o d = SubSeq(c, 1, s + l)
  <2> DEFINE e == SubSeq(c, 1, s + l)
  <2>1. e \in Seq(Octets) /\ Len(e) = s + l /\ \A i \in 1 .. s + l : e[i] = c[i]
    BY SubSeqProperties
  <2> HIDE DEF e
  <2>2. /\ a \o d \in Seq(Octets) /\ Len(a \o d) = s + l
        /\ \A i \in 1 .. s + l : (a \o d)[i] = IF i <= s THEN a[i] ELSE d[i - s]
    BY <1>1, <1>3, ConcatProperties
  <2>3. ASSUME NEW i \in 1 .. s + l PROVE (a \o d)[i] = e[i]
    <3>1. s \in Nat /\ l \in Nat /\ e[i] = c[i]
      BY <2>1
    <3>2. CASE i <= s
      BY <1>1, <2>2, <3>1, <3>2
    <3>3. CASE i > s
      <4>1. i - s \in 1 .. l /\ s + (i - s) = i /\ ~(i <= s)
        BY <3>1, <3>3
      <4>2. d[i - s] = c[s + (i - s)]
        BY <1>3, <4>1
      <4> QED BY <2>2, <3>1, <4>1, <4>2
    <3>4. i <= s \/ i > s
      BY <3>1
    <3> QED BY <3>2, <3>3, <3>4
  <2> QED BY <2>1, <2>2, <2>3, SeqEqual DEF e
<1> QED BY <1>1, <1>2, <1>3, <1>4, <1>5 DEF a, b, d

LEMMA Associative ==
  ASSUME NEW s \in Seq(Octets), NEW t \in Seq(Octets), NEW u \in Seq(Octets)
  PROVE  (s \o t) \o u = s \o (t \o u)
BY ConcatAssociative

LEMMA BeginsSubSeq ==
  ASSUME NEW s \in Seq(Octets), NEW t \in Seq(Octets), Begins(s, t)
  PROVE  s = SubSeq(t, 1, Len(s))
<1>1. Len(s) \in Nat /\ Len(t) \in Nat /\ Len(s) <= Len(t)
  BY DEF Begins
<1>2. /\ SubSeq(t, 1, Len(s)) \in Seq(Octets) /\ Len(SubSeq(t, 1, Len(s))) = Len(s)
      /\ \A i \in 1 .. Len(s) : SubSeq(t, 1, Len(s))[i] = t[i]
  BY <1>1, SubSeqProperties
<1> QED BY <1>1, <1>2, SeqEqual DEF Begins

LEMMA CopiedGrows ==
  ASSUME NEW a \in Nat, NEW b \in Nat, a <= b
  PROVE  /\ Copied(a, b) \in Seq(Octets)
         /\ Copied(b, b + 1) \in Seq(Octets)
         /\ Copied(a, b + 1) = Copied(a, b) \o Copied(b, b + 1)
         /\ Copied(a, a) = << >>
<1>1. /\ Copied(a, b) \in Seq(Octets) /\ Len(Copied(a, b)) = b - a
      /\ Copied(b, b + 1) \in Seq(Octets) /\ Len(Copied(b, b + 1)) = 1
      /\ Copied(a, b + 1) \in Seq(Octets) /\ Len(Copied(a, b + 1)) = b + 1 - a
  BY DEF Copied, Octets
<1>2. /\ Copied(a, b) \o Copied(b, b + 1) \in Seq(Octets)
      /\ Len(Copied(a, b) \o Copied(b, b + 1)) = b + 1 - a
      /\ \A i \in 1 .. b + 1 - a :
           (Copied(a, b) \o Copied(b, b + 1))[i] =
             IF i <= b - a THEN Copied(a, b)[i] ELSE Copied(b, b + 1)[i - (b - a)]
  <2> DEFINE p == Copied(a, b)
             q == Copied(b, b + 1)
  <2>1. p \in Seq(Octets) /\ Len(p) = b - a /\ q \in Seq(Octets) /\ Len(q) = 1
    BY <1>1
  <2> HIDE DEF p, q
  <2>2. /\ p \o q \in Seq(Octets) /\ Len(p \o q) = Len(p) + Len(q)
        /\ \A i \in 1 .. Len(p) + Len(q) :
             (p \o q)[i] = IF i <= Len(p) THEN p[i] ELSE q[i - Len(p)]
    BY <2>1, ConcatProperties
  <2>3. Len(p) + Len(q) = b + 1 - a
    BY <2>1
  <2> QED BY <2>1, <2>2, <2>3 DEF p, q
<1>3. ASSUME NEW i \in 1 .. b + 1 - a
      PROVE  Copied(a, b + 1)[i] = (Copied(a, b) \o Copied(b, b + 1))[i]
  <2>1. Copied(a, b + 1)[i] = [of |-> << a + i - 1 >>, part |-> 1]
    BY DEF Copied
  <2>2. CASE i <= b - a
    <3>1. Copied(a, b)[i] = [of |-> << a + i - 1 >>, part |-> 1]
      BY <2>2 DEF Copied
    <3> QED BY <1>2, <2>1, <2>2, <3>1
  <2>3. CASE i = b + 1 - a
    <3>1. Copied(b, b + 1)[1] = [of |-> << b + 1 - 1 >>, part |-> 1]
      BY DEF Copied
    <3>2. i - (b - a) = 1 /\ ~(i <= b - a) /\ a + i - 1 = b + 1 - 1
      BY <2>3
    <3>3. (Copied(a, b) \o Copied(b, b + 1))[i] = Copied(b, b + 1)[1]
      BY <1>2, <3>2
    <3> QED BY <2>1, <3>1, <3>2, <3>3
  <2>4. i <= b - a \/ i = b + 1 - a
    OBVIOUS
  <2> QED BY <2>2, <2>3, <2>4
<1>4. Copied(a, b + 1) = Copied(a, b) \o Copied(b, b + 1)
  BY <1>1, <1>2, <1>3, SeqEqual
<1>5. Copied(a, a) = << >>
  BY DEF Copied
<1> QED BY <1>1, <1>4, <1>5

-----------------------------------------------------------------------------
LEMMA SerialisationSeq ==
  ASSUME value \in Values, NEW n \in 0 .. Len(value)
  PROVE  /\ Serialisation \in Seq(Octets) /\ TextUpTo(value)[n] \in Seq(Octets)
         /\ Begins(TextUpTo(value)[n], Serialisation)
         /\ Len(TextUpTo(value)[n]) > 0
         /\ Len(TextUpTo(value)[n]) < Len(Serialisation)
<1> DEFINE T == TextUpTo(value)[n]
           All == TextUpTo(value)[Len(value)]
<1>1. Len(value) \in Nat /\ Len(value) \in 0 .. Len(value) /\ 0 \in 0 .. n
  BY KindsOfValue
<1>2. << Len(value) + 1 >> \in Seq(Nat) /\ << 0 >> \in Seq(Nat)
  BY <1>1
<1>3. /\ ClosingQuote \in Seq(Octets) /\ Len(ClosingQuote) = 1
      /\ OpeningQuote \in Seq(Octets) /\ Len(OpeningQuote) = 1
  BY <1>2, WrittenSeq DEF ClosingQuote, OpeningQuote
<1>4. T \in Seq(Octets) /\ All \in Seq(Octets) /\ TextUpTo(value)[0] = OpeningQuote
  BY <1>1, TextSeq
<1>5. Begins(T, All) /\ Begins(OpeningQuote, T)
  BY <1>1, <1>4, TextBegins
<1> HIDE DEF T, All
<1>6. Serialisation = All \o ClosingQuote
  BY DEF Serialisation, All
<1>7. /\ Serialisation \in Seq(Octets) /\ Len(Serialisation) = Len(All) + 1
      /\ Begins(All, Serialisation)
  <2>1. /\ All \o ClosingQuote \in Seq(Octets)
        /\ Len(All \o ClosingQuote) = Len(All) + Len(ClosingQuote)
        /\ Begins(All, All \o ClosingQuote)
    BY <1>3, <1>4, BeginsConcat
  <2> QED BY <1>3, <1>6, <2>1
<1>8. Begins(T, Serialisation)
  BY <1>4, <1>5, <1>7, BeginsTransitive
<1>9. Len(T) > 0 /\ Len(T) < Len(Serialisation)
  BY <1>3, <1>4, <1>5, <1>7 DEF Begins
<1> QED BY <1>4, <1>7, <1>8, <1>9 DEF T

\* The character at n, of which k bytes were written, in the text.
LEMMA Standing ==
  ASSUME value \in Values, NEW n \in 1 .. Len(value) + 1, NEW k \in Nat,
         k > 0 => /\ n \in 1 .. Len(value)
                             /\ value[n] \in Leads \cup {"short", "control"}
                             /\ k < Width(value[n]),
         NEW s, s = TextUpTo(value)[n - 1] \o Begun(value, n, k)
  PROVE  /\ s \in Seq(Octets) /\ Begun(value, n, k) \in Seq(Octets) /\ Serialisation \in Seq(Octets)
         /\ TextUpTo(value)[n - 1] \in Seq(Octets)
         /\ Len(s) = Len(TextUpTo(value)[n - 1]) + k
         /\ Begins(s, Serialisation)
         /\ Len(s) > 0 /\ Len(s) < Len(Serialisation)
<1> DEFINE T == TextUpTo(value)[n - 1]
           c == Character(value, n)
<1>1. Len(value) \in Nat /\ n - 1 \in 0 .. Len(value)
  BY KindsOfValue
<1>2. /\ Serialisation \in Seq(Octets) /\ T \in Seq(Octets)
      /\ Begins(T, Serialisation) /\ Len(T) > 0 /\ Len(T) < Len(Serialisation)
  BY <1>1, SerialisationSeq
<1>3. CASE k = 0
  <2>1. Begun(value, n, k) = << >> /\ << >> \in Seq(Octets)
    BY <1>3 DEF Begun
  <2>2. s = T
    BY <1>2, <2>1, ConcatEmptySeq
  <2>3. Len(s) = Len(TextUpTo(value)[n - 1]) + k
    BY <1>2, <1>3, <2>2
  <2> QED BY <1>2, <1>3, <2>1, <2>2, <2>3
<1>4. CASE k > 0
  <2>1. n \in 1 .. Len(value) /\ k < Width(value[n]) /\ c \in Seq(Octets)
        /\ Len(c) = Width(value[n]) /\ TextUpTo(value)[n] = T \o c
    BY <1>1, <1>4, CharacterSeq, TextGrows
  <2>2. Len(c) \in Nat /\ k \in 0 .. Len(c) /\ 0 \in 0 .. Len(c) - k
    BY <1>1, <2>1
  <2> DEFINE a == SubSeq(c, 1, k)
             b == SubSeq(c, k + 1, Len(c))
  <2>3. a \in Seq(Octets) /\ b \in Seq(Octets) /\ a \o b = c /\ Len(a) = k
    BY <2>1, <2>2, Rejoined
  <2>4. Begun(value, n, k) = a
    BY <1>1, <1>4 DEF Begun
  <2> HIDE DEF a, b, c, T
  <2>5. T \o a \in Seq(Octets) /\ Len(T \o a) = Len(T) + k
    BY <1>2, <2>3, BeginsConcat
  <2>6. (T \o a) \o b = T \o c
    BY <1>2, <2>3, Associative
  <2>7. Begins(T \o a, T \o c)
    BY <2>3, <2>5, <2>6, BeginsConcat
  <2>8. /\ Begins(T \o c, Serialisation) /\ Len(T \o c) < Len(Serialisation)
        /\ T \o c \in Seq(Octets)
    <3>1. n \in 0 .. Len(value)
      BY <2>1
    <3> QED BY <1>1, <2>1, <3>1, SerialisationSeq
  <2>9. Begins(T \o a, Serialisation)
    BY <1>2, <2>5, <2>7, <2>8, BeginsTransitive
  <2>10. Len(T \o a) <= Len(T \o c)
    BY <2>7 DEF Begins
  <2>11. Len(T \o a) > 0 /\ Len(T \o a) < Len(Serialisation)
    BY <1>1, <1>2, <2>5, <2>8, <2>10
  <2>12. s = T \o a
    BY <2>4 DEF T
  <2> QED BY <1>2, <2>3, <2>4, <2>5, <2>9, <2>11, <2>12 DEF T
<1> QED BY <1>1, <1>3, <1>4 DEF T

\* Where the locator stands, less than the text was written.
LEMMA FirstTyped ==
  ASSUME Typed, position > 0
  PROVE  /\ First \in 1 .. Len(value) + 1
         /\ sub_position > 0 => /\ First \in 1 .. Len(value)
                                /\ value[First] \in Leads \cup {"short", "control"}
                                /\ sub_position < Width(value[First])
<1>1. Len(value) \in Nat
  BY KindsOfValue DEF Typed, Located
<1>2. CASE codepoint = << >>
  <2>1. First = position
    BY <1>2 DEF First, LeadAt
  <2> QED BY <1>1, <1>2, <2>1 DEF Typed, Located, Partial
<1>3. CASE codepoint # << >>
  <2>1. First = codepoint[1] /\ codepoint[1] \in 1 .. Len(value)
    BY <1>3 DEF First, LeadAt, Typed, Located
  <2>2. value[First] \in Leads
    BY <1>3, <2>1 DEF Typed, Kept
  <2>3. sub_position > 0 => sub_position < Width(value[First])
    BY <1>3, <2>1 DEF Typed, Partial
  <2> QED BY <1>1, <2>1, <2>2, <2>3
<1> QED BY <1>2, <1>3

LEMMA StandsBefore ==
  ASSUME Typed, Stands
  PROVE  /\ out \in Seq(Octets) /\ Serialisation \in Seq(Octets)
         /\ Begins(out, Serialisation) /\ Len(out) < Len(Serialisation)
<1>1. CASE position > 0
  <2>1. out = TextUpTo(value)[First - 1] \o Begun(value, First, sub_position)
    BY <1>1, KindsOfValue DEF Stands, Typed, Located
  <2>2. value \in Values /\ sub_position \in Nat
    BY DEF Typed, Located
  <2> QED BY <1>1, <2>1, <2>2, FirstTyped, Standing
<1>2. CASE position = 0
  <2>1. out = << >> /\ value \in Values
    BY <1>2 DEF Stands, Typed, Located
  <2>2. 0 \in 0 .. Len(value)
    BY <2>1, KindsOfValue
  <2>3. Serialisation \in Seq(Octets) /\ Len(Serialisation) > 0
    BY <2>1, <2>2, SerialisationSeq
  <2> QED BY <2>1, <2>3 DEF Begins
<1> QED BY <1>1, <1>2, KindsOfValue DEF Typed, Located

-----------------------------------------------------------------------------
(* The steps, each of which is one of Writer or changes nothing there.     *)

\* A step of Writer, or one that it does not see.
WriterStep == [W!Next]_(W!vars)

LEMMA SerialisationSame ==
  ASSUME value' = value
  PROVE  Serialisation' = Serialisation
BY DEF Serialisation, ClosingQuote

\* Nothing is written.
LEMMA Stutters ==
  ASSUME UNCHANGED << value, out, room, result >>
  PROVE  WriterStep
BY SerialisationSame DEF WriterStep, W!vars

\* These bytes are written.
LEMMA Writes ==
  ASSUME NEW bytes \in Seq(Octets), out \in Seq(Octets), Serialisation \in Seq(Octets),
         room \in Nat, Len(bytes) <= room, room' = room - Len(bytes),
         out' = out \o bytes, Begins(out', Serialisation),
         UNCHANGED << value, result >>
  PROVE  WriterStep
<1>1. out' \in Seq(Octets) /\ Len(out') = Len(out) + Len(bytes)
  BY BeginsConcat
<1>2. out' = SubSeq(Serialisation, 1, Len(out'))
  BY <1>1, BeginsSubSeq
<1>3. Len(out') <= Len(Serialisation) /\ Len(bytes) \in Nat
  BY DEF Begins
<1>4. CASE Len(bytes) = 0
  <2>1. bytes = << >>
    BY <1>4, EmptySeq
  <2>2. out' = out /\ room' = room
    BY <1>4, <2>1, ConcatEmptySeq
  <2> QED BY <2>2, Stutters
<1>5. CASE Len(bytes) > 0
  <2>1. Len(bytes) \in 1 .. room /\ room > 0
    BY <1>3, <1>5
  <2>2. W!Write
    BY <1>1, <1>2, <1>3, <2>1, SerialisationSame DEF W!Write
  <2> QED BY <2>2 DEF WriterStep, W!Next
<1> QED BY <1>3, <1>4, <1>5

\* What is not done keeps its place.
LEMMA StandsSame ==
  ASSUME Stands, UNCHANGED << value, position, sub_position, codepoint, out >>
  PROVE  Stands'
BY DEF Stands, First, LeadAt, Begun

LEMMA ConsecutiveSame ==
  ASSUME Consecutive, UNCHANGED codepoint
  PROVE  Consecutive'
BY DEF Consecutive

\* Before the string no byte of it is kept.
LEMMA NothingKept ==
  ASSUME Typed, Aligned, position = 0, phase # "content"
  PROVE  codepoint = << >> /\ sub_position = 0
<1>1. codepoint = << >>
  <2>1. ~Starts(position)
    BY DEF Starts
  <2>2. ~Completes(position)
    BY AfterCompletes DEF Aligned
  <2> QED BY <2>1, <2>2 DEF Aligned, Resting
<1> QED BY <1>1 DEF Typed, Partial

LEMMA CarriedCall ==
  ASSUME Typed, Carried, NEW r \in Rooms, Call(r)
  PROVE  Carried' /\ WriterStep
<1>1. /\ phase = "idle" /\ phase' = "called" /\ result # "done" /\ room' = r /\ room = -1
      /\ UNCHANGED << value, position, sub_position, codepoint, out, result >>
  BY DEF Call, locator, Typed
<1>2. Stands' /\ Consecutive'
  BY <1>1, StandsSame, ConsecutiveSame DEF Carried
<1>3. W!Call
  BY <1>1, SerialisationSame DEF W!Call
<1> QED BY <1>1, <1>2, <1>3 DEF Carried, WriterStep, W!Next

LEMMA CarriedOpenQuote ==
  ASSUME Typed, Aligned, Carried, OpenQuote
  PROVE  Carried' /\ WriterStep
<1>1. /\ phase = "called" /\ position = 0 /\ room \in Nat /\ result # "done"
      /\ codepoint = << >> /\ sub_position = 0 /\ value \in Values
      /\ UNCHANGED << value, sub_position, codepoint, next, pending, result >>
  BY NothingKept DEF OpenQuote, loop, Typed, Located
<1>2. Consecutive'
  BY <1>1, ConsecutiveSame DEF Carried
<1>3. out = << >>
  BY <1>1 DEF Carried, Stands
<1>4. CASE DelimiterFits
  <2>1. /\ out' = OpeningQuote /\ room' = room - 1 /\ position' = 1 /\ phase' = "called"
        /\ room > 0
    <3>1. << 0 >> \in Seq(Nat)
      OBVIOUS
    <3>2. OpeningQuote \in Seq(Octets)
      BY <3>1, WrittenSeq DEF OpeningQuote
    <3>3. out' = out \o OpeningQuote
      BY <1>4 DEF OpenQuote
    <3>4. out' = OpeningQuote
      BY <1>3, <3>2, <3>3, ConcatEmptySeq
    <3> QED BY <1>1, <1>4, <3>4 DEF OpenQuote, DelimiterFits
  <2>2. 0 \in 0 .. Len(value) /\ Len(value) \in Nat
    BY <1>1, KindsOfValue
  <2>3. /\ TextUpTo(value)[0] = OpeningQuote /\ OpeningQuote \in Seq(Octets)
        /\ Begins(OpeningQuote, Serialisation) /\ Serialisation \in Seq(Octets)
    BY <1>1, <2>2, TextSeq, SerialisationSeq
  <2>4. Stands'
    <3>1. First' = 1 /\ Begun(value, First, sub_position)' = << >>
      BY <1>1, <2>1 DEF First, LeadAt, Begun
    <3>2. TextUpTo(value)[1 - 1] \o << >> = OpeningQuote
      BY <2>3, ConcatEmptySeq
    <3>3. (TextUpTo(value)[First - 1] \o Begun(value, First, sub_position))' = OpeningQuote
      BY <1>1, <3>1, <3>2
    <3> QED BY <2>1, <3>3 DEF Stands
  <2>5. WriterStep
    <3>1. Len(OpeningQuote) = 1
      BY DEF OpeningQuote, Written
    <3>2. out' = out \o OpeningQuote /\ out \in Seq(Octets)
      BY <1>3, <2>1, <2>3, ConcatEmptySeq
    <3> QED BY <1>1, <2>1, <2>3, <3>1, <3>2, Writes
  <2> QED BY <1>1, <1>2, <2>1, <2>4, <2>5 DEF Carried
<1>5. CASE ~DelimiterFits
  <2>1. phase' = "full" /\ UNCHANGED << out, room, position >> /\ room = 0
    BY <1>1, <1>5 DEF OpenQuote, DelimiterFits
  <2>2. Stands'
    BY <1>1, <2>1, StandsSame DEF Carried
  <2>3. WriterStep
    BY <1>1, <2>1, Stutters
  <2> QED BY <1>1, <1>2, <2>1, <2>2, <2>3 DEF Carried
<1> QED BY <1>4, <1>5

LEMMA CarriedEnterContent ==
  ASSUME Typed, Carried, EnterContent
  PROVE  Carried' /\ WriterStep
<1>1. /\ phase = "called" /\ phase' = (IF position = Len(value) + 1 THEN "quote" ELSE "content")
      /\ result # "done" /\ pending' = FALSE
      /\ UNCHANGED << value, position, sub_position, codepoint, out, room, result >>
  BY DEF EnterContent, locator, Typed
<1>2. Stands' /\ Consecutive'
  BY <1>1, StandsSame, ConsecutiveSame DEF Carried
<1> QED BY <1>1, <1>2, Stutters DEF Carried

\* In the loop: the text up to the character of the next byte, and what was written of it.
LEMMA Passing ==
  ASSUME Typed, Aligned, Carried, phase = "content"
  PROVE  /\ Waiting \in Seq(Octets) /\ out \in Seq(Octets) /\ room \in Nat
         /\ Len(Waiting) <= room
         /\ LeadAt(next) \in 1 .. Len(value) + 1
         /\ sub_position > 0 => /\ LeadAt(next) \in 1 .. Len(value)
                                /\ value[LeadAt(next)] \in Leads \cup {"short", "control"}
                                /\ sub_position < Width(value[LeadAt(next)])
         /\ out \o Waiting = TextUpTo(value)[LeadAt(next) - 1] \o Begun(value, LeadAt(next), sub_position)
<1>1. /\ position > 0 /\ position \in Nat /\ next \in Nat /\ Stands /\ room \in Nat
      /\ position <= next /\ next <= Len(value) + 1 /\ Len(value) \in Nat /\ pending \in BOOLEAN
      /\ sub_position \in Nat
  BY KindsOfValue DEF Typed, Located, Carried
<1>2. /\ First \in 1 .. Len(value) + 1
      /\ sub_position > 0 => /\ First \in 1 .. Len(value)
                             /\ value[First] \in Leads \cup {"short", "control"}
                             /\ sub_position < Width(value[First])
  BY <1>1, FirstTyped
<1>3. out \in Seq(Octets)
  BY <1>1, StandsBefore
<1>4. Len(Waiting) <= room
  <2>1. Len(Waiting) = (IF pending THEN next - position ELSE 0) /\ room - Len(Waiting) \in Nat
    BY WaitingTyped
  <2> HIDE DEF Waiting
  <2> QED BY <1>1, <2>1
<1>5. CASE pending
  <2>1. codepoint = << >> /\ sub_position = 0 /\ LeadAt(next) = next
    BY <1>1, <1>5 DEF Typed, Partial, LeadAt
  <2>2. Waiting \in Seq(Octets)
    BY <1>1, <1>5, CopiedGrows DEF Waiting
  <2>3. Begun(value, next, sub_position) = << >>
    BY <2>1 DEF Begun
  <2>4. next \in 1 .. Len(value) + 1 /\ next - 1 \in 0 .. Len(value)
    BY <1>1
  <2>5. TextUpTo(value)[next - 1] \o << >> = TextUpTo(value)[next - 1]
    BY <2>4, TextSeq, ConcatEmptySeq DEF Typed, Located
  <2>6. out \o Waiting = TextUpTo(value)[next - 1]
    BY <1>5 DEF Carried
  <2> HIDE DEF Waiting
  <2> QED BY <1>1, <1>3, <1>4, <2>1, <2>2, <2>3, <2>4, <2>5, <2>6
<1>6. CASE ~pending
  <2>1. Waiting = << >>
    BY <1>6 DEF Waiting
  <2>2. LeadAt(next) = First
    BY <1>6 DEF Aligned, Looping, First, LeadAt
  <2>3. out \o << >> = out /\ << >> \in Seq(Octets)
    BY <1>3, ConcatEmptySeq
  <2>4. out = TextUpTo(value)[First - 1] \o Begun(value, First, sub_position)
    BY <1>1 DEF Stands
  <2> QED BY <1>1, <1>2, <1>3, <1>4, <2>1, <2>2, <2>3, <2>4
<1> QED BY <1>1, <1>5, <1>6

LEMMA CarriedBasicByte ==
  ASSUME Typed, Aligned, Carried, BasicByte
  PROVE  Carried' /\ WriterStep
<1>1. /\ phase = "content" /\ InLoop /\ codepoint = << >> /\ value[next] = "basic"
      /\ result # "done" /\ pending' = TRUE /\ next' = next + 1
      /\ UNCHANGED << value, position, sub_position, codepoint, out, room, phase, result >>
  BY DEF BasicByte, InLoop, Basic, locator, Typed
<1>2. /\ next \in 1 .. Len(value) /\ position \in Nat /\ position <= next /\ value \in Values
      /\ Len(value) \in Nat
  BY <1>1, WaitingTyped, KindsOfValue DEF Typed, Located
<1>3. sub_position = 0
  BY <1>1 DEF Typed, Partial
<1>4. out \o Waiting = TextUpTo(value)[next - 1] /\ Waiting \in Seq(Octets) /\ out \in Seq(Octets)
  <2>1. LeadAt(next) = next /\ Begun(value, next, sub_position) = << >>
    BY <1>1, <1>3 DEF LeadAt, Begun
  <2>2. TextUpTo(value)[next - 1] \in Seq(Octets)
    BY <1>2, TextGrows
  <2>3. TextUpTo(value)[next - 1] \o << >> = TextUpTo(value)[next - 1]
    BY <2>2, ConcatEmptySeq
  <2> QED BY <1>1, <2>1, <2>3, Passing
<1>5. Waiting = Copied(position, next)
  <2>1. CASE pending
    BY <2>1 DEF Waiting
  <2>2. CASE ~pending
    <3>1. position = next
      BY <1>1, <2>2 DEF Aligned, Looping
    <3>2. Copied(position, next) = << >>
      BY <1>2, <3>1, CopiedGrows
    <3> QED BY <2>2, <3>2 DEF Waiting
  <2> QED BY <2>1, <2>2 DEF Typed
<1>6. Waiting' = Waiting \o Copied(next, next + 1) /\ Copied(next, next + 1) \in Seq(Octets)
  <2>1. Waiting' = Copied(position, next + 1)
    BY <1>1 DEF Waiting
  <2> HIDE DEF Waiting
  <2>2. next \in Nat
    BY <1>2
  <2> QED BY <1>2, <1>5, <2>1, <2>2, CopiedGrows
<1>7. out \o (Waiting \o Copied(next, next + 1)) = TextUpTo(value)[next]
  <2>1. TextUpTo(value)[next] = TextUpTo(value)[next - 1] \o Copied(next, next + 1)
    BY <1>1, <1>2, TextGrows, CharacterSeq
  <2> HIDE DEF Waiting
  <2>2. (out \o Waiting) \o Copied(next, next + 1) = out \o (Waiting \o Copied(next, next + 1))
    BY <1>4, <1>6, Associative
  <2> QED BY <1>4, <2>1, <2>2
<1>8. (out \o Waiting = TextUpTo(value)[next - 1])'
  <2>1. next' - 1 = next
    BY <1>1, <1>2
  <2> QED BY <1>1, <1>6, <1>7, <2>1
<1>9. Stands' /\ Consecutive'
  BY <1>1, StandsSame, ConsecutiveSame DEF Carried
<1> QED BY <1>1, <1>8, <1>9, Stutters DEF Carried

LEMMA CarriedEndOfLoop ==
  ASSUME Typed, Aligned, Carried, EndOfLoop
  PROVE  Carried' /\ WriterStep
<1>1. /\ phase = "content" /\ ~InLoop /\ result # "done" /\ pending' = FALSE
      /\ out' = out \o Waiting /\ room' = room - Len(Waiting)
      /\ position' = (IF pending THEN next ELSE position)
      /\ phase' = (IF next - position < room THEN "quote" ELSE "full")
      /\ UNCHANGED << value, sub_position, codepoint, next, result >>
  BY DEF EndOfLoop, Typed
<1>2. /\ position \in Nat /\ position > 0 /\ next \in Nat /\ room \in Nat /\ Len(value) \in Nat
      /\ position <= next /\ next <= Len(value) + 1 /\ pending \in BOOLEAN /\ Looping
  BY <1>1, KindsOfValue DEF Typed, Located, Aligned
<1>3. /\ Waiting \in Seq(Octets) /\ out \in Seq(Octets) /\ Len(Waiting) <= room
      /\ out \o Waiting = TextUpTo(value)[LeadAt(next) - 1] \o Begun(value, LeadAt(next), sub_position)
      /\ LeadAt(next) \in 1 .. Len(value) + 1
  BY <1>1, Passing
<1>4. LeadAt(next) = LeadAt(position') /\ position' > 0
  BY <1>1, <1>2 DEF Looping, LeadAt
<1>5. Stands'
  <2>1. First' = LeadAt(next)
    BY <1>1, <1>4 DEF First, LeadAt
  <2>2. Begun(value, First, sub_position)' = Begun(value, LeadAt(next), sub_position)
    BY <1>1, <2>1 DEF Begun
  <2>3. out' = TextUpTo(value)[LeadAt(next) - 1] \o Begun(value, LeadAt(next), sub_position)
    BY <1>1, <1>3
  <2> HIDE DEF Waiting
  <2> QED BY <1>1, <1>2, <1>4, <2>1, <2>2, <2>3 DEF Stands
<1>6. Consecutive'
  BY <1>1, ConsecutiveSame DEF Carried
<1>7. phase' = "full" => room' = 0
  <2>1. Len(Waiting) = (IF pending THEN next - position ELSE 0)
    BY <1>1, WaitingTyped
  <2>2. CASE pending
    <3>1. room' = room - (next - position) /\ next - position <= room
      BY <1>1, <1>3, <2>1, <2>2
    <3> QED BY <1>1, <1>2, <3>1
  <2>3. CASE ~pending
    <3>1. phase' = "full" => position = next
      BY <1>1, <1>2, <2>3 DEF Looping
    <3> QED BY <1>1, <1>2, <2>1, <2>3, <3>1
  <2> QED BY <1>2, <2>2, <2>3
<1>8. phase' = "quote" => position' = Len(value) + 1
  <2>1. SUFFICES ASSUME next - position < room PROVE position' = Len(value) + 1
    BY <1>1
  <2>2. next = Len(value) + 1
    BY <1>1, <1>2, <2>1 DEF InLoop
  <2>3. codepoint = << >>
    <3>1. SUFFICES ASSUME codepoint # << >> PROVE FALSE
      OBVIOUS
    <3>2. codepoint[1] + Len(codepoint) \in 1 .. Len(value)
      BY <3>1, CollectedBound DEF Aligned
    <3> QED BY <1>2, <2>2, <3>1, <3>2 DEF Looping
  <2>4. ~pending => position = next
    BY <1>2, <2>3 DEF Looping
  <2> QED BY <1>1, <1>2, <2>2, <2>4
<1>9. WriterStep
  <2>1. Begins(out', Serialisation) /\ Serialisation \in Seq(Octets)
    <3>1. /\ sub_position > 0 => /\ LeadAt(next) \in 1 .. Len(value)
                                 /\ value[LeadAt(next)] \in Leads \cup {"short", "control"}
                                 /\ sub_position < Width(value[LeadAt(next)])
          /\ LeadAt(next) \in 1 .. Len(value) + 1
      BY <1>1, Passing
    <3>2. out' = TextUpTo(value)[LeadAt(next) - 1] \o Begun(value, LeadAt(next), sub_position)
      BY <1>1, <1>3
    <3>3. value \in Values /\ sub_position \in Nat
      BY DEF Typed, Located
    <3> QED BY <3>1, <3>2, <3>3, Standing
  <2> HIDE DEF Waiting
  <2> QED BY <1>1, <1>2, <1>3, <2>1, Writes
<1> QED BY <1>1, <1>5, <1>6, <1>7, <1>8, <1>9 DEF Carried

\* The bytes of a code point, one after another.
LEMMA AppendConsecutive ==
  ASSUME codepoint \in Seq(Nat), Consecutive, NEW n \in Nat,
         codepoint # << >> => n = codepoint[1] + Len(codepoint)
  PROVE  Append(codepoint, n) = [k \in 1 .. Len(codepoint) + 1 |-> LeadAt(n) + k - 1]
<1> DEFINE all == [k \in 1 .. Len(codepoint) + 1 |-> LeadAt(n) + k - 1]
<1>1. CASE codepoint = << >>
  <2>1. LeadAt(n) = n /\ Len(codepoint) = 0
    BY <1>1 DEF LeadAt
  <2>2. all = [k \in 1 .. 1 |-> n + k - 1]
    BY <2>1
  <2>3. all = << n >>
    BY <2>2
  <2> QED BY <1>1, <2>3
<1>2. CASE codepoint # << >>
  <2>1. /\ LeadAt(n) = codepoint[1] /\ codepoint[1] \in Nat /\ Len(codepoint) \in Nat
        /\ n = codepoint[1] + Len(codepoint)
    BY <1>2 DEF LeadAt
  <2>2. /\ Append(codepoint, n) \in Seq(Nat) /\ Len(Append(codepoint, n)) = Len(codepoint) + 1
        /\ Append(codepoint, n)[Len(codepoint) + 1] = n
        /\ \A k \in 1 .. Len(codepoint) : Append(codepoint, n)[k] = codepoint[k]
    BY AppendProperties
  <2>3. all \in Seq(Nat) /\ Len(all) = Len(codepoint) + 1
    BY <2>1
  <2>4. ASSUME NEW k \in 1 .. Len(codepoint) + 1 PROVE Append(codepoint, n)[k] = all[k]
    <3>1. all[k] = codepoint[1] + k - 1
      BY <2>1
    <3>2. CASE k \in 1 .. Len(codepoint)
      BY <2>2, <3>1, <3>2 DEF Consecutive
    <3>3. CASE k = Len(codepoint) + 1
      BY <2>1, <2>2, <3>1, <3>3
    <3> QED BY <2>1, <3>2, <3>3
  <2> HIDE DEF all
  <2> QED BY <2>2, <2>3, <2>4, SeqEqual DEF all
<1> QED BY <1>1, <1>2

LEMMA ConsecutiveGrows ==
  ASSUME codepoint \in Seq(Nat), Consecutive, NEW n \in Nat,
         codepoint # << >> => n = codepoint[1] + Len(codepoint),
         codepoint' = Append(codepoint, n)
  PROVE  Consecutive' /\ codepoint' # << >> /\ codepoint'[1] = LeadAt(n)
<1>1. codepoint' = [k \in 1 .. Len(codepoint) + 1 |-> LeadAt(n) + k - 1]
  BY AppendConsecutive
<1>2. Len(codepoint) \in Nat /\ LeadAt(n) \in Nat
  BY DEF LeadAt
<1>3. /\ Len(codepoint') = Len(codepoint) + 1
      /\ \A k \in 1 .. Len(codepoint) + 1 : codepoint'[k] = LeadAt(n) + k - 1
  BY <1>1, <1>2
<1>4. codepoint'[1] = LeadAt(n)
  BY <1>2, <1>3
<1> QED BY <1>2, <1>3, <1>4 DEF Consecutive

LEMMA KeptSeq ==
  ASSUME Aligned
  PROVE  codepoint \in Seq(Nat)
<1>1. CASE codepoint = << >>
  <2>1. << >> \in Seq(Nat)
    OBVIOUS
  <2> QED BY <1>1, <2>1
<1> QED BY <1>1 DEF Aligned, Collected

\* What char_to_tmp has computed at the last byte of a character: the rest of it.
LEMMA RestOfCharacter ==
  ASSUME Typed, Aligned, Consecutive, InLoop, ~NeedsMore(next),
         ~Basic(value[next]) \/ codepoint # << >>
  PROVE  /\ LeadAt(next) \in 1 .. Len(value)
         /\ value[LeadAt(next)] \in Leads \cup {"short", "control"}
         /\ Character(value, LeadAt(next)) \in Seq(Octets)
         /\ Len(Character(value, LeadAt(next))) = Width(value[LeadAt(next)])
         /\ sub_position \in 0 .. Width(value[LeadAt(next)]) - 1
         /\ Tmp(next) = SubSeq(Character(value, LeadAt(next)), sub_position + 1,
                               Len(Character(value, LeadAt(next))))
         /\ TextUpTo(value)[next] = TextUpTo(value)[LeadAt(next)]
<1> DEFINE lead == LeadAt(next)
<1>1. /\ lead \in 1 .. Len(value) /\ value[lead] \in Leads \cup {"short", "control"}
      /\ codepoint = << >> => value[next] \in {"short", "control"}
      /\ Width(value[lead]) \in 2 .. 12 /\ sub_position < Width(value[lead])
  BY NoStray, WholeTyped
<1>2. /\ value \in Values /\ codepoint \in Seq(Nat) /\ next \in Nat /\ sub_position \in Nat
      /\ Len(codepoint) \in Nat /\ Looping
  <2>1. codepoint \in Seq(Nat)
    BY KeptSeq
  <2> QED BY <2>1 DEF Aligned, InLoop
<1>3. codepoint # << >> => Completes(next)
  BY WhenWhole
<1>4. Bytes(value[lead]) = Len(codepoint) + 1
  <2>1. CASE codepoint = << >>
    BY <1>1, <2>1 DEF Bytes, LeadAt
  <2>2. CASE codepoint # << >>
    BY <1>3, <2>2 DEF Completes, LeadAt
  <2> QED BY <2>1, <2>2
<1>5. Append(codepoint, next) = [k \in 1 .. Bytes(value[lead]) |-> lead + k - 1]
  BY <1>2, <1>3, <1>4, AppendConsecutive DEF Completes
<1>6. /\ Character(value, lead) = Written(Append(codepoint, next), Width(value[lead]))
      /\ Character(value, lead) \in Seq(Octets)
      /\ Len(Character(value, lead)) = Width(value[lead])
  BY <1>1, <1>2, <1>5, CharacterSeq
<1>7. Tmp(next) = SubSeq(Character(value, lead), sub_position + 1, Len(Character(value, lead)))
  BY <1>6 DEF Tmp, LeadAt
<1>8. TextUpTo(value)[next] = TextUpTo(value)[lead]
  <2>1. value[lead] # "cont"
    BY <1>1 DEF Leads
  <2>2. next = lead + Bytes(value[lead]) - 1
    BY <1>2, <1>3, <1>4 DEF LeadAt, Completes
  <2> QED BY <1>1, <1>2, <2>1, <2>2, TextOfCharacter
<1>9. sub_position \in 0 .. Width(value[lead]) - 1
  BY <1>1, <1>2
<1> QED BY <1>1, <1>6, <1>7, <1>8, <1>9

LEMMA CarriedSpecialByte ==
  ASSUME Typed, Aligned, Carried, SpecialByte
  PROVE  Carried' /\ WriterStep
<1> DEFINE lead == LeadAt(next)
           left == room - Len(Waiting)
           tmp == Tmp(next)
           before == TextUpTo(value)[LeadAt(next) - 1]
           c == Character(value, LeadAt(next))
           begun == Begun(value, LeadAt(next), sub_position)
<1>1. /\ phase = "content" /\ InLoop
      /\ ~Basic(value[next]) \/ codepoint # << >>
      /\ result # "done" /\ pending' = FALSE /\ Consecutive
      /\ UNCHANGED << value, result >>
  BY DEF SpecialByte, InLoop, Typed, Carried
<1>2. /\ value \in Values /\ codepoint \in Seq(Nat) /\ next \in Nat /\ sub_position \in Nat
      /\ Looping /\ next \in 1 .. Len(value) /\ Len(value) \in Nat
      /\ left \in Nat /\ left > 0
  <2>1. codepoint \in Seq(Nat)
    BY KeptSeq
  <2> HIDE DEF left
  <2>2. left \in Nat /\ left > 0
    BY <1>1, WaitingTyped DEF left
  <2> QED BY <1>1, <2>1, <2>2, KindsOfValue, WaitingTyped DEF Aligned
<1>3. /\ Waiting \in Seq(Octets) /\ out \in Seq(Octets) /\ room \in Nat
      /\ Len(Waiting) <= room /\ lead \in 1 .. Len(value) + 1
      /\ out \o Waiting = before \o begun
      /\ sub_position > 0 => /\ lead \in 1 .. Len(value)
                             /\ value[lead] \in Leads \cup {"short", "control"}
                             /\ sub_position < Width(value[lead])
  BY <1>1, Passing
<1>4. /\ before \in Seq(Octets) /\ begun \in Seq(Octets) /\ Serialisation \in Seq(Octets)
      /\ Begins(before \o begun, Serialisation)
  BY <1>2, <1>3, Standing
<1>5. CASE /\ NeedsMore(next)
           /\ codepoint' = Append(codepoint, next)
           /\ position' = next
           /\ out' = out \o Waiting
           /\ room' = left
           /\ UNCHANGED << sub_position, phase >>
  <2>1. codepoint # << >> => next = codepoint[1] + Len(codepoint)
    BY <1>2 DEF Looping
  <2>2. Consecutive' /\ codepoint' # << >> /\ codepoint'[1] = lead
    BY <1>1, <1>2, <1>5, <2>1, ConsecutiveGrows
  <2>3. First' = lead /\ position' # 0
    BY <1>2, <1>5, <2>2 DEF First, LeadAt
  <2>4. Begun(value, First, sub_position)' = begun
    BY <1>1, <1>5, <2>3 DEF Begun
  <2>5. Stands'
    BY <1>1, <1>3, <1>5, <2>3, <2>4 DEF Stands
  <2>6. WriterStep
    <3>1. Begins(out', Serialisation)
      BY <1>3, <1>4, <1>5
    <3> HIDE DEF Waiting
    <3> QED BY <1>1, <1>3, <1>4, <1>5, <3>1, Writes
  <2> QED BY <1>1, <1>5, <2>2, <2>5, <2>6 DEF Carried
<1>6. ASSUME ~NeedsMore(next)
      PROVE  /\ lead \in 1 .. Len(value) /\ c \in Seq(Octets) /\ Len(c) = Width(value[lead])
             /\ value[lead] \in Leads \cup {"short", "control"} /\ Width(value[lead]) \in Nat
             /\ sub_position \in 0 .. Len(c) /\ Len(c) \in Nat
             /\ tmp = SubSeq(c, sub_position + 1, Len(c)) /\ begun = SubSeq(c, 1, sub_position)
             /\ TextUpTo(value)[next] = before \o c
  <2>1. /\ lead \in 1 .. Len(value) /\ c \in Seq(Octets) /\ Len(c) = Width(value[lead])
        /\ value[lead] \in Leads \cup {"short", "control"}
        /\ sub_position \in 0 .. Width(value[lead]) - 1
        /\ tmp = SubSeq(c, sub_position + 1, Len(c))
        /\ TextUpTo(value)[next] = TextUpTo(value)[lead]
    BY <1>1, <1>6, RestOfCharacter
  <2>2. TextUpTo(value)[lead] = before \o c
    BY <1>2, <2>1, TextGrows
  <2>3. Width(value[lead]) \in Nat
    BY <2>1, WidthOfKind
  <2>4. begun = SubSeq(c, 1, sub_position)
    BY <1>2 DEF Begun
  <2> HIDE DEF lead, c, tmp, before, begun
  <2> QED BY <2>1, <2>2, <2>3, <2>4
<1>7. CASE /\ ~NeedsMore(next) /\ left >= Len(tmp)
           /\ out' = out \o Waiting \o tmp
           /\ room' = left - Len(tmp)
           /\ position' = next + 1
           /\ sub_position' = 0
           /\ codepoint' = << >>
           /\ UNCHANGED phase
  <2>1. /\ lead \in 1 .. Len(value) /\ c \in Seq(Octets) /\ sub_position \in 0 .. Len(c)
        /\ Len(c) \in Nat
        /\ tmp = SubSeq(c, sub_position + 1, Len(c)) /\ begun = SubSeq(c, 1, sub_position)
        /\ TextUpTo(value)[next] = before \o c
    BY <1>6, <1>7
  <2> HIDE DEF lead, left, c, tmp, before, begun, Waiting
  <2>2. tmp \in Seq(Octets) /\ begun \o tmp = c
    <3>1. 0 \in 0 .. Len(c) - sub_position
      BY <2>1
    <3> QED BY <2>1, <3>1, Rejoined
  <2>3. out' = TextUpTo(value)[next]
    <3>1. (before \o begun) \o tmp = before \o c
      BY <1>4, <2>2, Associative
    <3> QED BY <1>3, <1>7, <2>1, <3>1
  <2>4. Stands'
    <3>1. First' = next + 1 /\ Begun(value, First, sub_position)' = << >> /\ position' # 0
      BY <1>2, <1>7 DEF First, LeadAt, Begun
    <3>2. TextUpTo(value)[next] \o << >> = TextUpTo(value)[next] /\ next + 1 - 1 = next
      <4>1. TextUpTo(value)[next] \in Seq(Octets)
        BY <1>2, TextGrows
      <4> QED BY <1>2, <4>1, ConcatEmptySeq
    <3>3. First' - 1 = next
      BY <1>2, <3>1
    <3>4. (TextUpTo(value)[First - 1] \o Begun(value, First, sub_position))' = TextUpTo(value)[next]
      BY <1>1, <3>1, <3>2, <3>3
    <3> QED BY <2>3, <3>1, <3>4 DEF Stands
  <2>5. Consecutive'
    BY <1>7 DEF Consecutive
  <2>6. WriterStep
    <3>1. Begins(out', Serialisation)
      <4>1. next \in 0 .. Len(value)
        BY <1>2
      <4> QED BY <1>2, <2>3, <4>1, SerialisationSeq
    <3>2. /\ Waiting \o tmp \in Seq(Octets) /\ Len(Waiting \o tmp) = Len(Waiting) + Len(tmp)
          /\ out' = out \o (Waiting \o tmp)
      BY <1>3, <1>7, <2>2, BeginsConcat, Associative
    <3>3. Len(Waiting \o tmp) <= room /\ room' = room - Len(Waiting \o tmp)
      <4>1. Len(Waiting) \in Nat /\ Len(tmp) \in Nat
        BY <1>3, <2>2
      <4> QED BY <1>3, <1>7, <3>2, <4>1 DEF left
    <3> QED BY <1>1, <1>3, <1>4, <3>1, <3>2, <3>3, Writes
  <2> QED BY <1>1, <1>7, <2>4, <2>5, <2>6 DEF Carried
<1>8. CASE /\ ~NeedsMore(next) /\ left < Len(tmp)
           /\ out' = out \o Waiting \o SubSeq(tmp, 1, left)
           /\ room' = 0
           /\ position' = next
           /\ sub_position' = sub_position + left
           /\ phase' = "full"
           /\ UNCHANGED codepoint
  <2>1. /\ lead \in 1 .. Len(value) /\ c \in Seq(Octets) /\ sub_position \in 0 .. Len(c)
        /\ Len(c) \in Nat /\ Len(c) = Width(value[lead])
        /\ value[lead] \in Leads \cup {"short", "control"}
        /\ tmp = SubSeq(c, sub_position + 1, Len(c)) /\ begun = SubSeq(c, 1, sub_position)
    BY <1>6, <1>8
  <2> DEFINE piece == SubSeq(tmp, 1, left)
  <2>2. /\ First' = lead /\ position' # 0
        /\ Begun(value, First, sub_position)' = Begun(value, lead, sub_position + left)
    <3>1. First' = lead
      BY <1>8 DEF First, LeadAt
    <3> QED BY <1>1, <1>2, <1>8, <3>1 DEF Begun
  <2>3. before = TextUpTo(value)[lead - 1] /\ c = Character(value, lead)
    OBVIOUS
  <2> HIDE DEF lead, left, c, tmp, before, begun, Waiting
  <2>4. Len(tmp) = Len(c) - sub_position
    <3>1. 0 \in 0 .. Len(c) - sub_position
      BY <2>1
    <3> QED BY <2>1, <3>1, Rejoined
  <2>5. left \in 0 .. Len(c) - sub_position /\ sub_position + left < Width(value[lead])
    BY <1>2, <1>8, <2>1, <2>4
  <2>6. /\ piece \in Seq(Octets) /\ Len(piece) = left
        /\ begun \o piece = SubSeq(c, 1, sub_position + left)
    BY <2>1, <2>5, Rejoined
  <2> HIDE DEF piece
  <2>7. Begun(value, lead, sub_position + left) = begun \o piece
    BY <1>2, <2>3, <2>6 DEF Begun
  <2>8. out' = before \o (begun \o piece)
    <3>1. (before \o begun) \o piece = before \o (begun \o piece)
      BY <1>4, <2>6, Associative
    <3> QED BY <1>3, <1>8, <3>1 DEF piece
  <2>9. Stands'
    BY <1>1, <2>2, <2>3, <2>7, <2>8 DEF Stands
  <2>10. Consecutive'
    BY <1>1, <1>8, ConsecutiveSame
  <2>11. WriterStep
    <3>1. Begins(out', Serialisation)
      <4>1. lead \in 1 .. Len(value) + 1 /\ sub_position + left \in Nat
        BY <1>2, <2>1
      <4> QED BY <1>2, <2>1, <2>3, <2>5, <2>7, <2>8, <4>1, Standing
    <3>2. /\ Waiting \o piece \in Seq(Octets) /\ Len(Waiting \o piece) = Len(Waiting) + Len(piece)
          /\ out' = out \o (Waiting \o piece)
      BY <1>3, <1>8, <2>6, BeginsConcat, Associative DEF piece
    <3>3. Len(Waiting \o piece) <= room /\ room' = room - Len(Waiting \o piece)
      <4>1. Len(Waiting) \in Nat
        BY <1>3
      <4> QED BY <1>2, <1>3, <1>8, <2>6, <3>2, <4>1 DEF left
    <3> QED BY <1>1, <1>3, <1>4, <3>1, <3>2, <3>3, Writes
  <2> QED BY <1>1, <1>8, <2>9, <2>10, <2>11 DEF Carried
<1> QED BY <1>5, <1>7, <1>8 DEF SpecialByte

LEMMA CarriedCloseQuote ==
  ASSUME Typed, Aligned, Carried, CloseQuote
  PROVE  Carried' /\ WriterStep
<1>1. /\ phase = "quote" /\ room \in Nat /\ room > 0 /\ result # "done" /\ value \in Values
      /\ out' = out \o ClosingQuote /\ room' = room - 1 /\ phase' = "complete"
      /\ UNCHANGED << value, codepoint, pending, result >>
  BY DEF CloseQuote, DelimiterFits, loop, Typed, Located
<1>2. codepoint = << >> /\ position = Len(value) + 1 /\ Len(value) \in Nat /\ Stands
  BY <1>1, KindsOfValue DEF Aligned, Resting, Carried
<1>3. sub_position = 0
  BY <1>2 DEF Typed, Partial
<1>4. out = TextUpTo(value)[Len(value)] /\ out \in Seq(Octets)
  <2>1. First - 1 = Len(value) /\ Begun(value, First, sub_position) = << >> /\ position # 0
    BY <1>2, <1>3 DEF First, LeadAt, Begun
  <2>2. Len(value) \in 0 .. Len(value)
    BY <1>2
  <2>3. TextUpTo(value)[Len(value)] \in Seq(Octets)
    BY <1>1, <2>2, TextSeq
  <2>4. out = TextUpTo(value)[Len(value)] \o << >>
    BY <1>2, <2>1 DEF Stands
  <2> QED BY <2>3, <2>4, ConcatEmptySeq
<1>5. out' = Serialisation /\ Serialisation' = Serialisation
  BY <1>1, <1>4, SerialisationSame DEF Serialisation
<1>6. WriterStep
  <2>1. << Len(value) + 1 >> \in Seq(Nat)
    BY <1>2
  <2>2. ClosingQuote \in Seq(Octets) /\ Len(ClosingQuote) = 1
    BY <2>1, WrittenSeq DEF ClosingQuote
  <2>3. Serialisation \in Seq(Octets)
    BY <1>1, <1>4, <2>2, BeginsConcat DEF Serialisation
  <2>4. Begins(out', Serialisation)
    BY <1>5, <2>3 DEF Begins
  <2>5. Len(ClosingQuote) <= room /\ room' = room - Len(ClosingQuote)
    BY <1>1, <2>2
  <2>6. out \in Seq(Octets) /\ room \in Nat /\ out' = out \o ClosingQuote
    BY <1>1, <1>4
  <2>7. UNCHANGED << value, result >>
    BY <1>1
  <2> QED BY <2>2, <2>3, <2>4, <2>5, <2>6, <2>7, Writes
<1>7. Consecutive'
  BY <1>1, ConsecutiveSame DEF Carried
<1> QED BY <1>1, <1>5, <1>6, <1>7 DEF Carried

LEMMA CarriedReturnTrue ==
  ASSUME Typed, Carried, ReturnTrue
  PROVE  Carried' /\ WriterStep
<1>1. /\ phase = "complete" /\ room \in Nat /\ room' = -1 /\ phase' = "idle" /\ result' = "done"
      /\ out = Serialisation
      /\ UNCHANGED << value, codepoint, out >>
  BY DEF ReturnTrue, locator, Typed, Carried
<1>2. W!ReturnDone /\ Serialisation' = Serialisation
  BY <1>1, SerialisationSame DEF W!ReturnDone
<1>3. Consecutive'
  BY <1>1, ConsecutiveSame DEF Carried
<1> QED BY <1>1, <1>2, <1>3 DEF Carried, WriterStep, W!Next

LEMMA CarriedReturnFalse ==
  ASSUME Typed, Carried, ReturnFalse
  PROVE  Carried' /\ WriterStep
<1>1. /\ phase \in {"full", "quote"} /\ room = 0 /\ room' = -1 /\ phase' = "idle"
      /\ result' = "more" /\ result # "done"
      /\ UNCHANGED << value, position, sub_position, codepoint, out >>
  BY DEF ReturnFalse, DelimiterFits, locator, Typed, Carried
<1>2. Stands
  BY <1>1 DEF Carried
<1>3. Len(out) < Len(Serialisation)
  BY <1>2, StandsBefore
<1>4. W!ReturnMore
  BY <1>1, <1>3, SerialisationSame DEF W!ReturnMore
<1>5. Stands' /\ Consecutive'
  BY <1>1, <1>2, StandsSame, ConsecutiveSame DEF Carried
<1> QED BY <1>1, <1>4, <1>5 DEF Carried, WriterStep, W!Next

LEMMA CarriedUnchanged ==
  ASSUME Carried, UNCHANGED vars
  PROVE  Carried' /\ WriterStep
<1>1. UNCHANGED << value, position, sub_position, codepoint, next, pending, out, room, phase, result >>
  BY DEF vars, locator, loop
<1>2. Stands => Stands'
  BY <1>1, StandsSame
<1>3. Consecutive' /\ Serialisation' = Serialisation /\ Waiting' = Waiting
  BY <1>1, ConsecutiveSame, SerialisationSame DEF Carried, Waiting
<1> QED BY <1>1, <1>2, <1>3, Stutters DEF Carried

LEMMA CarriedStep ==
  ASSUME Typed, Aligned, Carried, [Next]_vars
  PROVE  Carried' /\ WriterStep
<1>1. ASSUME NEW r \in Rooms, Call(r) PROVE Carried' /\ WriterStep
  BY <1>1, CarriedCall
<1>2. ~StrayByte
  BY NoStray DEF StrayByte
<1>3. CASE Advance
  BY <1>2, <1>3, CarriedOpenQuote, CarriedEnterContent, CarriedBasicByte, CarriedSpecialByte,
     CarriedEndOfLoop, CarriedCloseQuote, CarriedReturnTrue, CarriedReturnFalse DEF Advance
<1>4. CASE UNCHANGED vars
  BY <1>4, CarriedUnchanged
<1> QED BY <1>1, <1>3, <1>4 DEF Next, Finished

-----------------------------------------------------------------------------
(* The invariant and the theorems.                                         *)

\* The strengthening: the types hold in every state, the rest as long as no leading byte
\* met the last byte of a buffer.
IInv == Typed /\ (~split => Aligned /\ Carried)

LEMMA StepSplit ==
  ASSUME split \in BOOLEAN, [Next]_vars
  PROVE  split' \in BOOLEAN /\ (split => split')
BY DEF Next, Advance, Finished, vars, Call, OpenQuote, EnterContent, BasicByte, SpecialByte,
       StrayByte, EndOfLoop, CloseQuote, ReturnTrue, ReturnFalse

LEMMA StepAligned ==
  ASSUME Typed, Aligned, [Next]_vars, ~split'
  PROVE  Aligned'
<1>1. split \in BOOLEAN
  BY DEF Typed
<1>2. ASSUME NEW r \in Rooms, Call(r) PROVE Aligned'
  BY <1>2, StepCall
<1>3. CASE StrayByte
  BY <1>3, NoStray DEF StrayByte
<1>4. CASE SpecialByte
  BY <1>1, <1>4, StepSpecialByte
<1>5. CASE Advance /\ ~StrayByte /\ ~SpecialByte
  BY <1>5, StepOpenQuote, StepEnterContent, StepBasicByte, StepEndOfLoop, StepCloseQuote,
     StepReturn DEF Advance
<1>6. CASE UNCHANGED vars
  <2>1. Looping => Looping'
    BY <1>6 DEF vars, locator, loop, Looping, Starts, Completes
  <2>2. Resting => Resting'
    BY <1>6 DEF vars, locator, loop, Resting, Starts, Completes
  <2> QED BY <1>6, <2>1, <2>2 DEF vars, locator, loop, Aligned, Collected
<1> QED BY <1>2, <1>3, <1>4, <1>5, <1>6 DEF Next, Advance, Finished

LEMMA StepIInv ==
  ASSUME IInv, [Next]_vars
  PROVE  IInv' /\ [W!Next \/ split']_(W!vars)
<1>1. Typed' /\ split' \in BOOLEAN /\ (split => split')
  BY StepTyped, StepSplit DEF IInv, Typed
<1>2. CASE split'
  BY <1>1, <1>2 DEF IInv
<1>3. CASE ~split'
  <2>1. Typed /\ Aligned /\ Carried
    BY <1>1, <1>3 DEF IInv
  <2>2. Aligned' /\ Carried' /\ WriterStep
    BY <1>3, <2>1, StepAligned, CarriedStep
  <2> QED BY <1>1, <2>2 DEF IInv, WriterStep
<1> QED BY <1>2, <1>3

LEMMA InitIInv ==
  ASSUME Init
  PROVE  IInv
<1>1. Resting /\ Stands /\ Consecutive
  BY DEF Init, Resting, Stands, Consecutive
<1>2. Aligned
  BY <1>1 DEF Init, Aligned, Collected, Phases
<1>3. Carried
  BY <1>1 DEF Init, Carried
<1> QED BY <1>2, <1>3, InitTyped DEF IInv

\* The invariant holds in every state.
THEOREM Inductive == Spec => []IInv
<1>1. Init => IInv
  BY InitIInv
<1>2. IInv /\ [Next]_vars => IInv'
  BY StepIInv
<1> QED BY <1>1, <1>2, PTL DEF Spec

\* Every variable keeps its type, also after a leading byte met the last byte of a
\* buffer: the position stays in the string, at most three bytes are kept and eleven
\* are written of a character that is not complete.
THEOREM TypeCorrect == Spec => []TypeOK
<1>1. IInv => TypeOK
  <2> SUFFICES ASSUME Typed PROVE TypeOK
    BY DEF IInv
  <2>1. sub_position \in 0 .. 11
    <3>1. codepoint # << >> => codepoint[1] \in 1 .. Len(value) /\ value[codepoint[1]] \in Leads
      BY DEF Typed, Located, Kept
    <3> QED BY <3>1, WidthOfKind DEF Typed, Partial
  <2>2. Len(codepoint) \in 0 .. 3
    <3>1. CASE codepoint = << >>
      BY <3>1
    <3>2. CASE codepoint # << >>
      <4>1. value[codepoint[1]] \in Kinds /\ Len(codepoint) < Bytes(value[codepoint[1]])
        BY <3>2, KindsOfValue DEF Typed, Located, Kept
      <4>2. Bytes(value[codepoint[1]]) \in 1 .. 4 /\ Len(codepoint) \in Nat
        BY <4>1, BytesOfKind DEF Typed, Located
      <4> QED BY <4>1, <4>2, FewerThanBytes
    <3> QED BY <3>1, <3>2
  <2>3. codepoint \in BoundedSeq(1 .. Len(value), 3)
    <3>1. codepoint \in [1 .. Len(codepoint) -> 1 .. Len(value)]
      BY DEF Typed, Located
    <3> QED BY <2>2, <3>1 DEF BoundedSeq, SeqOf
  <2> QED BY <2>1, <2>3 DEF Typed, Located, TypeOK
<1> QED BY <1>1, Inductive, PTL

\* The assertion in char_to_tmp holds for every UTF-8 string and all buffers, unless a
\* buffer had a single byte left for a leading byte.
THEOREM NoAbort == Spec => []NeverAborts
<1>1. IInv => NeverAborts
  BY DEF IInv, Aligned, NeverAborts
<1> QED BY <1>1, Inductive, PTL

\* When string() has returned false, the locator alone tells how much was written: the
\* text before the character it stands at and sub_position bytes of that one's.
THEOREM HowFar == Spec => []LocatorTellsHowFar
<1>1. IInv => LocatorTellsHowFar
  <2> SUFFICES ASSUME Typed, Carried, phase = "idle", result = "more"
               PROVE  /\ position = 0 <=> out = << >>
                      /\ position > 0 => Len(out) = Len(TextUpTo(value)[First - 1]) + sub_position
    BY DEF IInv, LocatorTellsHowFar, First, LeadAt
  <2>1. Stands /\ value \in Values /\ sub_position \in Nat /\ position \in Nat
    BY KindsOfValue DEF Carried, Typed, Located
  <2>2. CASE position = 0
    BY <2>1, <2>2 DEF Stands
  <2>3. CASE position > 0
    <3>1. out = TextUpTo(value)[First - 1] \o Begun(value, First, sub_position)
      BY <2>1, <2>3 DEF Stands
    <3>2. /\ Len(out) = Len(TextUpTo(value)[First - 1]) + sub_position
          /\ Len(out) > 0
      BY <2>1, <2>3, <3>1, FirstTyped, Standing
    <3>3. out # << >>
      BY <3>2
    <3> QED BY <2>3, <3>2, <3>3
  <2> QED BY <2>1, <2>2, <2>3
<1> QED BY <1>1, Inductive, PTL

\* Until a leading byte meets the last byte of a buffer, string() writes the
\* serialisation of its string once and in order, returns false only with a full
\* buffer and text left, and true only when all of it is written.
THEOREM WritesInOrder == Spec => IsWriterUnlessSplit
<1>1. Init => IInv /\ W!Init
  BY InitIInv DEF Init, W!Init
<1>2. IInv /\ [Next]_vars => IInv' /\ [W!Next \/ split']_(W!vars)
  BY StepIInv
<1> QED BY <1>1, <1>2, PTL DEF Spec, IsWriterUnlessSplit
=============================================================================
