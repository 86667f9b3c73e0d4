---------------------------- MODULE ParserProofs ----------------------------
(***************************************************************************)
(* Proofs about ParserBits: whatever the characters, the cuts into calls   *)
(* and the answers of the handlers, the stack of consumers keeps its shape *)
(* and complete_without_error() tells exactly when a document is complete. *)
(* In the second part, what is kept beside the stack: the types of all     *)
(* variables, the number and the code point collected, the flag of an      *)
(* escape and the view of a text.  In the third, that the handlers are     *)
(* called as SaxProtocol promises them to be.  In the last, that the       *)
(* parser acts as its drivers take it for granted.                         *)
(***************************************************************************)
EXTENDS ParserBits, SequenceTheorems, TLAPS

-----------------------------------------------------------------------------
(* The inductive invariant.                                                *)

CallRecord == [handler : Handlers, ok : BOOLEAN]

\* A path of consumers that starts at consume_initial_.
Path(stack) ==
  /\ stack \in Seq(Consumers) /\ Len(stack) >= 1
  /\ stack[1] = "initial"
  /\ \A i \in 2 .. Len(stack) : Fits(stack[i - 1], stack[i])

\* end_ is set exactly when a document is begun and nothing of it is open.
EndMatches(stack, ends, begin) ==
  /\ ends \in BOOLEAN
  /\ begin => Len(stack) < 2
  /\ ends <=> Len(stack) < 2 /\ ~begin

\* What a handler works on, in a parser without error.
Sound(s, begin) ==
  /\ s = [stack |-> s.stack, end |-> s.end, calls |-> s.calls]
  /\ Path(s.stack)
  /\ EndMatches(s.stack, s.end, begin)

\* The parser is in error, or its stack is a path.
Control ==
  /\ begin_ \in BOOLEAN /\ error_ \in BOOLEAN /\ ended \in BOOLEAN
  /\ \/ consumer_stack_ = << "inerror" >> /\ error_
     \/ /\ Path(consumer_stack_)
        /\ ~ended => ~error_ /\ EndMatches(consumer_stack_, end_, begin_)
        /\ begin_ => Len(consumer_stack_) < 2
        /\ ended /\ ~error_ => Len(consumer_stack_) < 2 /\ ~begin_ /\ end_

-----------------------------------------------------------------------------
(* The operations on the stack keep it a path.                             *)

LEMMA LastOfPath ==
  ASSUME NEW stack, Path(stack)
  PROVE  /\ Last(stack) = stack[Len(stack)]
         /\ Last(stack) \in Consumers
         /\ Len(stack) > 1 => Fits(stack[Len(stack) - 1], Last(stack))
         /\ Len(stack) = 1 <=> Last(stack) = "initial"
<1>1. Last(stack) = stack[Len(stack)]
  BY DEF Last
<1>2. Last(stack) \in Consumers
  BY <1>1 DEF Path
<1>3. Len(stack) > 1 => Fits(stack[Len(stack) - 1], Last(stack))
  BY <1>1 DEF Path
<1>4. Len(stack) = 1 => Last(stack) = "initial"
  BY <1>1 DEF Path
<1>5. ASSUME Len(stack) > 1 PROVE Last(stack) # "initial"
  BY <1>3, <1>5 DEF Fits, Containers, Literals, Numbers, Escapes
<1>6. Len(stack) \in Nat /\ Len(stack) >= 1
  BY DEF Path
<1>7. Len(stack) = 1 <=> Last(stack) = "initial"
  BY <1>4, <1>5, <1>6
<1> QED BY <1>1, <1>2, <1>3, <1>7

LEMMA PushPath ==
  ASSUME NEW stack, Path(stack), NEW f \in Consumers, Fits(Last(stack), f)
  PROVE  /\ Path(Append(stack, f))
         /\ Len(Append(stack, f)) = Len(stack) + 1
         /\ Last(Append(stack, f)) = f
<1>1. Len(stack) \in Nat /\ Append(stack, f) \in Seq(Consumers)
  BY DEF Path
<1>2. Len(Append(stack, f)) = Len(stack) + 1
  BY DEF Path
<1>3. \A i \in 1 .. Len(stack) : Append(stack, f)[i] = stack[i]
  BY DEF Path
<1>4. Append(stack, f)[Len(stack) + 1] = f
  BY DEF Path
<1>5. ASSUME NEW i \in 2 .. Len(stack) + 1
      PROVE  Fits(Append(stack, f)[i - 1], Append(stack, f)[i])
  <2>1. CASE i \in 2 .. Len(stack)
    BY <1>1, <1>3, <2>1 DEF Path
  <2>2. CASE i = Len(stack) + 1
    BY <1>1, <1>3, <1>4, <2>2, LastOfPath DEF Path
  <2> QED BY <1>1, <2>1, <2>2
<1> QED BY <1>1, <1>2, <1>3, <1>4, <1>5 DEF Path, Last

LEMMA FrontPath ==
  ASSUME NEW stack, Path(stack), Len(stack) > 1
  PROVE  Path(Front(stack)) /\ Len(Front(stack)) = Len(stack) - 1
           /\ Last(Front(stack)) = stack[Len(stack) - 1]
<1>1. Front(stack) = SubSeq(stack, 1, Len(stack) - 1)
  BY DEF Front
<1>2. Front(stack) \in Seq(Consumers) /\ Len(Front(stack)) = Len(stack) - 1
  BY <1>1 DEF Path
<1>3. \A i \in 1 .. Len(stack) - 1 : Front(stack)[i] = stack[i]
  BY <1>1 DEF Path
<1> QED BY <1>1, <1>2, <1>3 DEF Path, Last

\* Two consumers that stand for the same part of the grammar.
SamePlace(f, g) ==
  \/ f \in Containers /\ g \in Containers
  \/ f \in Literals \cup Numbers /\ g \in Literals \cup Numbers
  \/ f \in Escapes /\ g \in Escapes

LEMMA BecomePath ==
  ASSUME NEW stack, Path(stack), NEW g \in Consumers, SamePlace(Last(stack), g),
         NEW new, new = [stack EXCEPT ![Len(stack)] = g]
  PROVE  Path(new) /\ Len(new) = Len(stack) /\ Last(new) = g
<1>1. new \in Seq(Consumers) /\ Len(new) = Len(stack) /\ new[Len(stack)] = g
  BY DEF Path
<1>2. \A i \in 1 .. Len(stack) - 1 : new[i] = stack[i]
  BY DEF Path
<1>3. Len(stack) > 1
  BY LastOfPath DEF SamePlace, Containers, Literals, Numbers, Escapes, Path
<1>4. Fits(stack[Len(stack) - 1], g)
  BY <1>3, LastOfPath DEF Fits, SamePlace, Containers, Literals, Numbers, Escapes
<1>5. Len(stack) \in Nat
  BY DEF Path
<1>6. ASSUME NEW i \in 2 .. Len(stack) PROVE Fits(new[i - 1], new[i])
  <2>1. CASE i = Len(stack)
    <3>1. Len(stack) - 1 \in 1 .. Len(stack) - 1
      BY <1>3, <1>5
    <3>2. new[Len(stack) - 1] = stack[Len(stack) - 1]
      BY <1>2, <3>1
    <3> QED BY <1>1, <1>4, <2>1, <3>2
  <2>2. CASE i # Len(stack)
    <3>1. new[i] = stack[i] /\ new[i - 1] = stack[i - 1]
      BY <1>1, <1>2, <1>5, <2>2
    <3> QED BY <3>1 DEF Path
  <2> QED BY <2>1, <2>2
<1>7. new[1] = "initial"
  BY <1>2, <1>3, <1>5 DEF Path
<1> QED BY <1>1, <1>3, <1>5, <1>6, <1>7 DEF Path, Last

-----------------------------------------------------------------------------
(* The same for what a handler works on.                                   *)

LEMMA SoundPush ==
  ASSUME NEW s, NEW b \in BOOLEAN, Sound(s, b), b \/ Len(s.stack) > 1,
         NEW f \in Consumers, Fits(Last(s.stack), f)
  PROVE  Sound(Push(s, f), FALSE)
<1>1. Push(s, f) = [stack |-> Append(s.stack, f), end |-> s.end, calls |-> s.calls]
  BY DEF Sound, Push
<1>2. Path(Append(s.stack, f)) /\ Len(Append(s.stack, f)) = Len(s.stack) + 1
  BY PushPath DEF Sound
<1>3. s.end = FALSE /\ Len(s.stack) \in Nat /\ Len(s.stack) >= 1
  BY DEF Sound, EndMatches, Path
<1> QED BY <1>1, <1>2, <1>3 DEF Sound, EndMatches

LEMMA SoundBecome ==
  ASSUME NEW s, NEW b \in BOOLEAN, Sound(s, b),
         NEW f \in Consumers, SamePlace(Last(s.stack), f)
  PROVE  /\ Sound(Become(s, f), b) /\ b = FALSE
         /\ Len(Become(s, f).stack) > 1 /\ Last(Become(s, f).stack) = f
<1> DEFINE new == [s.stack EXCEPT ![Len(s.stack)] = f]
<1>1. Become(s, f) = [stack |-> new, end |-> s.end, calls |-> s.calls]
  BY DEF Sound, Become
<1>2. Path(new) /\ Len(new) = Len(s.stack) /\ Last(new) = f
  BY BecomePath DEF Sound
<1>3. Last(s.stack) # "initial"
  BY DEF SamePlace, Containers, Literals, Numbers, Escapes
<1>4. Len(s.stack) > 1
  BY <1>3, LastOfPath DEF Sound, Path
<1>5. ~b
  <2>1. EndMatches(s.stack, s.end, b)
    BY DEF Sound
  <2>2. Len(s.stack) \in Nat
    BY DEF Sound, Path
  <2>3. ~(Len(s.stack) < 2)
    BY <1>4, <2>2
  <2> QED BY <2>1, <2>3 DEF EndMatches
<1> HIDE DEF new
<1>6. Sound(Become(s, f), b)
  BY <1>1, <1>2 DEF Sound, EndMatches
<1>7. Become(s, f).stack = new
  BY <1>1
<1> QED BY <1>2, <1>4, <1>5, <1>6, <1>7

LEMMA SoundPop ==
  ASSUME NEW s, NEW b \in BOOLEAN, Sound(s, b), Len(s.stack) > 1
  PROVE  /\ Sound(pop_state(s), b) /\ b = FALSE
         /\ Last(pop_state(s).stack) = s.stack[Len(s.stack) - 1]
<1> DEFINE ends == s.end \/ Len(s.stack) = 2
<1>1. ~b /\ ~s.end
  <2>1. EndMatches(s.stack, s.end, b)
    BY DEF Sound
  <2>2. Len(s.stack) \in Nat
    BY DEF Sound, Path
  <2>3. ~(Len(s.stack) < 2)
    BY <2>2
  <2> QED BY <2>1, <2>3 DEF EndMatches
<1>2. ends \in BOOLEAN /\ (ends <=> Len(s.stack) = 2)
  BY <1>1
<1>3. pop_state(s) = [s EXCEPT !.stack = Front(s.stack), !.end = ends]
  BY DEF pop_state
<1> HIDE DEF ends
<1>4. pop_state(s) = [stack |-> Front(s.stack), end |-> ends, calls |-> s.calls]
  BY <1>3 DEF Sound
<1>5. /\ Path(Front(s.stack)) /\ Len(Front(s.stack)) = Len(s.stack) - 1
      /\ Last(Front(s.stack)) = s.stack[Len(s.stack) - 1]
  BY FrontPath DEF Sound
<1>6. Len(s.stack) \in Nat
  BY DEF Sound, Path
<1>7. EndMatches(Front(s.stack), ends, b)
  <2> DEFINE n == Len(s.stack)
  <2>1. n \in Nat /\ n > 1 /\ Len(Front(s.stack)) = n - 1
    BY <1>5, <1>6
  <2> HIDE DEF n
  <2>2. Len(Front(s.stack)) < 2 <=> n = 2
    BY <2>1
  <2>3. Len(Front(s.stack)) < 2 <=> Len(s.stack) = 2
    BY <2>2 DEF n
  <2> QED BY <1>1, <1>2, <2>3 DEF EndMatches
<1>8. Sound(pop_state(s), b)
  BY <1>4, <1>5, <1>7 DEF Sound
<1>9. pop_state(s).stack = Front(s.stack)
  BY <1>4
<1> QED BY <1>1, <1>5, <1>8, <1>9

LEMMA SoundPopBack ==
  ASSUME NEW s, NEW b \in BOOLEAN, Sound(s, b), Last(s.stack) \in Escapes
  PROVE  Sound(PopBack(s), b)
<1>1. PopBack(s) = [stack |-> Front(s.stack), end |-> s.end, calls |-> s.calls]
  BY DEF Sound, PopBack
<1>2. Len(s.stack) > 1 /\ Len(s.stack) \in Nat
  BY LastOfPath DEF Sound, Path, Escapes
<1>3. /\ Path(Front(s.stack)) /\ Len(Front(s.stack)) = Len(s.stack) - 1
      /\ Last(Front(s.stack)) = s.stack[Len(s.stack) - 1]
  BY <1>2, FrontPath DEF Sound
<1>4. Fits(Last(Front(s.stack)), Last(s.stack))
  BY <1>2, <1>3, LastOfPath DEF Sound
<1>5. Last(Front(s.stack)) # "initial"
  BY <1>4 DEF Fits, Containers, Literals, Numbers, Escapes
<1>6. ~(Len(Front(s.stack)) < 2)
  BY <1>3, <1>5, LastOfPath DEF Path
<1>7. EndMatches(s.stack, s.end, b)
  BY DEF Sound
<1>8. ~(Len(s.stack) < 2)
  BY <1>2
<1>9. EndMatches(Front(s.stack), s.end, b)
  BY <1>6, <1>7, <1>8 DEF EndMatches
<1> QED BY <1>1, <1>3, <1>9 DEF Sound

LEMMA SoundCalled ==
  ASSUME NEW s, NEW b \in BOOLEAN, Sound(s, b), NEW h, NEW ok
  PROVE  Sound(Called(s, h, ok), b) /\ Called(s, h, ok).stack = s.stack
<1> DEFINE cs == Append(s.calls, [handler |-> h, ok |-> ok])
<1>1. Called(s, h, ok) = [s EXCEPT !.calls = cs]
  BY DEF Called
<1> HIDE DEF cs
<1>2. Called(s, h, ok) = [stack |-> s.stack, end |-> s.end, calls |-> cs]
  BY <1>1 DEF Sound
<1> QED BY <1>2 DEF Sound

-----------------------------------------------------------------------------
(* What every handler ends in.                                             *)

\* A character is read: the parser was not in error and end() was not called.
Reading == ~error_ /\ ended = FALSE /\ ended' = FALSE /\ begin_' \in BOOLEAN

LEMMA ReturnControl ==
  ASSUME Reading, NEW s, Sound(s, begin_'), NEW ok, Return(s, ok), error_ \in BOOLEAN
  PROVE  Control'
<1>1. /\ consumer_stack_' = s.stack /\ end_' = s.end /\ error_' = error_
      /\ ended' = FALSE /\ begin_' \in BOOLEAN /\ ~error_
  BY DEF Reading, Return, Leave
<1>2. Path(s.stack) /\ EndMatches(s.stack, s.end, begin_')
  BY DEF Sound
<1>3. Path(consumer_stack_') /\ EndMatches(consumer_stack_', end_', begin_')
  BY <1>1, <1>2
<1>4. begin_' => Len(consumer_stack_') < 2
  BY <1>3 DEF EndMatches
<1> QED BY <1>1, <1>3, <1>4 DEF Control

LEMMA ErrorControl ==
  ASSUME Reading, NEW s, make_error(s)
  PROVE  Control'
BY DEF Reading, make_error, Control

LEMMA CallOnlyControl ==
  ASSUME Reading, error_ \in BOOLEAN, NEW s, Sound(s, begin_'), NEW h, CallOnly(s, h)
  PROVE  Control'
<1>1. PICK ok \in Answers(h) : Return(Called(s, h, ok), ok)
  BY DEF CallOnly
<1>2. begin_' \in BOOLEAN
  BY DEF Reading
<1>3. Sound(Called(s, h, ok), begin_')
  BY <1>2, SoundCalled
<1> QED BY <1>1, <1>3, ReturnControl

LEMMA CallOrErrorControl ==
  ASSUME Reading, error_ \in BOOLEAN, NEW s, Sound(s, begin_'), NEW h, CallOrError(s, h)
  PROVE  Control'
<1>1. CASE Return(Called(s, h, TRUE), TRUE)
  <2>1. Sound(Called(s, h, TRUE), begin_')
    BY SoundCalled DEF Reading
  <2> QED BY <1>1, <2>1, ReturnControl
<1>2. CASE make_error(Called(s, h, FALSE))
  BY <1>2, ErrorControl
<1> QED BY <1>1, <1>2 DEF CallOrError

LEMMA CallOrLateErrorControl ==
  ASSUME Reading, error_ \in BOOLEAN, NEW s, Sound(s, begin_'), NEW h,
         CallOrLateError(s, h)
  PROVE  Control'
<1>1. CASE Return(Called(s, h, TRUE), TRUE)
  <2>1. Sound(Called(s, h, TRUE), begin_')
    BY SoundCalled DEF Reading
  <2> QED BY <1>1, <2>1, ReturnControl
<1>2. CASE consumer_stack_' = << "inerror" >> /\ error_' = TRUE
  BY <1>2 DEF Reading, Control
<1> QED BY <1>1, <1>2 DEF CallOrLateError

-----------------------------------------------------------------------------
(* One lemma for each kind of consumer.                                    *)

\* A consumer works on s.
Stepping(s) == Reading /\ error_ \in BOOLEAN /\ begin_ \in BOOLEAN /\ Sound(s, begin_)

LEMMA StayControl ==
  ASSUME NEW s, Stepping(s), begin_' = begin_, NEW ok, Return(s, ok)
  PROVE  Control'
<1>1. Sound(s, begin_')
  BY DEF Stepping
<1> QED BY <1>1, ReturnControl DEF Stepping

LEMMA BecomeControl ==
  ASSUME NEW s, Stepping(s), begin_' = begin_, NEW f \in Consumers,
         SamePlace(Last(s.stack), f), NEW ok, Return(Become(s, f), ok)
  PROVE  Control'
<1>1. Sound(Become(s, f), begin_')
  BY SoundBecome DEF Stepping
<1> QED BY <1>1, ReturnControl DEF Stepping

LEMMA CloseControl ==
  ASSUME NEW s, Stepping(s), begin_' = begin_, Last(s.stack) # "initial", NEW h,
         CallOrError(pop_state(s), h)
  PROVE  Control'
<1>1. Len(s.stack) > 1
  BY LastOfPath DEF Stepping, Sound, Path
<1>2. Sound(pop_state(s), begin_')
  BY <1>1, SoundPop DEF Stepping
<1> QED BY <1>2, CallOrErrorControl DEF Stepping

\* The consumers below which a value begins.
LEMMA SoundValue ==
  ASSUME NEW s, Stepping(s), begin_' = begin_, Last(s.stack) \in {"array", "objectvalue"},
         NEW f \in Containers \cup {"string"} \cup Literals \cup Numbers
  PROVE  Sound(Push(s, f), begin_')
<1>1. Len(s.stack) > 1
  BY LastOfPath DEF Stepping, Sound, Path
<1>2. f \in Consumers /\ Fits(Last(s.stack), f)
  BY DEF Fits, Consumers, Containers
<1>3. Sound(Push(s, f), FALSE)
  BY <1>1, <1>2, SoundPush DEF Stepping
<1>4. begin_' = FALSE
  <2>1. Len(s.stack) \in Nat /\ EndMatches(s.stack, s.end, begin_)
    BY DEF Stepping, Sound, Path
  <2>2. ~(Len(s.stack) < 2)
    BY <1>1, <2>1
  <2> QED BY <2>1, <2>2 DEF EndMatches, Stepping
<1> QED BY <1>3, <1>4

LEMMA StartItemControl ==
  ASSUME NEW s, Stepping(s), NEW c, Last(s.stack) \in {"array", "objectvalue"},
         StartItem(s, c)
  PROVE  Control'
<1>1. ItemStart(c) \in Literals \cup Numbers
  BY DEF StartItem, ItemStart, CallFree, Literals, Numbers, Digits19
<1>2. begin_' = begin_ /\ Return(Push(s, ItemStart(c)), TRUE)
  BY DEF StartItem
<1>3. Sound(Push(s, ItemStart(c)), begin_')
  BY <1>1, <1>2, SoundValue
<1> QED BY <1>2, <1>3, ReturnControl DEF Stepping

LEMMA ItemBeginControl ==
  ASSUME NEW s, Stepping(s), NEW c, Last(s.stack) = "array", consume_array_itembegin_(s, c)
  PROVE  Control'
<1>1. CASE CallOrError(Push(s, "string"), "begin_string") /\ Structural
  BY <1>1, SoundValue, CallOrErrorControl DEF Stepping, Structural
<1>2. CASE CallOrLateError(Push(s, "objectstart"), "begin_object") /\ Structural
  BY <1>2, SoundValue, CallOrLateErrorControl DEF Stepping, Structural, Containers
<1>3. CASE CallOrLateError(Push(s, "arraystart"), "begin_array") /\ Structural
  BY <1>3, SoundValue, CallOrLateErrorControl DEF Stepping, Structural, Containers
<1>4. CASE StartItem(s, c)
  BY <1>4, StartItemControl
<1>5. CASE make_error(s)
  BY <1>5, ErrorControl DEF Stepping
<1> QED BY <1>1, <1>2, <1>3, <1>4, <1>5 DEF consume_array_itembegin_

LEMMA ArrayControl ==
  ASSUME NEW s, Stepping(s), NEW c, Last(s.stack) = "array", consume_array_(s, c)
  PROVE  Control'
<1>1. begin_' = begin_
  BY DEF consume_array_, Structural
<1>2. CASE Return(s, TRUE)
  BY <1>1, <1>2, StayControl
<1>3. CASE CallOrError(pop_state(s), "end_array")
  BY <1>1, <1>3, CloseControl
<1>4. CASE Return(Become(s, "arrayseparator"), TRUE)
  BY <1>1, <1>4, BecomeControl DEF SamePlace, Containers, Consumers
<1>5. CASE make_error(s)
  BY <1>5, ErrorControl DEF Stepping
<1> QED BY <1>2, <1>3, <1>4, <1>5 DEF consume_array_

LEMMA ObjectValueControl ==
  ASSUME NEW s, Stepping(s), NEW c, Last(s.stack) = "objectvalue",
         consume_objectvalue_(s, c)
  PROVE  Control'
<1>1. begin_' = begin_
  BY DEF consume_objectvalue_, Structural
<1>2. CASE Return(s, TRUE)
  BY <1>1, <1>2, StayControl
<1>3. CASE CallOrError(pop_state(s), "end_object")
  BY <1>1, <1>3, CloseControl
<1>4. CASE Return(Become(s, "objectbetween"), TRUE)
  BY <1>1, <1>4, BecomeControl DEF SamePlace, Containers, Consumers
<1>5. CASE make_error(s)
  BY <1>5, ErrorControl DEF Stepping
<1> QED BY <1>2, <1>3, <1>4, <1>5 DEF consume_objectvalue_

LEMMA BecomeStepping ==
  ASSUME NEW s, Stepping(s), NEW f \in Consumers, SamePlace(Last(s.stack), f)
  PROVE  Stepping(Become(s, f)) /\ Last(Become(s, f).stack) = f
BY SoundBecome DEF Stepping

LEMMA ArrayStartControl ==
  ASSUME NEW s, Stepping(s), NEW c, Last(s.stack) \in {"arraystart", "arrayseparator"},
         consume_arraystart_(s, c) \/ consume_arrayseparator_(s, c)
  PROVE  Control'
<1>1. CASE Return(s, TRUE) /\ Structural
  BY <1>1, StayControl DEF Structural
<1>2. CASE CallOrError(pop_state(s), "end_array") /\ Structural
  BY <1>2, CloseControl DEF Structural
<1>3. CASE consume_array_itembegin_(Become(s, "array"), c)
  <2>1. Stepping(Become(s, "array")) /\ Last(Become(s, "array").stack) = "array"
    BY BecomeStepping DEF SamePlace, Containers, Consumers
  <2> QED BY <1>3, <2>1, ItemBeginControl
<1> QED BY <1>1, <1>2, <1>3 DEF consume_arraystart_, consume_arrayseparator_

LEMMA KeyControl ==
  ASSUME NEW s, Stepping(s), NEW c, Last(s.stack) \in {"objectstart", "objectbetween"},
         consume_objectstart_(s, c) \/ consume_objectbetween_(s, c)
  PROVE  Control'
<1>1. begin_' = begin_
  BY DEF consume_objectstart_, consume_objectbetween_, Structural
<1>2. CASE Return(s, TRUE)
  BY <1>1, <1>2, StayControl
<1>3. CASE CallOrError(pop_state(s), "end_object")
  BY <1>1, <1>3, CloseControl
<1>4. CASE CallOnly(Push(Become(s, "objectkey"), "stringkey"), "begin_key")
  <2>1. SamePlace(Last(s.stack), "objectkey") /\ "objectkey" \in Consumers
    BY DEF SamePlace, Containers, Consumers
  <2>2. /\ Sound(Become(s, "objectkey"), begin_) /\ begin_ = FALSE
        /\ Len(Become(s, "objectkey").stack) > 1
        /\ Last(Become(s, "objectkey").stack) = "objectkey"
    BY <2>1, SoundBecome DEF Stepping
  <2>3. Fits("objectkey", "stringkey") /\ "stringkey" \in Consumers
    BY DEF Fits, Consumers
  <2>4. Sound(Push(Become(s, "objectkey"), "stringkey"), FALSE)
    BY <2>2, <2>3, SoundPush DEF Stepping
  <2> QED BY <1>1, <1>4, <2>2, <2>4, CallOnlyControl DEF Stepping
<1>5. CASE make_error(s)
  BY <1>5, ErrorControl DEF Stepping
<1> QED BY <1>2, <1>3, <1>4, <1>5 DEF consume_objectstart_, consume_objectbetween_

LEMMA ObjectKeyControl ==
  ASSUME NEW s, Stepping(s), NEW c, Last(s.stack) = "objectkey", consume_objectkey_(s, c)
  PROVE  Control'
<1>1. begin_' = begin_
  BY DEF consume_objectkey_, Structural
<1>2. CASE Return(s, TRUE)
  BY <1>1, <1>2, StayControl
<1>3. CASE Return(Become(s, "objectseparator"), TRUE)
  BY <1>1, <1>3, BecomeControl DEF SamePlace, Containers, Consumers
<1>4. CASE make_error(s)
  BY <1>4, ErrorControl DEF Stepping
<1> QED BY <1>2, <1>3, <1>4 DEF consume_objectkey_

LEMMA ObjectSeparatorControl ==
  ASSUME NEW s, Stepping(s), NEW c, Last(s.stack) = "objectseparator",
         consume_objectseparator_(s, c)
  PROVE  Control'
<1> DEFINE v == Become(s, "objectvalue")
<1>1. Stepping(v) /\ Last(v.stack) = "objectvalue"
  BY BecomeStepping DEF SamePlace, Containers, Consumers
<1>2. \/ Return(s, TRUE) /\ Structural
      \/ CallOnly(Push(v, "string"), "begin_string") /\ Structural
      \/ CallOrError(Push(v, "objectstart"), "begin_object") /\ Structural
      \/ CallOrError(Push(v, "arraystart"), "begin_array") /\ Structural
      \/ StartItem(v, c)
      \/ make_error(s)
  BY DEF consume_objectseparator_
<1> HIDE DEF v
<1>3. CASE Return(s, TRUE) /\ Structural
  BY <1>3, StayControl DEF Structural
<1>4. CASE CallOnly(Push(v, "string"), "begin_string") /\ Structural
  BY <1>1, <1>4, SoundValue, CallOnlyControl DEF Stepping, Structural
<1>5. CASE CallOrError(Push(v, "objectstart"), "begin_object") /\ Structural
  BY <1>1, <1>5, SoundValue, CallOrErrorControl DEF Stepping, Structural, Containers
<1>6. CASE CallOrError(Push(v, "arraystart"), "begin_array") /\ Structural
  BY <1>1, <1>6, SoundValue, CallOrErrorControl DEF Stepping, Structural, Containers
<1>7. CASE StartItem(v, c)
  BY <1>1, <1>7, StartItemControl
<1>8. CASE make_error(s)
  BY <1>8, ErrorControl DEF Stepping
<1> QED BY <1>2, <1>3, <1>4, <1>5, <1>6, <1>7, <1>8

LEMMA LiteralControl ==
  ASSUME NEW s, Stepping(s), NEW c, Last(s.stack) \in Literals, consume_literal_(s, c)
  PROVE  Control'
<1> DEFINE f == Last(s.stack)
<1>1. begin_' = begin_
  BY DEF consume_literal_, Structural
<1>2. CASE f \in DOMAIN LiteralArcs /\ Return(Become(s, LiteralArcs[f][2]), TRUE)
  <2>1. LiteralArcs[f][2] \in Literals
    BY <1>2 DEF LiteralArcs, Literals
  <2>2. SamePlace(f, LiteralArcs[f][2]) /\ LiteralArcs[f][2] \in Consumers
    BY <2>1 DEF SamePlace, Consumers
  <2> QED BY <1>1, <1>2, <2>2, BecomeControl
<1>3. CASE f \in DOMAIN LiteralEnds /\ CallOrError(pop_state(s), LiteralEnds[f][2])
  BY <1>1, <1>3, CloseControl DEF Literals
<1>4. CASE make_error(s)
  BY <1>4, ErrorControl DEF Stepping
<1> QED BY <1>2, <1>3, <1>4 DEF consume_literal_

LEMMA EndNumberControl ==
  ASSUME NEW s, Stepping(s), NEW c, Last(s.stack) \in Numbers, EndNumber(s, c)
  PROVE  Control'
<1>1. Len(s.stack) > 1
  BY LastOfPath DEF Stepping, Sound, Path, Numbers
<1>2. Sound(pop_state(s), begin_)
  BY <1>1, SoundPop DEF Stepping
<1>3. \A ok : Sound(Called(pop_state(s), "double", ok), begin_)
  BY <1>2, SoundCalled DEF Stepping
<1>4. CASE Reconsume(Called(pop_state(s), "double", TRUE), c)
  <2> DEFINE t == Called(pop_state(s), "double", TRUE)
  <2>1. Stepping(t)
    BY <1>3 DEF Stepping
  <2> HIDE DEF t
  <2>2. Reconsume(t, c)
    BY <1>4 DEF t
  <2> QED BY <2>1, <2>2, ArrayControl, ObjectValueControl DEF Reconsume
<1>5. CASE Return(Called(pop_state(s), "double", FALSE), FALSE) /\ Structural
  <2>1. Sound(Called(pop_state(s), "double", FALSE), begin_')
    BY <1>3, <1>5 DEF Structural
  <2> QED BY <1>5, <2>1, ReturnControl DEF Stepping
<1>6. CASE make_error(pop_state(s))
  BY <1>6, ErrorControl DEF Stepping
<1> QED BY <1>4, <1>5, <1>6 DEF EndNumber

LEMMA NumberControl ==
  ASSUME NEW s, Stepping(s), NEW c, Last(s.stack) \in Numbers,
         consume_number_(s, c) \/ consume_numberstarting0_(s, c)
  PROVE  Control'
<1>1. CASE AppendDigit(s, c)
  <2>1. begin_' = begin_ /\ Return(Become(s, "number"), TRUE)
    BY <1>1 DEF AppendDigit
  <2>2. SamePlace(Last(s.stack), "number") /\ "number" \in Consumers
    BY DEF SamePlace, Numbers, Consumers
  <2> QED BY <2>1, <2>2, BecomeControl
<1>2. CASE make_error(s)
  BY <1>2, ErrorControl DEF Stepping
<1>3. CASE EndNumber(s, c)
  BY <1>3, EndNumberControl
<1> QED BY <1>1, <1>2, <1>3 DEF consume_number_, consume_numberstarting0_

LEMMA SoundContent ==
  ASSUME NEW s, NEW b \in BOOLEAN, Sound(s, b), NEW h, NEW ok
  PROVE  Sound(ContentCalled(s, h, ok), b)
BY SoundCalled DEF ContentCalled

LEMMA TextControl ==
  ASSUME NEW s, Stepping(s), NEW c, Last(s.stack) \in {"string", "stringkey"},
         NEW content, NEW closing, consume_text_(s, c, content, closing)
  PROVE  Control'
<1>1. Len(s.stack) > 1
  BY LastOfPath DEF Stepping, Sound, Path
<1>2. CASE BeginEscape(s, content)
  <2>1. PICK ok : Return(ContentCalled(Push(s, "stringescape"), content, ok), ok)
    BY <1>2 DEF BeginEscape
  <2>2. Fits(Last(s.stack), "stringescape") /\ "stringescape" \in Consumers
    BY DEF Fits, Escapes, Consumers
  <2>3. Sound(Push(s, "stringescape"), FALSE)
    BY <1>1, <2>2, SoundPush DEF Stepping
  <2>4. begin_ = FALSE
    <3>1. Len(s.stack) \in Nat /\ EndMatches(s.stack, s.end, begin_)
      BY DEF Stepping, Sound, Path
    <3>2. ~(Len(s.stack) < 2)
      BY <1>1, <3>1
    <3> QED BY <3>1, <3>2 DEF EndMatches, Stepping
  <2>5. begin_' = FALSE
    BY <1>2, <2>4 DEF BeginEscape
  <2>6. Sound(ContentCalled(Push(s, "stringescape"), content, ok), begin_')
    BY <2>3, <2>5, SoundContent
  <2> QED BY <2>1, <2>6, ReturnControl DEF Stepping
<1>3. CASE CloseText(s, content, closing)
  <2>1. begin_' = begin_
    BY <1>3 DEF CloseText
  <2>2. Sound(ContentCalled(pop_state(s), content, TRUE), begin_')
    BY <1>1, <2>1, SoundPop, SoundContent DEF Stepping
  <2>3. CASE CallOrError(ContentCalled(pop_state(s), content, TRUE), closing)
    BY <2>2, <2>3, CallOrErrorControl DEF Stepping
  <2>4. CASE make_error(Called(pop_state(s), content, FALSE))
    BY <2>4, ErrorControl DEF Stepping
  <2> QED BY <1>3, <2>3, <2>4 DEF CloseText
<1>4. CASE make_error(s)
  BY <1>4, ErrorControl DEF Stepping
<1>5. CASE OrdinaryCharacter(s)
  BY <1>5, StayControl DEF OrdinaryCharacter
<1> QED BY <1>2, <1>3, <1>4, <1>5 DEF consume_text_

LEMMA LeaveEscapeControl ==
  ASSUME NEW s, Stepping(s), begin_' = begin_, Last(s.stack) \in Escapes, NEW h,
         CallOnly(PopBack(s), h)
  PROVE  Control'
<1>1. Sound(PopBack(s), begin_')
  BY SoundPopBack DEF Stepping
<1> QED BY <1>1, CallOnlyControl DEF Stepping

LEMMA EscapeControl ==
  ASSUME NEW s, Stepping(s), NEW c, Last(s.stack) \in Escapes,
         \/ consume_stringescape_(s, c)
         \/ consume_stringuvalue_(s, c)
         \/ consume_stringuvalue3_(s, c)
         \/ consume_stringuvalue4_(s, c)
         \/ consume_stringuvalue9_(s, c)
  PROVE  Control'
<1> DEFINE f == Last(s.stack)
<1>1. ASSUME NEW g \in Escapes, begin_' = begin_, Return(Become(s, g), TRUE)
      PROVE  Control'
  BY <1>1, BecomeControl DEF SamePlace, Consumers
<1>2. CASE consume_stringescape_(s, c)
  BY <1>1, <1>2, LeaveEscapeControl, ErrorControl
     DEF consume_stringescape_, Structural, Escapes, Stepping
<1>3. CASE consume_stringuvalue_(s, c)
  <2>1. f \in DOMAIN UnicodeArcs /\ UnicodeArcs[f][2] \in Escapes
    BY <1>3 DEF consume_stringuvalue_, UnicodeArcs, Escapes
  <2>2. CASE begin_' = begin_ /\ Return(Become(s, UnicodeArcs[f][2]), TRUE)
    BY <1>1, <2>1, <2>2
  <2>3. CASE make_error(s)
    BY <2>3, ErrorControl DEF Stepping
  <2> QED BY <1>3, <2>2, <2>3 DEF consume_stringuvalue_
<1>4. CASE consume_stringuvalue3_(s, c)
  <2>1. CASE begin_' = begin_ /\ Return(Become(s, "stringuvalue4"), TRUE)
    BY <1>1, <2>1 DEF Escapes
  <2>2. CASE begin_' = begin_ /\ CallOnly(PopBack(s), Content)
    BY <2>2, LeaveEscapeControl
  <2>3. CASE make_error(s)
    BY <2>3, ErrorControl DEF Stepping
  <2> QED BY <1>4, <2>1, <2>2, <2>3 DEF consume_stringuvalue3_
<1>5. CASE consume_stringuvalue4_(s, c)
  <2>1. begin_' = begin_ /\ f \in DOMAIN PairArcs /\ PairArcs[f][2] \in Escapes
    BY <1>5 DEF consume_stringuvalue4_, Structural, PairArcs, Escapes
  <2>2. CASE Return(Become(s, PairArcs[f][2]), TRUE)
    BY <1>1, <2>1, <2>2
  <2>3. CASE make_error(s)
    BY <2>3, ErrorControl DEF Stepping
  <2> QED BY <1>5, <2>2, <2>3 DEF consume_stringuvalue4_
<1>6. CASE consume_stringuvalue9_(s, c)
  <2>1. CASE begin_' = begin_ /\ CallOnly(PopBack(s), "string_content")
    BY <2>1, LeaveEscapeControl
  <2>2. CASE make_error(s) \/ make_error(PopBack(s))
    BY <2>2, ErrorControl DEF Stepping
  <2> QED BY <1>6, <2>1, <2>2 DEF consume_stringuvalue9_
<1> QED BY <1>2, <1>3, <1>4, <1>5, <1>6

LEMMA InitialControl ==
  ASSUME NEW s, Stepping(s), NEW c, Last(s.stack) = "initial", consume_initial_(s, c)
  PROVE  Control'
<1>1. ASSUME begin_, begin_' = FALSE, NEW f \in Containers \cup {"string"}
      PROVE  Sound(Push(s, f), begin_')
  <2>1. Fits(Last(s.stack), f) /\ f \in Consumers
    BY DEF Fits, Consumers, Containers
  <2> QED BY <1>1, <2>1, SoundPush DEF Stepping
<1>2. CASE begin_ /\ begin_' = FALSE /\ CallOrError(Push(s, "objectstart"), "begin_object")
  BY <1>1, <1>2, CallOrErrorControl DEF Stepping, Containers
<1>3. CASE begin_ /\ begin_' = FALSE /\ CallOrError(Push(s, "arraystart"), "begin_array")
  BY <1>1, <1>3, CallOrErrorControl DEF Stepping, Containers
<1>4. CASE begin_ /\ begin_' = FALSE /\ CallOrError(Push(s, "string"), "begin_string")
  BY <1>1, <1>4, CallOrErrorControl DEF Stepping
<1>5. CASE Return(s, TRUE) /\ Structural
  BY <1>5, StayControl DEF Structural
<1>6. CASE make_error(s)
  BY <1>6, ErrorControl DEF Stepping
<1> QED BY <1>2, <1>3, <1>4, <1>5, <1>6 DEF consume_initial_

-----------------------------------------------------------------------------
(* The steps of the parser.                                                *)

\* The invariant: no call is in progress once end() was called.
IInv == Control /\ (ended => call = "none")

LEMMA HereSound ==
  ASSUME Control, ~ended, ~error_
  PROVE  Sound(Here, begin_) /\ Here.stack = consumer_stack_
BY DEF Control, Sound, Here

LEMMA ReadControl ==
  ASSUME IInv, NEW c, Read(c)
  PROVE  Control'
<1>1. ~ended /\ ended \in BOOLEAN /\ ended' = ended /\ error_ \in BOOLEAN /\ begin_ \in BOOLEAN
  BY DEF IInv, Read, Control
<1>2. consume_(Here, c)
  BY DEF Read
<1>3. CASE error_
  <2>1. Last(Here.stack) = "inerror"
    BY <1>1, <1>3 DEF IInv, Control, Here, Last
  <2>2. consume_inerror_(Here, c)
    BY <1>2, <2>1 DEF consume_, Literals, UnicodeArcs, PairArcs
  <2>3. consumer_stack_' = consumer_stack_ /\ error_' = error_ /\ begin_' = begin_
    BY <2>2 DEF consume_inerror_, Return, Structural, Here
  <2> QED BY <1>1, <1>3, <2>3 DEF IInv, Control
<1>4. CASE ~error_
  <2> DEFINE s == Here
             f == Last(s.stack)
  <2>1. Sound(s, begin_)
    BY <1>1, <1>4, HereSound DEF IInv
  <2>2. begin_' \in BOOLEAN
    <3>1. begin_' = begin_ \/ begin_' = FALSE
      BY <1>2 DEF consume_, Structural, consume_initial_, consume_arraystart_,
           consume_arrayseparator_, consume_array_itembegin_, StartItem, consume_array_,
           consume_objectstart_, consume_objectbetween_, consume_objectkey_,
           consume_objectseparator_, consume_objectvalue_, consume_literal_,
           consume_number_, consume_numberstarting0_, AppendDigit, EndNumber, Reconsume,
           consume_string_, consume_stringkey_, consume_text_, BeginEscape, CloseText,
           OrdinaryCharacter, consume_stringescape_, consume_stringuvalue_,
           consume_stringuvalue3_, consume_stringuvalue4_, consume_stringuvalue9_,
           consume_inerror_
    <3> QED BY <1>1, <3>1
  <2>3. Stepping(s)
    BY <1>1, <1>4, <2>1, <2>2 DEF Stepping, Reading
  <2> HIDE DEF s
  <2>4. CASE f = "initial" /\ consume_initial_(s, c)
    BY <2>3, <2>4, InitialControl
  <2>5. CASE f = "arraystart" /\ consume_arraystart_(s, c)
    BY <2>3, <2>5, ArrayStartControl
  <2>6. CASE f = "array" /\ consume_array_(s, c)
    BY <2>3, <2>6, ArrayControl
  <2>7. CASE f = "arrayseparator" /\ consume_arrayseparator_(s, c)
    BY <2>3, <2>7, ArrayStartControl
  <2>8. CASE f = "objectstart" /\ consume_objectstart_(s, c)
    BY <2>3, <2>8, KeyControl
  <2>9. CASE f = "objectbetween" /\ consume_objectbetween_(s, c)
    BY <2>3, <2>9, KeyControl
  <2>10. CASE f = "objectkey" /\ consume_objectkey_(s, c)
    BY <2>3, <2>10, ObjectKeyControl
  <2>11. CASE f = "objectseparator" /\ consume_objectseparator_(s, c)
    BY <2>3, <2>11, ObjectSeparatorControl
  <2>12. CASE f = "objectvalue" /\ consume_objectvalue_(s, c)
    BY <2>3, <2>12, ObjectValueControl
  <2>13. CASE f \in Literals /\ consume_literal_(s, c)
    BY <2>3, <2>13, LiteralControl
  <2>14. CASE \/ f = "number" /\ consume_number_(s, c)
              \/ f = "numberstarting0" /\ consume_numberstarting0_(s, c)
    BY <2>3, <2>14, NumberControl DEF Numbers
  <2>15. CASE f = "string" /\ consume_string_(s, c)
    BY <2>3, <2>15, TextControl DEF consume_string_
  <2>16. CASE f = "stringkey" /\ consume_stringkey_(s, c)
    BY <2>3, <2>16, TextControl DEF consume_stringkey_
  <2>17. CASE \/ f = "stringescape" /\ consume_stringescape_(s, c)
              \/ f \in DOMAIN UnicodeArcs /\ consume_stringuvalue_(s, c)
              \/ f = "stringuvalue3" /\ consume_stringuvalue3_(s, c)
              \/ f \in DOMAIN PairArcs /\ consume_stringuvalue4_(s, c)
              \/ f = "stringuvalue9" /\ consume_stringuvalue9_(s, c)
    BY <2>3, <2>17, EscapeControl DEF Escapes, UnicodeArcs, PairArcs
  <2>18. CASE f = "inerror"
    <3>1. f \in {"initial"} \/ \E below \in Consumers : Fits(below, f)
      BY <2>1, LastOfPath DEF Sound, s, Path
    <3> QED BY <2>18, <3>1 DEF Fits, Containers, Literals, Numbers, Escapes
  <2> QED BY <1>2, <2>4, <2>5, <2>6, <2>7, <2>8, <2>9, <2>10, <2>11, <2>12, <2>13,
             <2>14, <2>15, <2>16, <2>17, <2>18 DEF consume_, s
<1> QED BY <1>1, <1>3, <1>4

\* A flush changes neither the stack nor the flags.
LEMMA FlushKeeps ==
  ASSUME Flush
  PROVE  UNCHANGED << consumer_stack_, begin_, end_, error_, ended >>
<1>1. ASSUME NEW content, FlushText(Here, content)
      PROVE  UNCHANGED << consumer_stack_, begin_, end_, error_ >>
  BY <1>1 DEF FlushText, ContentCalled, Called, Return, Leave, Here
<1>2. ASSUME NEW ok, Return(Here, ok), Structural
      PROVE  UNCHANGED << consumer_stack_, begin_, end_, error_ >>
  BY <1>2 DEF Return, Leave, Here, Structural
<1> QED BY <1>1, <1>2 DEF Flush, FlushConsumer

LEMMA InitInvariant == Init => IInv
<1> SUFFICES ASSUME Init PROVE IInv
  OBVIOUS
<1>1. << "initial" >> \in Seq(Consumers)
  BY DEF Consumers
<1>2. Path(consumer_stack_) /\ Len(consumer_stack_) < 2
  BY <1>1 DEF Init, Path
<1> QED BY <1>2 DEF Init, IInv, Control, EndMatches

LEMMA NextInvariant == IInv /\ [Next]_vars => IInv'
<1> SUFFICES ASSUME IInv, [Next]_vars PROVE IInv'
  OBVIOUS
<1>1. ASSUME UNCHANGED << consumer_stack_, begin_, end_, error_, ended >>
      PROVE  Control'
  BY <1>1 DEF IInv, Control
<1>2. CASE \E kind \in {"char", "range"} : StartCall(kind)
  BY <1>1, <1>2 DEF StartCall, IInv
<1>3. ASSUME NEW c \in Chars, Read(c)
      PROVE  IInv'
  <2>1. Control'
    BY <1>3, ReadControl
  <2> QED BY <1>3, <2>1 DEF Read, IInv
<1>4. CASE Flush
  BY <1>1, <1>4, FlushKeeps DEF Flush, IInv
<1>5. CASE ReturnFalse
  BY <1>1, <1>5 DEF ReturnFalse, IInv
<1>6. CASE end
  <2>1. /\ consumer_stack_' = consumer_stack_ /\ begin_' = begin_ /\ end_' = TRUE
        /\ ended' = TRUE /\ ~ended /\ call' = call /\ call = "none"
        /\ error_' = (error_ \/ Len(consumer_stack_) # 1 \/ begin_)
    BY <1>6 DEF end
  <2>2. ASSUME ~error_' PROVE Len(consumer_stack_) < 2 /\ ~begin_
    <3>1. Len(consumer_stack_) = 1 /\ ~begin_
      BY <2>1, <2>2, Zenon
    <3>2. Len(consumer_stack_) < 2
      BY <3>1
    <3> QED BY <3>1, <3>2
  <2>3. error_' \in BOOLEAN
    BY <2>1 DEF IInv, Control
  <2> QED BY <2>1, <2>2, <2>3 DEF IInv, Control
<1>7. CASE UNCHANGED vars
  BY <1>1, <1>7 DEF vars, IInv
<1> QED BY <1>2, <1>3, <1>4, <1>5, <1>6, <1>7 DEF Next, Done

\* The control state keeps the invariant the theorems below follow from
\* (parser_bits.h, consumer_stack_, begin_, end_ and error_).
THEOREM Invariance == Spec => []IInv
BY InitInvariant, NextInvariant, PTL DEF Spec

-----------------------------------------------------------------------------
(* What follows from the invariant.                                        *)

LEMMA OneConsumer ==
  ASSUME NEW stack, Path(stack), Len(stack) < 2
  PROVE  Len(stack) = 1
<1> DEFINE n == Len(stack)
<1>1. n \in Nat /\ n >= 1 /\ n < 2
  BY DEF Path
<1> HIDE DEF n
<1>2. n = 1
  BY <1>1
<1> QED BY <1>2 DEF n

\* The stack is always a path of the JSON grammar, or the single
\* consume_inerror_ after make_error (parser_bits.h, every consumer).
THEOREM StackSound == Spec => []StackShape
<1>1. IInv => StackShape
  BY OneConsumer DEF IInv, Control, StackShape, Path
<1> QED BY <1>1, Invariance, PTL

LEMMA CompletesExactly ==
  ASSUME IInv
  PROVE  CompleteExactly
<1>1. CASE error_
  BY <1>1 DEF CompleteExactly, complete_without_error
<1>2. CASE ~error_
  <2>1. Path(consumer_stack_) /\ (end_ <=> Len(consumer_stack_) < 2 /\ ~begin_)
    BY <1>2 DEF IInv, Control, EndMatches
  <2>2. ASSUME Len(consumer_stack_) = 1 PROVE Len(consumer_stack_) < 2
    BY <2>2
  <2>3. Len(consumer_stack_) < 2 <=> Len(consumer_stack_) = 1
    BY <2>1, <2>2, OneConsumer
  <2> QED BY <1>2, <2>1, <2>3 DEF CompleteExactly, complete_without_error
<1> QED BY <1>1, <1>2

\* complete_without_error() is true exactly when a document was begun, nothing
\* of it is open and no error was made (parser_bits.h, pop_state and end).
THEOREM CompletionExact == Spec => []CompleteExactly
BY CompletesExactly, Invariance, PTL

\* A parser in error stays in error and calls no handler any more
\* (parser_bits.h, make_error and consume_inerror_).
THEOREM ErrorFinal == Spec => ErrorIsFinal
<1> DEFINE Final == error_ => error_' /\ calls' = << >>
<1>1. ASSUME IInv, [Next]_vars, error_, ~(UNCHANGED vars)
      PROVE  error_' /\ calls' = << >>
  <2>1. ASSUME Last(consumer_stack_) = "inerror", Return(Here, FALSE)
        PROVE  error_' /\ calls' = << >>
    BY <1>1, <2>1 DEF Return, Leave, Here
  <2>2. ASSUME ~ended PROVE Last(consumer_stack_) = "inerror" /\ Last(Here.stack) = "inerror"
    BY <1>1, <2>2 DEF IInv, Control, Last, Here
  <2>3. CASE \E kind \in {"char", "range"} : StartCall(kind)
    BY <1>1, <2>3 DEF StartCall
  <2>4. ASSUME NEW c \in Chars, Read(c)
        PROVE  error_' /\ calls' = << >>
    <3>1. ~ended /\ consume_(Here, c)
      BY <1>1, <2>4 DEF Read, IInv
    <3>2. consume_inerror_(Here, c)
      BY <2>2, <3>1 DEF consume_, Literals, UnicodeArcs, PairArcs
    <3> QED BY <2>1, <2>2, <3>1, <3>2 DEF consume_inerror_
  <2>5. CASE Flush
    <3>1. ~ended /\ FlushConsumer(Here)
      BY <1>1, <2>5 DEF Flush, IInv
    <3>2. Return(Here, FALSE)
      BY <2>2, <3>1 DEF FlushConsumer, Literals
    <3> QED BY <2>1, <2>2, <3>1, <3>2
  <2>6. CASE ReturnFalse
    BY <1>1, <2>6 DEF ReturnFalse
  <2>7. CASE end
    BY <1>1, <2>7 DEF end
  <2> QED BY <1>1, <2>3, <2>4, <2>5, <2>6, <2>7 DEF Next, Done
<1>2. IInv /\ [Next]_vars => [Final]_vars
  BY <1>1
<1> QED BY <1>2, Invariance, PTL DEF Spec, ErrorIsFinal

-----------------------------------------------------------------------------
(* The data beside the stack: the inductive invariant.                     *)

Texts == {"string", "stringkey"}

\* The most the low half of lastCodePoint holds when each consumer runs: the
\* digits before its own are F.
LowBound ==
  [stringuvalue  |-> 0, stringuvalue1 |-> 61440, stringuvalue2 |-> 65280,
   stringuvalue3 |-> 65520, stringuvalue4 |-> 0, stringuvalue5 |-> 0,
   stringuvalue6 |-> 0, stringuvalue7 |-> 61440, stringuvalue8 |-> 65280,
   stringuvalue9 |-> 65520]

\* What the consumer on top relies on.
TopMatches(stack, inside, value, low) ==
  /\ Last(stack) \in Numbers => value \in Classes
  /\ Last(stack) \in DOMAIN LowBound => low <= LowBound[Last(stack)]
  /\ Last(stack) \in Escapes => (inside <=> stack[Len(stack) - 1] = "stringkey")

\* What a step leaves for its caller.
History ==
  /\ calls \in Seq(CallRecord) /\ end_ \in BOOLEAN
  /\ good \in BOOLEAN /\ rejected \in BOOLEAN

\* make_error was called and only consume_inerror_ is left.
Stopped == consumer_stack_ = << "inerror" >>

Collected ==
  /\ inside_key_ \in BOOLEAN
  /\ lastValue_ \in Classes \cup {"text"}
  /\ lastCodePoint \in Unit \X Unit
  /\ ~Stopped => TopMatches(consumer_stack_, inside_key_, lastValue_, lastCodePoint[2])

ViewRange ==
  first_ \in 0 .. MaxChunk + 2 /\ end_buf_ \in 0 .. MaxChunk + 2 /\ owed \in Int

\* The view ends with the last character read, or with the opening quote of a
\* document that is a string.
ViewOpen ==
  /\ Last(consumer_stack_) \in Texts
  /\ call # "none" /\ good = TRUE
  /\ end_buf_ <= pos + 1
  /\ StringRoot = FALSE => end_buf_ = pos

\* A view is kept only inside a text and within a call, or by a parser that uses
\* it no more.
View ==
  /\ ViewRange
  /\ first_ # 0 => Stopped \/ ViewOpen

InCall ==
  /\ Len(consumer_stack_) <= MaxStack
  /\ call \in {"none", "char", "range"}
  /\ pos \in 0 .. MaxChunk + 1
  /\ call = "none" => pos = 0

DInv == IInv /\ History /\ Collected /\ View /\ InCall

-----------------------------------------------------------------------------
(* What a handler works on, in any parser.                                 *)

IsRecord(s) == s = [stack |-> s.stack, end |-> s.end, calls |-> s.calls]

Shaped(s) ==
  /\ IsRecord(s)
  /\ s.stack \in Seq(Consumers)
  /\ s.end \in BOOLEAN
  /\ s.calls \in Seq(CallRecord)

LEMMA ShapedPush ==
  ASSUME NEW s, Shaped(s), NEW f \in Consumers
  PROVE  Shaped(Push(s, f)) /\ Last(Push(s, f).stack) = f
<1>1. Push(s, f) = [stack |-> Append(s.stack, f), end |-> s.end, calls |-> s.calls]
  <2>1. IsRecord(s)
    BY DEF Shaped
  <2> QED BY <2>1 DEF IsRecord, Push
<1>2. /\ Append(s.stack, f) \in Seq(Consumers)
      /\ Len(Append(s.stack, f)) = Len(s.stack) + 1
      /\ Append(s.stack, f)[Len(s.stack) + 1] = f
  BY DEF Shaped
<1>3. Last(Append(s.stack, f)) = f
  BY <1>2 DEF Last
<1> QED BY <1>1, <1>2, <1>3 DEF Shaped, IsRecord

\* What is pushed stands on what was the last consumer.
LEMMA BelowPushed ==
  ASSUME NEW s, Shaped(s), Len(s.stack) > 0, NEW f \in Consumers
  PROVE  Push(s, f).stack[Len(Push(s, f).stack) - 1] = Last(s.stack)
<1>1. Push(s, f).stack = Append(s.stack, f)
  <2>1. IsRecord(s)
    BY DEF Shaped
  <2> QED BY <2>1 DEF IsRecord, Push
<1>2. Len(Append(s.stack, f)) - 1 = Len(s.stack)
  BY DEF Shaped
<1>3. Append(s.stack, f)[Len(s.stack)] = Last(s.stack)
  BY DEF Shaped, Last
<1> QED BY <1>1, <1>2, <1>3

LEMMA ShapedBecome ==
  ASSUME NEW s, Shaped(s), Len(s.stack) > 0, NEW f \in Consumers
  PROVE  /\ Shaped(Become(s, f)) /\ Last(Become(s, f).stack) = f
         /\ Len(Become(s, f).stack) = Len(s.stack)
         /\ \A i \in 1 .. Len(s.stack) - 1 : Become(s, f).stack[i] = s.stack[i]
<1> DEFINE new == [s.stack EXCEPT ![Len(s.stack)] = f]
<1>1. Become(s, f) = [stack |-> new, end |-> s.end, calls |-> s.calls]
  <2>1. IsRecord(s)
    BY DEF Shaped
  <2> QED BY <2>1 DEF IsRecord, Become
<1>2. /\ new \in Seq(Consumers) /\ Len(new) = Len(s.stack) /\ new[Len(s.stack)] = f
      /\ \A i \in 1 .. Len(s.stack) - 1 : new[i] = s.stack[i]
  BY DEF Shaped
<1> HIDE DEF new
<1>3. Last(new) = f
  BY <1>2 DEF Last
<1> QED BY <1>1, <1>2, <1>3 DEF Shaped, IsRecord

LEMMA ShapedCalled ==
  ASSUME NEW s, Shaped(s), NEW h \in Handlers, NEW ok \in BOOLEAN
  PROVE  Shaped(Called(s, h, ok)) /\ Called(s, h, ok).stack = s.stack
<1> DEFINE cs == Append(s.calls, [handler |-> h, ok |-> ok])
<1>1. [handler |-> h, ok |-> ok] \in CallRecord
  BY DEF CallRecord
<1>2. cs \in Seq(CallRecord)
  BY <1>1 DEF Shaped
<1>3. Called(s, h, ok) = [s EXCEPT !.calls = cs]
  BY DEF Called
<1> HIDE DEF cs
<1>4. Called(s, h, ok) = [stack |-> s.stack, end |-> s.end, calls |-> cs]
  BY <1>3 DEF Shaped, IsRecord
<1> QED BY <1>2, <1>4 DEF Shaped, IsRecord

\* What is left when a consumer is done had waited for it.
LEMMA ShapedPop ==
  ASSUME NEW s, Shaped(s), Path(s.stack), Len(s.stack) > 1
  PROVE  /\ Shaped(pop_state(s)) /\ Shaped(PopBack(s))
         /\ PopBack(s).stack = pop_state(s).stack
         /\ Fits(Last(pop_state(s).stack), Last(s.stack))
<1> DEFINE ends == s.end \/ Len(s.stack) = 2
<1>1. PopBack(s) = [stack |-> Front(s.stack), end |-> s.end, calls |-> s.calls]
  BY DEF Shaped, IsRecord, PopBack
<1>2. pop_state(s) = [s EXCEPT !.stack = Front(s.stack), !.end = ends]
  BY DEF pop_state
<1>6. ends \in BOOLEAN
  OBVIOUS
<1> HIDE DEF ends
<1>3. pop_state(s) = [stack |-> Front(s.stack), end |-> ends, calls |-> s.calls]
  BY <1>2 DEF Shaped, IsRecord
<1>4. Front(s.stack) \in Seq(Consumers) /\ Last(Front(s.stack)) = s.stack[Len(s.stack) - 1]
  BY FrontPath DEF Path
<1>5. Fits(Last(Front(s.stack)), Last(s.stack))
  BY <1>4, LastOfPath
<1> QED BY <1>1, <1>3, <1>4, <1>5, <1>6 DEF Shaped, IsRecord

-----------------------------------------------------------------------------
(* What every handler ends in.                                             *)

\* The step leaves the stack of s, or the parser stopped by an error.
Left(s) == History' /\ (Stopped' \/ consumer_stack_' = s.stack)

LEMMA LeaveHistory ==
  ASSUME NEW s, Shaped(s), Leave(s), rejected \in BOOLEAN
  PROVE  calls' \in Seq(CallRecord) /\ end_' \in BOOLEAN /\ rejected' \in BOOLEAN
<1>1. calls' = s.calls /\ end_' = s.end /\ rejected' \in BOOLEAN
  BY DEF Leave
<1> QED BY <1>1 DEF Shaped

LEMMA ReturnLeft ==
  ASSUME NEW s, Shaped(s), rejected \in BOOLEAN, NEW ok \in BOOLEAN, Return(s, ok)
  PROVE  Left(s)
BY LeaveHistory DEF Return, Left, History

LEMMA ErrorLeft ==
  ASSUME NEW s, Shaped(s), rejected \in BOOLEAN, make_error(s)
  PROVE  History' /\ Stopped'
BY LeaveHistory DEF make_error, History, Stopped

LEMMA AnswersBoolean ==
  ASSUME NEW h, NEW ok \in Answers(h)
  PROVE  ok \in BOOLEAN
BY DEF Answers

LEMMA CallOnlyLeft ==
  ASSUME NEW s, Shaped(s), rejected \in BOOLEAN, NEW h \in Handlers, CallOnly(s, h)
  PROVE  Left(s)
<1>1. PICK ok \in Answers(h) : Return(Called(s, h, ok), ok)
  BY DEF CallOnly
<1>2. ok \in BOOLEAN
  BY AnswersBoolean
<1>3. Shaped(Called(s, h, ok)) /\ Called(s, h, ok).stack = s.stack
  BY <1>2, ShapedCalled
<1>4. Left(Called(s, h, ok))
  BY <1>1, <1>2, <1>3, ReturnLeft
<1> QED BY <1>3, <1>4 DEF Left

LEMMA CallOrErrorLeft ==
  ASSUME NEW s, Shaped(s), rejected \in BOOLEAN, NEW h \in Handlers, CallOrError(s, h)
  PROVE  Left(s)
<1>1. CASE Return(Called(s, h, TRUE), TRUE)
  <2>1. Shaped(Called(s, h, TRUE)) /\ Called(s, h, TRUE).stack = s.stack
    BY ShapedCalled
  <2>2. Left(Called(s, h, TRUE))
    BY <1>1, <2>1, ReturnLeft
  <2> QED BY <2>1, <2>2 DEF Left
<1>2. CASE make_error(Called(s, h, FALSE))
  BY <1>2, ShapedCalled, ErrorLeft DEF Left
<1> QED BY <1>1, <1>2 DEF CallOrError

LEMMA CallOrLateErrorLeft ==
  ASSUME NEW s, Shaped(s), rejected \in BOOLEAN, NEW h \in Handlers, CallOrLateError(s, h)
  PROVE  Left(s)
<1>1. CASE Return(Called(s, h, TRUE), TRUE)
  <2>1. CallOrError(s, h)
    BY <1>1 DEF CallOrError
  <2> QED BY <2>1, CallOrErrorLeft
<1>2. CASE /\ Leave(Called(s, h, FALSE)) /\ good' = TRUE /\ Stopped'
  BY <1>2, ShapedCalled, LeaveHistory DEF Left, History
<1> QED BY <1>1, <1>2 DEF CallOrLateError, Stopped

\* A content handler is called only if there is something to hand over.
LEMMA ShapedContent ==
  ASSUME NEW s, Shaped(s), NEW h \in Handlers, NEW ok \in BOOLEAN
  PROVE  Shaped(ContentCalled(s, h, ok)) /\ ContentCalled(s, h, ok).stack = s.stack
BY ShapedCalled DEF ContentCalled

-----------------------------------------------------------------------------
(* The consumers outside texts.                                            *)

\* A consumer works on s and History holds.
Working(s) == Stepping(s) /\ s.calls \in Seq(CallRecord) /\ rejected \in BOOLEAN

LEMMA WorkingShaped ==
  ASSUME NEW s, Working(s)
  PROVE  /\ Shaped(s) /\ rejected \in BOOLEAN /\ Path(s.stack)
         /\ Len(s.stack) \in Nat /\ Len(s.stack) > 0
BY DEF Working, Stepping, Sound, EndMatches, Path, Shaped, IsRecord

\* The step collects nothing but a number, and no escape is on top after it.
Calm ==
  /\ History'
  /\ UNCHANGED << inside_key_, lastCodePoint >>
  /\ lastValue_' = lastValue_ \/ lastValue_' \in Classes
  /\ ~Stopped' => /\ Last(consumer_stack_') \notin Escapes
                  /\ Last(consumer_stack_') \in Numbers => lastValue_' \in Classes

LEMMA PlainCalm ==
  ASSUME NEW s, Left(s), Last(s.stack) \notin Escapes \cup Numbers, UNCHANGED valueVars
  PROVE  Calm
BY DEF Left, Calm, valueVars

LEMMA ErrorCalm ==
  ASSUME NEW s, Shaped(s), rejected \in BOOLEAN, make_error(s), UNCHANGED valueVars
  PROVE  Calm
BY ErrorLeft DEF Calm, valueVars

\* A value begins, or a key.
LEMMA PushCalm ==
  ASSUME NEW s, Shaped(s), rejected \in BOOLEAN, NEW f \in Consumers,
         f \notin Escapes \cup Numbers, NEW h \in Handlers, UNCHANGED valueVars,
         \/ CallOnly(Push(s, f), h)
         \/ CallOrError(Push(s, f), h)
         \/ CallOrLateError(Push(s, f), h)
  PROVE  Calm
<1>1. Shaped(Push(s, f)) /\ Last(Push(s, f).stack) = f
  BY ShapedPush
<1>2. Left(Push(s, f))
  BY <1>1, CallOnlyLeft, CallOrErrorLeft, CallOrLateErrorLeft
<1> QED BY <1>1, <1>2, PlainCalm

LEMMA BecomeCalm ==
  ASSUME NEW s, Working(s), NEW f \in Consumers, f \notin Escapes \cup Numbers,
         Return(Become(s, f), TRUE), UNCHANGED valueVars
  PROVE  Calm
<1>1. Shaped(Become(s, f)) /\ Last(Become(s, f).stack) = f /\ rejected \in BOOLEAN
  BY WorkingShaped, ShapedBecome
<1> QED BY <1>1, ReturnLeft, PlainCalm

\* Below a consumer that is no escape stands one that waits for a value or a key.
LEMMA PopPlain ==
  ASSUME NEW s, Working(s), Last(s.stack) \notin Escapes \cup {"initial"}
  PROVE  /\ Shaped(pop_state(s))
         /\ Last(pop_state(s).stack) \in {"initial", "array", "objectvalue", "objectkey"}
<1>1. Len(s.stack) > 1
  <2> DEFINE n == Len(s.stack)
  <2>1. n \in Nat /\ n > 0 /\ ~(n = 1)
    BY WorkingShaped, LastOfPath
  <2> HIDE DEF n
  <2>2. n > 1
    BY <2>1
  <2> QED BY <2>2 DEF n
<1>2. Shaped(pop_state(s)) /\ Fits(Last(pop_state(s).stack), Last(s.stack))
  BY <1>1, WorkingShaped, ShapedPop
<1> QED BY <1>2 DEF Fits

LEMMA CloseCalm ==
  ASSUME NEW s, Working(s), Last(s.stack) \notin Escapes \cup {"initial"},
         NEW h \in Handlers, CallOrError(pop_state(s), h), UNCHANGED valueVars
  PROVE  Calm
<1>1. Left(pop_state(s))
  BY PopPlain, WorkingShaped, CallOrErrorLeft
<1>2. Last(pop_state(s).stack) \notin Escapes \cup Numbers
  BY PopPlain DEF Escapes, Numbers
<1> QED BY <1>1, <1>2, PlainCalm

LEMMA StartItemCalm ==
  ASSUME NEW s, Shaped(s), rejected \in BOOLEAN, NEW c, StartItem(s, c)
  PROVE  Calm
<1> DEFINE f == ItemStart(c)
<1>1. c \in CallFree /\ f \in Literals \cup Numbers /\ f \in Consumers
  BY DEF StartItem, ItemStart, CallFree, Literals, Numbers, Digits19, Consumers
<1>2. Left(Push(s, f)) /\ Last(Push(s, f).stack) = f
  BY <1>1, ShapedPush, ReturnLeft DEF StartItem
<1>3. f \notin Escapes
  BY <1>1 DEF Literals, Numbers, Escapes
<1>4. FirstClass(c) \in Classes
  BY DEF FirstClass, Classes, Arcs
<1>5. f \in Numbers => c \in NumberChars
  <2>1. CASE c \in {"n", "t", "f"}
    BY <2>1 DEF ItemStart, Digits19, Numbers
  <2>2. CASE c \in Digits19 \cup {"0", "-"}
    BY <2>2 DEF NumberChars, Signs
  <2> QED BY <1>1, <2>1, <2>2 DEF CallFree
<1>6. lastValue_' = IF c \in NumberChars THEN FirstClass(c) ELSE lastValue_
  BY DEF StartItem
<1>7. UNCHANGED << inside_key_, lastCodePoint >>
  BY DEF StartItem
<1> HIDE DEF f
<1> QED BY <1>2, <1>3, <1>4, <1>5, <1>6, <1>7 DEF Left, Calm

LEMMA ItemBeginCalm ==
  ASSUME NEW s, Shaped(s), rejected \in BOOLEAN, NEW c, consume_array_itembegin_(s, c)
  PROVE  Calm
<1>1. CASE StartItem(s, c)
  BY <1>1, StartItemCalm
<1>2. CASE make_error(s) /\ Structural
  BY <1>2, ErrorCalm DEF Structural
<1>3. CASE CallOrError(Push(s, "string"), "begin_string") /\ Structural
  BY <1>3, PushCalm DEF Structural, Consumers, Escapes, Numbers, Handlers
<1>4. CASE CallOrLateError(Push(s, "objectstart"), "begin_object") /\ Structural
  BY <1>4, PushCalm DEF Structural, Consumers, Escapes, Numbers, Handlers
<1>5. CASE CallOrLateError(Push(s, "arraystart"), "begin_array") /\ Structural
  BY <1>5, PushCalm DEF Structural, Consumers, Escapes, Numbers, Handlers
<1> QED BY <1>1, <1>2, <1>3, <1>4, <1>5 DEF consume_array_itembegin_

\* The ends all consumers of arrays and objects share.
LEMMA ContainerCalm ==
  ASSUME NEW s, Working(s), Last(s.stack) \in Containers, Structural,
         \/ Return(s, TRUE)
         \/ CallOrError(pop_state(s), "end_array")
         \/ CallOrError(pop_state(s), "end_object")
         \/ \E f \in Containers : Return(Become(s, f), TRUE)
         \/ make_error(s)
  PROVE  Calm
<1>1. UNCHANGED valueVars /\ Shaped(s) /\ rejected \in BOOLEAN
  BY WorkingShaped DEF Structural
<1>2. \A f \in Containers : f \in Consumers /\ f \notin Escapes \cup Numbers \cup {"initial"}
  BY DEF Containers, Consumers, Escapes, Numbers
<1>3. CASE Return(s, TRUE)
  BY <1>1, <1>2, <1>3, ReturnLeft, PlainCalm
<1>4. CASE CallOrError(pop_state(s), "end_array")
  BY <1>1, <1>2, <1>4, CloseCalm DEF Handlers
<1>5. CASE CallOrError(pop_state(s), "end_object")
  BY <1>1, <1>2, <1>5, CloseCalm DEF Handlers
<1>6. CASE \E f \in Containers : Return(Become(s, f), TRUE)
  BY <1>1, <1>2, <1>6, BecomeCalm
<1>7. CASE make_error(s)
  BY <1>1, <1>7, ErrorCalm
<1> QED BY <1>3, <1>4, <1>5, <1>6, <1>7

LEMMA ArrayCalm ==
  ASSUME NEW s, Working(s), NEW c,
         \/ Last(s.stack) = "array" /\ consume_array_(s, c)
         \/ Last(s.stack) = "objectvalue" /\ consume_objectvalue_(s, c)
         \/ Last(s.stack) = "objectkey" /\ consume_objectkey_(s, c)
  PROVE  Calm
BY ContainerCalm DEF Containers, consume_array_, consume_objectvalue_, consume_objectkey_

LEMMA ArrayStartCalm ==
  ASSUME NEW s, Working(s), NEW c, Last(s.stack) \in {"arraystart", "arrayseparator"},
         consume_arraystart_(s, c) \/ consume_arrayseparator_(s, c)
  PROVE  Calm
<1>1. CASE Structural /\ (Return(s, TRUE) \/ CallOrError(pop_state(s), "end_array"))
  BY <1>1, ContainerCalm DEF Containers
<1>2. CASE consume_array_itembegin_(Become(s, "array"), c)
  <2>1. Shaped(Become(s, "array")) /\ rejected \in BOOLEAN
    BY WorkingShaped, ShapedBecome DEF Consumers
  <2> QED BY <1>2, <2>1, ItemBeginCalm
<1> QED BY <1>1, <1>2 DEF consume_arraystart_, consume_arrayseparator_

LEMMA KeyCalm ==
  ASSUME NEW s, Working(s), NEW c, Last(s.stack) \in {"objectstart", "objectbetween"},
         consume_objectstart_(s, c) \/ consume_objectbetween_(s, c)
  PROVE  Calm
<1>1. CASE /\ Structural
           /\ \/ Return(s, TRUE) \/ CallOrError(pop_state(s), "end_object")
              \/ make_error(s)
  BY <1>1, ContainerCalm DEF Containers
<1>2. CASE Structural /\ CallOnly(Push(Become(s, "objectkey"), "stringkey"), "begin_key")
  <2>1. Shaped(Become(s, "objectkey")) /\ rejected \in BOOLEAN
    BY WorkingShaped, ShapedBecome DEF Consumers
  <2> QED BY <1>2, <2>1, PushCalm DEF Structural, Consumers, Escapes, Numbers, Handlers
<1> QED BY <1>1, <1>2 DEF consume_objectstart_, consume_objectbetween_

LEMMA ObjectSeparatorCalm ==
  ASSUME NEW s, Working(s), NEW c, Last(s.stack) = "objectseparator",
         consume_objectseparator_(s, c)
  PROVE  Calm
<1> DEFINE v == Become(s, "objectvalue")
<1>1. Shaped(v) /\ rejected \in BOOLEAN
  BY WorkingShaped, ShapedBecome DEF Consumers
<1>2. \/ Structural /\ (Return(s, TRUE) \/ make_error(s))
      \/ CallOnly(Push(v, "string"), "begin_string") /\ Structural
      \/ CallOrError(Push(v, "objectstart"), "begin_object") /\ Structural
      \/ CallOrError(Push(v, "arraystart"), "begin_array") /\ Structural
      \/ StartItem(v, c)
  BY DEF consume_objectseparator_
<1> HIDE DEF v
<1>3. CASE Structural /\ (Return(s, TRUE) \/ make_error(s))
  BY <1>3, ContainerCalm DEF Containers
<1>4. CASE CallOnly(Push(v, "string"), "begin_string") /\ Structural
  BY <1>1, <1>4, PushCalm DEF Structural, Consumers, Escapes, Numbers, Handlers
<1>5. CASE CallOrError(Push(v, "objectstart"), "begin_object") /\ Structural
  BY <1>1, <1>5, PushCalm DEF Structural, Consumers, Escapes, Numbers, Handlers
<1>6. CASE CallOrError(Push(v, "arraystart"), "begin_array") /\ Structural
  BY <1>1, <1>6, PushCalm DEF Structural, Consumers, Escapes, Numbers, Handlers
<1>7. CASE StartItem(v, c)
  BY <1>1, <1>7, StartItemCalm
<1> QED BY <1>2, <1>3, <1>4, <1>5, <1>6, <1>7

LEMMA LiteralCalm ==
  ASSUME NEW s, Working(s), Last(s.stack) \in Literals, NEW c, consume_literal_(s, c)
  PROVE  Calm
<1> DEFINE f == Last(s.stack)
<1>1. UNCHANGED valueVars /\ Shaped(s) /\ rejected \in BOOLEAN
  BY WorkingShaped DEF consume_literal_, Structural
<1>2. f \notin Escapes \cup {"initial"}
  BY DEF Literals, Escapes
<1>3. CASE f \in DOMAIN LiteralArcs /\ Return(Become(s, LiteralArcs[f][2]), TRUE)
  <2>1. LiteralArcs[f][2] \in Literals
    BY <1>3 DEF LiteralArcs, Literals
  <2>2. LiteralArcs[f][2] \in Consumers /\ LiteralArcs[f][2] \notin Escapes \cup Numbers
    BY <2>1 DEF Consumers, Literals, Escapes, Numbers
  <2> QED BY <1>1, <1>3, <2>2, BecomeCalm
<1>4. CASE f \in DOMAIN LiteralEnds /\ CallOrError(pop_state(s), LiteralEnds[f][2])
  <2>1. LiteralEnds[f][2] \in Handlers
    BY <1>4 DEF LiteralEnds, Handlers
  <2> QED BY <1>1, <1>2, <1>4, <2>1, CloseCalm
<1>5. CASE make_error(s)
  BY <1>1, <1>5, ErrorCalm
<1> QED BY <1>3, <1>4, <1>5 DEF consume_literal_

\* append(lastValue_, c) leads from class to class.
LEMMA ExtendedClass ==
  ASSUME NEW class \in Classes, NEW c \in NumberChars
  PROVE  Extended(class, c) \in Classes
<1> DEFINE arc == Arcs[class]
<1>1. /\ arc.zero \in Classes /\ arc.digit \in Classes /\ arc.point \in Classes
      /\ arc.exp \in Classes /\ arc.sign \in Classes
  BY DEF Classes, Arcs, Arc
<1>2. Extended(class, c) \in {arc.zero, arc.digit, arc.point, arc.exp, arc.sign}
  BY DEF Extended, NumberChars
<1> QED BY <1>1, <1>2

LEMMA EndNumberCalm ==
  ASSUME NEW s, Working(s), NEW c, Last(s.stack) \in Numbers, EndNumber(s, c)
  PROVE  Calm
<1> DEFINE p == pop_state(s)
<1>1. Last(s.stack) \notin Escapes \cup {"initial"} /\ "double" \in Handlers
  BY DEF Numbers, Escapes, Handlers
<1>2. Shaped(p) /\ rejected \in BOOLEAN /\ Last(p.stack) \notin Escapes \cup Numbers
  BY <1>1, PopPlain, WorkingShaped DEF Escapes, Numbers
<1>3. ASSUME NEW ok \in BOOLEAN
      PROVE  Shaped(Called(p, "double", ok)) /\ Called(p, "double", ok).stack = p.stack
  BY <1>1, <1>2, ShapedCalled
<1>4. CASE Reconsume(Called(p, "double", TRUE), c)
  <2> DEFINE t == Called(p, "double", TRUE)
  <2>1. Len(s.stack) > 1
    BY LastOfPath DEF Working, Stepping, Sound, Path, Numbers
  <2>2. Sound(p, begin_)
    BY <2>1, SoundPop DEF Working, Stepping
  <2>3. Sound(t, begin_)
    BY <2>2, SoundCalled DEF Working, Stepping
  <2>4. Shaped(t) /\ Reconsume(t, c)
    BY <1>3, <1>4
  <2> HIDE DEF t
  <2>5. Working(t)
    BY <2>3, <2>4 DEF Working, Stepping, Shaped
  <2> QED BY <2>4, <2>5, ArrayCalm DEF Reconsume
<1>5. CASE Return(Called(p, "double", FALSE), FALSE) /\ Structural
  <2>1. Left(Called(p, "double", FALSE))
    BY <1>2, <1>3, <1>5, ReturnLeft
  <2> QED BY <1>2, <1>3, <1>5, <2>1, PlainCalm DEF Structural
<1>6. CASE make_error(p) /\ Structural
  BY <1>2, <1>6, ErrorCalm DEF Structural
<1> QED BY <1>4, <1>5, <1>6 DEF EndNumber

LEMMA NumberCalm ==
  ASSUME NEW s, Working(s), NEW c, Last(s.stack) \in Numbers, lastValue_ \in Classes,
         consume_number_(s, c) \/ consume_numberstarting0_(s, c)
  PROVE  Calm
<1>1. CASE c \in NumberChars /\ AppendDigit(s, c)
  <2>1. "number" \in Consumers /\ "number" \notin Escapes
    BY DEF Consumers, Numbers, Escapes
  <2>2. Shaped(Become(s, "number")) /\ Last(Become(s, "number").stack) = "number"
    BY <2>1, WorkingShaped, ShapedBecome
  <2>3. Left(Become(s, "number"))
    BY <1>1, <2>2, WorkingShaped, ReturnLeft DEF AppendDigit
  <2>4. lastValue_' \in Classes /\ UNCHANGED << inside_key_, lastCodePoint >>
    BY <1>1, ExtendedClass DEF AppendDigit
  <2> QED BY <2>1, <2>2, <2>3, <2>4 DEF Left, Calm
<1>2. CASE make_error(s) /\ Structural
  BY <1>2, WorkingShaped, ErrorCalm DEF Structural
<1>3. CASE EndNumber(s, c)
  BY <1>3, EndNumberCalm
<1>4. {"."} \cup Exponent \subseteq NumberChars
  BY DEF NumberChars
<1> QED BY <1>1, <1>2, <1>3, <1>4 DEF consume_number_, consume_numberstarting0_

LEMMA InitialCalm ==
  ASSUME NEW s, Working(s), NEW c, Last(s.stack) = "initial", consume_initial_(s, c)
  PROVE  Calm
<1>1. Shaped(s) /\ rejected \in BOOLEAN /\ UNCHANGED valueVars
  BY WorkingShaped DEF consume_initial_, Structural
<1>2. CASE \/ CallOrError(Push(s, "objectstart"), "begin_object")
           \/ CallOrError(Push(s, "arraystart"), "begin_array")
           \/ CallOrError(Push(s, "string"), "begin_string")
  BY <1>1, <1>2, PushCalm DEF Consumers, Escapes, Numbers, Handlers
<1>3. CASE Return(s, TRUE)
  BY <1>1, <1>3, ReturnLeft, PlainCalm DEF Escapes, Numbers
<1>4. CASE make_error(s)
  BY <1>1, <1>4, ErrorCalm
<1> QED BY <1>2, <1>3, <1>4 DEF consume_initial_

-----------------------------------------------------------------------------
(* Texts and escapes.                                                      *)

LEMMA CalmCollected ==
  ASSUME Calm, Collected
  PROVE  Collected'
<1>1. DOMAIN LowBound \subseteq Escapes
  BY DEF LowBound, Escapes
<1>2. ASSUME ~Stopped'
      PROVE  TopMatches(consumer_stack_', inside_key_', lastValue_', lastCodePoint'[2])
  BY <1>1, <1>2 DEF Calm, TopMatches
<1> QED BY <1>2 DEF Calm, Collected

LEMMA HexDigit ==
  ASSUME NEW c, hexdigit_val(c) # -1
  PROVE  hexdigit_val(c) \in 0 .. 15
BY DEF hexdigit_val

LEMMA InRange ==
  ASSUME NEW n \in Int, NEW max \in Int, 0 <= n, n <= max
  PROVE  n \in 0 .. max
OBVIOUS

LEMMA UnitBounds ==
  ASSUME NEW n
  PROVE  n \in Unit <=> n \in Int /\ 0 <= n /\ n <= 65535
<1> DEFINE max == 65535
<1>1. Unit = 0 .. max
  BY DEF Unit
<1>2. max \in Int
  OBVIOUS
<1> HIDE DEF max
<1>3. n \in Unit <=> n \in Int /\ 0 <= n /\ n <= max
  BY <1>1, <1>2, InRange
<1> QED BY <1>3 DEF max

\* A digit more does not carry out of the low half ...
LEMMA DigitSum ==
  ASSUME NEW low \in Int, 0 <= low, NEW digit \in Int, 0 <= digit, digit <= 15,
         NEW weight \in {4096, 256, 16, 1}, low <= 65536 - 16 * weight
  PROVE  /\ low + digit * weight \in Int
         /\ 0 <= low + digit * weight
         /\ low + digit * weight <= 65536 - weight
<1>1. CASE weight = 4096
  BY <1>1
<1>2. CASE weight = 256
  BY <1>2
<1>3. CASE weight = 16
  BY <1>3
<1>4. CASE weight = 1
  BY <1>4
<1> QED BY <1>1, <1>2, <1>3, <1>4

\* ... and keeps the bound of the consumer that comes next.
LEMMA DigitBound ==
  ASSUME NEW f \in DOMAIN UnicodeArcs, NEW low \in Unit, low <= LowBound[f],
         NEW digit \in 0 .. 15
  PROVE  /\ low + digit * UnicodeArcs[f][1] \in Unit
         /\ low + digit * UnicodeArcs[f][1] <= LowBound[UnicodeArcs[f][2]]
<1>1. UnicodeArcs[f][1] \in {4096, 256, 16}
  BY DEF UnicodeArcs
<1>2. /\ LowBound[f] = 65536 - 16 * UnicodeArcs[f][1]
      /\ LowBound[UnicodeArcs[f][2]] = 65536 - UnicodeArcs[f][1]
  BY DEF UnicodeArcs, LowBound
<1> DEFINE weight == UnicodeArcs[f][1]
<1>3. low \in Int /\ 0 <= low /\ digit \in Int /\ 0 <= digit /\ digit <= 15
  BY UnitBounds
<1>4. low <= 65536 - 16 * weight
  BY <1>2
<1> HIDE DEF weight
<1>5. /\ low + digit * weight \in Int /\ 0 <= low + digit * weight
      /\ low + digit * weight <= 65536 - weight
  BY <1>1, <1>3, <1>4, DigitSum DEF weight
<1>6. low + digit * weight <= 65535
  BY <1>1, <1>5 DEF weight
<1> QED BY <1>2, <1>5, <1>6, UnitBounds DEF weight

\* From one consumer of an escape to the next.
LEMMA NextEscape ==
  ASSUME NEW s, Working(s), Last(s.stack) \in Escapes,
         TopMatches(s.stack, inside_key_, lastValue_, lastCodePoint[2]),
         NEW g \in Escapes, Return(Become(s, g), TRUE), UNCHANGED inside_key_,
         g \in DOMAIN LowBound => lastCodePoint'[2] <= LowBound[g]
  PROVE  /\ History'
         /\ ~Stopped' => TopMatches(consumer_stack_', inside_key_', lastValue_',
                                    lastCodePoint'[2])
<1> DEFINE new == Become(s, g).stack
<1>1. g \in Consumers /\ g \notin Numbers
  BY DEF Consumers, Escapes, Numbers
<1>2. /\ Shaped(Become(s, g)) /\ Last(new) = g /\ Len(new) = Len(s.stack)
      /\ \A i \in 1 .. Len(s.stack) - 1 : new[i] = s.stack[i]
  BY <1>1, WorkingShaped, ShapedBecome
<1>3. Left(Become(s, g))
  BY <1>2, WorkingShaped, ReturnLeft
<1>4. Len(s.stack) \in Nat /\ Len(s.stack) > 1
  <2> DEFINE n == Len(s.stack)
  <2>1. n \in Nat /\ n > 0 /\ ~(n = 1)
    BY WorkingShaped, LastOfPath DEF Escapes
  <2> HIDE DEF n
  <2>2. n > 1
    BY <2>1
  <2> QED BY <2>1, <2>2 DEF n
<1>5. new[Len(new) - 1] = s.stack[Len(s.stack) - 1]
  <2>1. Len(s.stack) - 1 \in 1 .. Len(s.stack) - 1
    BY <1>4
  <2> QED BY <1>2, <2>1
<1>6. inside_key_ <=> s.stack[Len(s.stack) - 1] = "stringkey"
  BY DEF TopMatches
<1> HIDE DEF new
<1>7. ~Stopped' => consumer_stack_' = new
  BY <1>3 DEF Left, new
<1>8. TopMatches(new, inside_key_', lastValue_', lastCodePoint'[2])
  BY <1>1, <1>2, <1>5, <1>6 DEF TopMatches
<1> QED BY <1>3, <1>7, <1>8 DEF Left

\* The escape is over: its text is on top again.
LEMMA EscapeEnds ==
  ASSUME NEW s, Working(s), Last(s.stack) \in Escapes
  PROVE  Shaped(PopBack(s)) /\ Last(PopBack(s).stack) \in Texts
<1>1. Len(s.stack) > 1
  <2> DEFINE n == Len(s.stack)
  <2>1. n \in Nat /\ n > 0 /\ ~(n = 1)
    BY WorkingShaped, LastOfPath DEF Escapes
  <2> HIDE DEF n
  <2>2. n > 1
    BY <2>1
  <2> QED BY <2>2 DEF n
<1>2. Shaped(PopBack(s)) /\ Fits(Last(PopBack(s).stack), Last(s.stack))
  BY <1>1, WorkingShaped, ShapedPop
<1> QED BY <1>2 DEF Fits, Texts, Containers, Literals, Numbers, Escapes

\* The last digit of a unit.
LEMMA LastDigit ==
  ASSUME NEW c, hexdigit_val(c) # -1, lastCodePoint \in Unit \X Unit,
         lastCodePoint[2] <= 65520
  PROVE  UnitWith(c, 1) \in Unit
<1> DEFINE low == lastCodePoint[2]
           digit == hexdigit_val(c)
<1>1. low \in Int /\ 0 <= low
  BY UnitBounds
<1>2. digit \in Int /\ 0 <= digit /\ digit <= 15
  BY HexDigit
<1> HIDE DEF low, digit
<1>3. low <= 65536 - 16 * 1
  BY <1>1 DEF low
<1>4. /\ low + digit * 1 \in Int /\ 0 <= low + digit * 1
      /\ low + digit * 1 <= 65536 - 1
  BY <1>1, <1>2, <1>3, DigitSum
<1>5. low + digit * 1 <= 65535
  BY <1>4
<1>6. low + digit * 1 \in Unit
  BY <1>4, <1>5, UnitBounds
<1> QED BY <1>6 DEF UnitWith, low, digit

\* In a text nothing is relied on.
LEMMA TextMatches ==
  ASSUME NEW stack, Last(stack) \in Texts, NEW inside, NEW value, NEW low
  PROVE  TopMatches(stack, inside, value, low)
BY DEF TopMatches, Texts, Numbers, Escapes, LowBound

\* A consumer of an escape works on s, the parser as it is.
InEscape(s) ==
  /\ Working(s) /\ s.stack = consumer_stack_
  /\ Collected /\ Last(s.stack) \in Escapes

LEMMA InEscapeFacts ==
  ASSUME NEW s, InEscape(s)
  PROVE  /\ Working(s) /\ Shaped(s) /\ rejected \in BOOLEAN
         /\ Last(s.stack) \in Escapes
         /\ TopMatches(s.stack, inside_key_, lastValue_, lastCodePoint[2])
         /\ Last(s.stack) \in DOMAIN LowBound
              => lastCodePoint[2] <= LowBound[Last(s.stack)]
         /\ inside_key_ \in BOOLEAN /\ lastValue_ \in Classes \cup {"text"}
         /\ lastCodePoint \in Unit \X Unit
<1>1. ~Stopped
  BY DEF InEscape, Stopped, Escapes, Last
<1> QED BY <1>1, WorkingShaped DEF InEscape, Collected, TopMatches

\* The ways an escape goes on: the next consumer, its end, an error.
LEMMA EscapeGoesOn ==
  ASSUME NEW s, InEscape(s), inside_key_' \in BOOLEAN,
         lastValue_' \in Classes \cup {"text"}, lastCodePoint' \in Unit \X Unit,
         \/ /\ UNCHANGED inside_key_
            /\ \E g \in Escapes : /\ Return(Become(s, g), TRUE)
                                  /\ g \in DOMAIN LowBound
                                       => lastCodePoint'[2] <= LowBound[g]
         \/ \E h \in Handlers : CallOnly(PopBack(s), h)
         \/ make_error(s)
         \/ make_error(PopBack(s))
  PROVE  History' /\ Collected'
<1>1. CASE \E g \in Escapes : /\ Return(Become(s, g), TRUE)
                              /\ UNCHANGED inside_key_
                              /\ g \in DOMAIN LowBound
                                   => lastCodePoint'[2] <= LowBound[g]
  <2>1. /\ History'
        /\ ~Stopped' => TopMatches(consumer_stack_', inside_key_', lastValue_',
                                   lastCodePoint'[2])
    BY <1>1, InEscapeFacts, NextEscape
  <2> QED BY <2>1 DEF Collected
<1>2. Shaped(PopBack(s)) /\ Last(PopBack(s).stack) \in Texts /\ rejected \in BOOLEAN
  BY InEscapeFacts, EscapeEnds
<1>3. CASE \E h \in Handlers : CallOnly(PopBack(s), h)
  <2>1. Left(PopBack(s))
    BY <1>2, <1>3, CallOnlyLeft
  <2>2. TopMatches(PopBack(s).stack, inside_key_', lastValue_', lastCodePoint'[2])
    BY <1>2, TextMatches
  <2> QED BY <2>1, <2>2 DEF Left, Collected
<1>4. CASE make_error(s) \/ make_error(PopBack(s))
  <2>1. History' /\ Stopped'
    BY <1>2, <1>4, InEscapeFacts, ErrorLeft
  <2> QED BY <2>1 DEF Collected
<1> QED BY <1>1, <1>3, <1>4

LEMMA StringEscapeCollected ==
  ASSUME NEW s, InEscape(s), NEW c,
         consume_stringescape_(s, c) \/ consume_stringuvalue4_(s, c)
  PROVE  History' /\ Collected'
<1> DEFINE f == Last(s.stack)
<1>1. /\ inside_key_ \in BOOLEAN /\ lastValue_ \in Classes \cup {"text"}
      /\ lastCodePoint \in Unit \X Unit
  BY InEscapeFacts
<1>2. 0 \in Unit
  BY UnitBounds
<1>3. CASE /\ Return(Become(s, "stringuvalue"), TRUE)
           /\ lastCodePoint' = << 0, 0 >>
           /\ UNCHANGED << inside_key_, lastValue_ >>
  <2>1. LowBound["stringuvalue"] = 0 /\ "stringuvalue" \in Escapes
    BY DEF LowBound, Escapes
  <2>2. lastCodePoint' \in Unit \X Unit /\ lastCodePoint'[2] <= 0
    BY <1>2, <1>3
  <2> QED BY <1>1, <1>3, <2>1, <2>2, EscapeGoesOn
<1>4. CASE CallOnly(PopBack(s), Content) /\ Structural
  <2>1. Content \in Handlers
    BY DEF Content, Handlers
  <2> QED BY <1>1, <1>4, <2>1, EscapeGoesOn DEF Structural, valueVars
<1>5. CASE make_error(s) /\ Structural
  BY <1>1, <1>5, EscapeGoesOn DEF Structural, valueVars
<1>6. CASE /\ f \in DOMAIN PairArcs /\ Return(Become(s, PairArcs[f][2]), TRUE)
           /\ Structural
  <2>1. /\ PairArcs[f][2] \in Escapes /\ f \in DOMAIN LowBound
        /\ LowBound[PairArcs[f][2]] = LowBound[f]
    BY <1>6 DEF PairArcs, Escapes, LowBound
  <2>2. lastCodePoint[2] <= LowBound[f]
    BY <2>1, InEscapeFacts
  <2> QED BY <1>1, <1>6, <2>1, <2>2, EscapeGoesOn DEF Structural, valueVars
<1> QED BY <1>3, <1>4, <1>5, <1>6 DEF consume_stringescape_, consume_stringuvalue4_

LEMMA UnitCollected ==
  ASSUME NEW s, InEscape(s), NEW c, consume_stringuvalue_(s, c)
  PROVE  History' /\ Collected'
<1> DEFINE f == Last(s.stack)
           unit == UnitWith(c, UnicodeArcs[f][1])
<1>1. /\ inside_key_ \in BOOLEAN /\ lastValue_ \in Classes \cup {"text"}
      /\ lastCodePoint \in Unit \X Unit
  BY InEscapeFacts
<1>2. /\ f \in DOMAIN UnicodeArcs /\ f \in DOMAIN LowBound
      /\ UnicodeArcs[f][2] \in Escapes
  BY DEF consume_stringuvalue_, UnicodeArcs, LowBound, Escapes
<1>3. CASE /\ hexdigit_val(c) # -1
           /\ Return(Become(s, UnicodeArcs[f][2]), TRUE)
           /\ lastCodePoint' = << lastCodePoint[1], unit >>
           /\ UNCHANGED << inside_key_, lastValue_ >>
  <2>1. lastCodePoint[2] \in Unit /\ lastCodePoint[2] <= LowBound[f]
    BY <1>1, <1>2, InEscapeFacts
  <2>2. hexdigit_val(c) \in 0 .. 15
    BY <1>3, HexDigit
  <2>3. unit \in Unit /\ unit <= LowBound[UnicodeArcs[f][2]]
    BY <1>2, <2>1, <2>2, DigitBound DEF UnitWith
  <2> HIDE DEF unit
  <2>4. lastCodePoint' \in Unit \X Unit /\ lastCodePoint'[2] = unit
    BY <1>1, <1>3, <2>3
  <2>5. lastCodePoint'[2] <= LowBound[UnicodeArcs[f][2]]
    BY <2>3, <2>4
  <2> QED BY <1>1, <1>2, <1>3, <2>4, <2>5, EscapeGoesOn
<1>4. CASE make_error(s) /\ Structural
  BY <1>1, <1>4, EscapeGoesOn DEF Structural, valueVars
<1> QED BY <1>3, <1>4 DEF consume_stringuvalue_

LEMMA LastUnitCollected ==
  ASSUME NEW s, InEscape(s), NEW c,
         \/ Last(s.stack) = "stringuvalue3" /\ consume_stringuvalue3_(s, c)
         \/ Last(s.stack) = "stringuvalue9" /\ consume_stringuvalue9_(s, c)
  PROVE  History' /\ Collected'
<1> DEFINE unit == UnitWith(c, 1)
<1>1. /\ inside_key_ \in BOOLEAN /\ lastValue_ \in Classes \cup {"text"}
      /\ lastCodePoint \in Unit \X Unit
  BY InEscapeFacts
<1>2. lastCodePoint[2] <= 65520
  BY InEscapeFacts DEF LowBound
<1>3. hexdigit_val(c) # -1 => unit \in Unit
  BY <1>1, <1>2, LastDigit
<1>4. 0 \in Unit
  BY UnitBounds
<1>5. Content \in Handlers /\ "string_content" \in Handlers
  BY DEF Content, Handlers
<1> HIDE DEF unit
<1>6. CASE /\ hexdigit_val(c) # -1
           /\ Return(Become(s, "stringuvalue4"), TRUE)
           /\ lastCodePoint' = << unit, 0 >>
           /\ UNCHANGED << inside_key_, lastValue_ >>
  <2>1. LowBound["stringuvalue4"] = 0 /\ "stringuvalue4" \in Escapes
    BY DEF LowBound, Escapes
  <2>2. lastCodePoint' \in Unit \X Unit /\ lastCodePoint'[2] <= 0
    BY <1>3, <1>4, <1>6
  <2> QED BY <1>1, <1>6, <2>1, <2>2, EscapeGoesOn
<1>7. CASE /\ hexdigit_val(c) # -1
           /\ lastCodePoint' = << lastCodePoint[1], unit >>
           /\ UNCHANGED inside_key_
           /\ \/ CallOnly(PopBack(s), Content) /\ lastValue_' = "text"
              \/ CallOnly(PopBack(s), "string_content") /\ lastValue_' = "text"
              \/ make_error(PopBack(s)) /\ UNCHANGED lastValue_
  <2>1. lastCodePoint' \in Unit \X Unit
    BY <1>1, <1>3, <1>7
  <2> QED BY <1>1, <1>5, <1>7, <2>1, EscapeGoesOn
<1>8. CASE make_error(s) /\ Structural
  BY <1>1, <1>8, EscapeGoesOn DEF Structural, valueVars
<1> QED BY <1>6, <1>7, <1>8
           DEF consume_stringuvalue3_, consume_stringuvalue9_, ShiftedUnit, unit

LEMMA TextCollected ==
  ASSUME NEW s, Working(s), Collected, Last(s.stack) \in Texts, NEW c,
         NEW content \in Handlers, NEW closing \in Handlers,
         content = "key_content" <=> Last(s.stack) = "stringkey",
         consume_text_(s, c, content, closing)
  PROVE  History' /\ Collected'
<1>1. /\ inside_key_ \in BOOLEAN /\ lastValue_ \in Classes \cup {"text"}
      /\ lastCodePoint \in Unit \X Unit
  BY DEF Collected
<1>2. Shaped(s) /\ rejected \in BOOLEAN /\ Len(s.stack) > 0
  BY WorkingShaped
<1>3. CASE BeginEscape(s, content)
  <2> DEFINE t == Push(s, "stringescape")
  <2>1. PICK ok \in ContentAnswers(content) : Return(ContentCalled(t, content, ok), ok)
    BY <1>3 DEF BeginEscape
  <2>2. ok \in BOOLEAN
    BY AnswersBoolean DEF ContentAnswers
  <2>3. "stringescape" \in Consumers /\ "stringescape" \notin Numbers \cup DOMAIN LowBound
    BY DEF Consumers, Escapes, Numbers, LowBound
  <2>4. Shaped(t) /\ Last(t.stack) = "stringescape" /\ t.stack[Len(t.stack) - 1] = Last(s.stack)
    BY <1>2, <2>3, ShapedPush, BelowPushed
  <2> HIDE DEF t
  <2>5. Shaped(ContentCalled(t, content, ok)) /\ ContentCalled(t, content, ok).stack = t.stack
    BY <2>2, <2>4, ShapedContent
  <2>6. History' /\ (Stopped' \/ consumer_stack_' = t.stack)
    BY <1>2, <2>1, <2>2, <2>5, ReturnLeft DEF Left
  <2>7. /\ inside_key_' = (content = "key_content")
        /\ lastValue_' = lastValue_ /\ lastCodePoint' = lastCodePoint
    BY <1>3 DEF BeginEscape
  <2>8. TopMatches(t.stack, inside_key_', lastValue_', lastCodePoint'[2])
    BY <2>3, <2>4, <2>7 DEF TopMatches
  <2> QED BY <1>1, <2>6, <2>7, <2>8 DEF Collected
<1>4. CASE CloseText(s, content, closing)
  <2> DEFINE t == pop_state(s)
  <2>1. Shaped(t) /\ Last(t.stack) \notin Escapes \cup Numbers
    BY PopPlain DEF Texts, Escapes, Numbers
  <2>2. UNCHANGED valueVars
    BY <1>4 DEF CloseText
  <2>3. CASE CallOrError(ContentCalled(t, content, TRUE), closing)
    <3>1. /\ Shaped(ContentCalled(t, content, TRUE))
          /\ ContentCalled(t, content, TRUE).stack = t.stack
      BY <2>1, ShapedContent
    <3>2. Left(ContentCalled(t, content, TRUE))
      BY <1>2, <2>3, <3>1, CallOrErrorLeft
    <3>3. Calm
      BY <2>1, <2>2, <3>1, <3>2, PlainCalm
    <3> QED BY <3>3, CalmCollected DEF Calm
  <2>4. CASE make_error(Called(t, content, FALSE))
    <3>1. Calm
      BY <1>2, <2>1, <2>2, <2>4, ShapedCalled, ErrorCalm
    <3> QED BY <3>1, CalmCollected DEF Calm
  <2> QED BY <1>4, <2>3, <2>4 DEF CloseText
<1>5. CASE make_error(s) /\ Structural
  <2>1. Calm
    BY <1>2, <1>5, ErrorCalm DEF Structural
  <2> QED BY <2>1, CalmCollected DEF Calm
<1>6. CASE OrdinaryCharacter(s)
  <2>1. Left(s) /\ UNCHANGED valueVars
    BY <1>2, <1>6, ReturnLeft DEF OrdinaryCharacter
  <2>2. Calm
    BY <2>1, PlainCalm DEF Texts, Escapes, Numbers
  <2> QED BY <2>2, CalmCollected DEF Calm
<1> QED BY <1>3, <1>4, <1>5, <1>6 DEF consume_text_

-----------------------------------------------------------------------------
(* One character.                                                          *)

LEMMA NotInError ==
  ASSUME NEW stack, Path(stack)
  PROVE  Last(stack) # "inerror"
<1> DEFINE n == Len(stack)
<1>1. n \in Nat /\ n >= 1
  BY DEF Path
<1>2. /\ n = 1 => Last(stack) = "initial"
      /\ n > 1 => Fits(stack[n - 1], Last(stack))
  BY LastOfPath
<1> HIDE DEF n
<1>3. n = 1 \/ n > 1
  BY <1>1
<1> QED BY <1>2, <1>3 DEF Fits, Containers, Literals, Numbers, Escapes

LEMMA HereWorking ==
  ASSUME DInv, ~ended, ~error_, begin_' \in BOOLEAN, ended' = FALSE
  PROVE  Working(Here) /\ Here.stack = consumer_stack_
<1>1. Here.stack = consumer_stack_ /\ Here.calls = << >> /\ << >> \in Seq(CallRecord)
  BY DEF Here
<1>2. Sound(Here, begin_)
  BY HereSound DEF DInv, IInv
<1>3. ended = FALSE /\ error_ \in BOOLEAN /\ begin_ \in BOOLEAN /\ rejected \in BOOLEAN
  BY DEF DInv, IInv, Control, History
<1> HIDE DEF Here
<1> QED BY <1>1, <1>2, <1>3 DEF Working, Stepping, Reading

\* In a parser in error the character is not looked at.
LEMMA ErrorReads ==
  ASSUME DInv, error_, NEW c, Read(c)
  PROVE  /\ Stopped /\ consume_inerror_(Here, c)
         /\ Return(Here, FALSE) /\ Structural
<1>1. ~ended /\ consume_(Here, c)
  BY DEF Read, DInv, IInv
<1>2. Stopped
  BY <1>1 DEF DInv, IInv, Control, Stopped
<1>3. Last(Here.stack) = "inerror"
  BY <1>2 DEF Here, Last, Stopped
<1>4. consume_inerror_(Here, c)
  BY <1>1, <1>3 DEF consume_, Literals, UnicodeArcs, PairArcs
<1> QED BY <1>2, <1>4 DEF consume_inerror_

LEMMA HereReturn ==
  ASSUME rejected \in BOOLEAN, end_ \in BOOLEAN, NEW ok \in BOOLEAN, Return(Here, ok)
  PROVE  History' /\ consumer_stack_' = consumer_stack_ /\ error_' = error_
<1>1. calls' = << >> /\ end_' = end_ /\ good' = ok /\ rejected' \in BOOLEAN
  BY DEF Return, Leave, Here
<1>2. << >> \in Seq(CallRecord)
  OBVIOUS
<1> QED BY <1>1, <1>2 DEF History, Return, Here

LEMMA ReadCollected ==
  ASSUME DInv, NEW c, Read(c)
  PROVE  History' /\ Collected'
<1>1. /\ rejected \in BOOLEAN /\ end_ \in BOOLEAN /\ Collected
      /\ error_ \in BOOLEAN
  BY DEF DInv, IInv, History, Control
<1>2. CASE error_
  <2>1. History' /\ consumer_stack_' = consumer_stack_ /\ error_' = error_ /\ Structural
    BY <1>1, <1>2, ErrorReads, HereReturn
  <2> QED BY <1>1, <1>2, <2>1 DEF Collected, Structural, valueVars, Stopped
<1>3. CASE ~error_
  <2> DEFINE s == Here
             f == Last(s.stack)
  <2>1. ~ended /\ ended' = FALSE /\ begin_' \in BOOLEAN
    BY ReadControl DEF DInv, IInv, Read, Control
  <2>2. Working(s) /\ s.stack = consumer_stack_
    BY <1>3, <2>1, HereWorking
  <2>3. consume_(s, c)
    BY DEF Read
  <2> HIDE DEF s
  <2>4. f # "inerror"
    BY <2>2, WorkingShaped, NotInError
  <2>5. CASE Calm
    BY <1>1, <2>5, CalmCollected DEF Calm
  <2>6. ASSUME f \in Escapes PROVE InEscape(s)
    BY <1>1, <1>3, <2>2, <2>6 DEF InEscape
  <2>7. ASSUME f \in Numbers PROVE lastValue_ \in Classes
    <3>1. ~Stopped
      BY <2>2, <2>4 DEF Stopped, Last
    <3> QED BY <1>1, <2>2, <2>7, <3>1 DEF Collected, TopMatches
  <2>8. CASE f = "initial" /\ consume_initial_(s, c)
    BY <2>2, <2>5, <2>8, InitialCalm
  <2>9. CASE \/ f = "arraystart" /\ consume_arraystart_(s, c)
             \/ f = "arrayseparator" /\ consume_arrayseparator_(s, c)
    BY <2>2, <2>5, <2>9, ArrayStartCalm
  <2>10. CASE \/ f = "array" /\ consume_array_(s, c)
              \/ f = "objectkey" /\ consume_objectkey_(s, c)
              \/ f = "objectvalue" /\ consume_objectvalue_(s, c)
    BY <2>2, <2>5, <2>10, ArrayCalm
  <2>11. CASE \/ f = "objectstart" /\ consume_objectstart_(s, c)
              \/ f = "objectbetween" /\ consume_objectbetween_(s, c)
    BY <2>2, <2>5, <2>11, KeyCalm
  <2>12. CASE f = "objectseparator" /\ consume_objectseparator_(s, c)
    BY <2>2, <2>5, <2>12, ObjectSeparatorCalm
  <2>13. CASE f \in Literals /\ consume_literal_(s, c)
    BY <2>2, <2>5, <2>13, LiteralCalm
  <2>14. CASE \/ f = "number" /\ consume_number_(s, c)
              \/ f = "numberstarting0" /\ consume_numberstarting0_(s, c)
    BY <2>2, <2>5, <2>7, <2>14, NumberCalm DEF Numbers
  <2>15. CASE \/ f = "string" /\ consume_string_(s, c)
              \/ f = "stringkey" /\ consume_stringkey_(s, c)
    <3>1. {"string_content", "key_content", "end_string", "end_key"} \subseteq Handlers
      BY DEF Handlers
    <3> QED BY <1>1, <2>2, <2>15, <3>1, TextCollected
               DEF consume_string_, consume_stringkey_, Texts
  <2>16. CASE \/ f = "stringescape" /\ consume_stringescape_(s, c)
              \/ f \in DOMAIN PairArcs /\ consume_stringuvalue4_(s, c)
    BY <2>6, <2>16, StringEscapeCollected DEF Escapes, PairArcs
  <2>17. CASE f \in DOMAIN UnicodeArcs /\ consume_stringuvalue_(s, c)
    BY <2>6, <2>17, UnitCollected DEF Escapes, UnicodeArcs
  <2>18. CASE \/ f = "stringuvalue3" /\ consume_stringuvalue3_(s, c)
              \/ f = "stringuvalue9" /\ consume_stringuvalue9_(s, c)
    BY <2>6, <2>18, LastUnitCollected DEF Escapes
  <2> QED BY <2>3, <2>4, <2>8, <2>9, <2>10, <2>11, <2>12, <2>13, <2>14, <2>15, <2>16,
             <2>17, <2>18 DEF consume_
<1> QED BY <1>1, <1>2, <1>3

-----------------------------------------------------------------------------
(* The view of a text.                                                     *)

\* What a character does to the view.
ReadKeepsView ==
  /\ UNCHANGED textVars
  /\ first_ = 0 \/ Stopped'

ReadExtendsView ==
  /\ first_' = IF first_ = 0 THEN pos + 1 ELSE first_
  /\ end_buf_' = IF first_ = 0 THEN pos + 1 ELSE end_buf_ + 1
  /\ owed' = owed + 1
  /\ Last(consumer_stack_) \in Texts /\ consumer_stack_' = consumer_stack_
  /\ good' = TRUE

ReadOpensView ==
  /\ StringRoot = TRUE
  /\ first_ = 0 /\ first_' = pos + 2 /\ end_buf_' = pos + 2 /\ owed' = owed
  /\ \/ Last(consumer_stack_') \in Texts /\ good' = TRUE
     \/ Stopped'

LEMMA ReadTextView ==
  ASSUME NEW s, s.stack = consumer_stack_, Last(s.stack) \in Texts, NEW c, NEW content,
         NEW closing, consume_text_(s, c, content, closing)
  PROVE  ReadKeepsView \/ ReadExtendsView \/ HandedOver(pos + 1)
<1>1. CASE BeginEscape(s, content) \/ CloseText(s, content, closing)
  BY <1>1 DEF BeginEscape, CloseText
<1>2. CASE make_error(s) /\ Structural
  BY <1>2 DEF make_error, Structural, ReadKeepsView, Stopped
<1>3. CASE OrdinaryCharacter(s)
  BY <1>3 DEF OrdinaryCharacter, Return, ReadExtendsView
<1> QED BY <1>1, <1>2, <1>3 DEF consume_text_

LEMMA ReadInitialView ==
  ASSUME NEW s, Shaped(s), rejected \in BOOLEAN, NEW c, Sends(c), consume_initial_(s, c)
  PROVE  \/ UNCHANGED textVars
         \/ first_ = 0 => ReadOpensView
<1>1. CASE /\ c = Quote /\ begin_
           /\ first_' = pos + 2 /\ end_buf_' = pos + 2 /\ UNCHANGED owed
           /\ CallOrError(Push(s, "string"), "begin_string")
  <2>1. StringRoot = TRUE
    BY <1>1, FlagsAssumption DEF Sends
  <2>2. Last(Push(s, "string").stack) \in Texts
    BY ShapedPush DEF Consumers, Texts
  <2>3. Called(Push(s, "string"), "begin_string", TRUE).stack = Push(s, "string").stack
    BY ShapedPush, ShapedCalled DEF Consumers, Handlers
  <2>4. \/ consumer_stack_' = Push(s, "string").stack /\ good' = TRUE
        \/ Stopped'
    BY <1>1, <2>3 DEF CallOrError, Return, make_error, Stopped
  <2> QED BY <1>1, <2>1, <2>2, <2>4 DEF ReadOpensView
<1> QED BY <1>1 DEF consume_initial_, Structural

\* Outside texts no consumer looks at the view, but for the first quote.
LEMMA ReadOtherView ==
  ASSUME NEW s, NEW c, consume_(s, c), Last(s.stack) \notin Texts \cup {"initial"}
  PROVE  UNCHANGED textVars
BY DEF Texts, consume_, Structural, consume_arraystart_,
       consume_arrayseparator_, consume_array_itembegin_, StartItem, consume_array_,
       consume_objectstart_, consume_objectbetween_, consume_objectkey_,
       consume_objectseparator_, consume_objectvalue_, consume_literal_,
       consume_number_, consume_numberstarting0_, AppendDigit, EndNumber, Reconsume,
       consume_stringescape_, consume_stringuvalue_, consume_stringuvalue3_,
       consume_stringuvalue4_, consume_stringuvalue9_, consume_inerror_

LEMMA ReadView ==
  ASSUME DInv, NEW c, Read(c)
  PROVE  ReadKeepsView \/ ReadExtendsView \/ ReadOpensView \/ HandedOver(pos + 1)
<1>1. CASE error_
  <2>1. Stopped' /\ UNCHANGED textVars
    BY <1>1, ErrorReads, HereReturn DEF DInv, History, Structural, Stopped
  <2> QED BY <2>1 DEF ReadKeepsView
<1>2. CASE ~error_
  <2> DEFINE s == Here
             f == Last(s.stack)
  <2>1. ~ended /\ ended' = FALSE /\ begin_' \in BOOLEAN
    BY ReadControl DEF DInv, IInv, Read, Control
  <2>2. Working(s) /\ s.stack = consumer_stack_
    BY <1>2, <2>1, HereWorking
  <2>3. consume_(s, c) /\ Sends(c)
    BY DEF Read
  <2> HIDE DEF s
  <2>4. Shaped(s) /\ rejected \in BOOLEAN /\ f # "inerror"
    BY <2>2, WorkingShaped, NotInError
  <2>5. ~Stopped
    BY <2>2, <2>4 DEF Last, Stopped
  <2>6. CASE f \in Texts
    <3>1. \/ consume_text_(s, c, "string_content", "end_string")
          \/ consume_text_(s, c, "key_content", "end_key")
      BY <2>3, <2>6 DEF consume_, Texts, Literals, UnicodeArcs, PairArcs,
           consume_string_, consume_stringkey_
    <3> QED BY <2>2, <2>6, <3>1, ReadTextView
  <2>7. ASSUME f \notin Texts PROVE first_ = 0
    BY <2>2, <2>5, <2>7 DEF DInv, View, ViewOpen
  <2>8. CASE f = "initial"
    <3>1. consume_initial_(s, c)
      BY <2>3, <2>8 DEF consume_, Literals, UnicodeArcs, PairArcs
    <3>2. first_ = 0
      BY <2>7, <2>8 DEF Texts
    <3> QED BY <2>3, <2>4, <3>1, <3>2, ReadInitialView DEF ReadKeepsView
  <2>9. CASE f \notin Texts \cup {"initial"}
    BY <2>3, <2>7, <2>9, ReadOtherView DEF ReadKeepsView
  <2> QED BY <2>6, <2>8, <2>9
<1> QED BY <1>1, <1>2 DEF DInv, IInv, Control

-----------------------------------------------------------------------------
(* The steps of the parser.                                                *)

\* The flush at the end of a chunk hands over what a text has left.
LEMMA FlushStep ==
  ASSUME DInv, Flush
  PROVE  /\ History' /\ UNCHANGED valueVars
         /\ \/ HandedOver(end_buf_ + 1)
            \/ UNCHANGED textVars /\ Last(consumer_stack_) \notin Texts
         /\ Last(consumer_stack_) = "inerror" => ~good'
<1>1. /\ rejected \in BOOLEAN /\ Here.stack = consumer_stack_ /\ FlushConsumer(Here)
      /\ error_ \in BOOLEAN /\ end_ \in BOOLEAN /\ Here.end = end_
  BY DEF DInv, IInv, Control, History, Flush, Here
<1>2. Shaped(Here)
  <2>1. Here.calls \in Seq(CallRecord) /\ IsRecord(Here)
    BY DEF Here, IsRecord
  <2>2. << "inerror" >> \in Seq(Consumers)
    BY DEF Consumers
  <2>3. consumer_stack_ \in Seq(Consumers)
    BY <2>2 DEF DInv, IInv, Control, Path
  <2> QED BY <1>1, <2>1, <2>3 DEF Shaped
<1>3. ASSUME NEW content \in Handlers, FlushText(Here, content)
      PROVE  History' /\ UNCHANGED valueVars /\ HandedOver(end_buf_ + 1)
  <2>1. PICK ok \in ContentAnswers(content) : Return(ContentCalled(Here, content, ok), ok)
    BY <1>3 DEF FlushText
  <2>2. ok \in BOOLEAN
    BY AnswersBoolean DEF ContentAnswers
  <2>3. Shaped(ContentCalled(Here, content, ok))
    BY <1>2, <2>2, ShapedContent
  <2>4. History'
    BY <1>1, <2>1, <2>2, <2>3, ReturnLeft DEF Left
  <2> QED BY <1>3, <2>4 DEF FlushText
<1>4. ASSUME NEW ok \in BOOLEAN, Return(Here, ok), Structural
      PROVE  History' /\ UNCHANGED << valueVars, textVars >> /\ good' = ok
  BY <1>1, <1>4, HereReturn DEF Structural, Return
<1>5. {"string_content", "key_content"} \subseteq Handlers
  BY DEF Handlers
<1>6. \/ \E content \in Handlers : FlushText(Here, content)
      \/ /\ Last(consumer_stack_) \notin Texts
         /\ \E ok \in BOOLEAN : Return(Here, ok) /\ Structural
  BY <1>1, <1>5 DEF FlushConsumer, Texts, Literals
<1>7. Last(consumer_stack_) = "inerror" => Return(Here, FALSE) /\ Structural
  BY <1>1 DEF FlushConsumer, Literals
<1> QED BY <1>3, <1>4, <1>6, <1>7

LEMMA ReadViewKept ==
  ASSUME DInv, NEW c, Read(c)
  PROVE  View' /\ InCall'
<1>1. /\ pos \in Int /\ 0 <= pos /\ pos < MaxChunk + 1 /\ pos' = pos + 1
      /\ call # "none" /\ call' = call /\ call \in {"none", "char", "range"}
      /\ Len(consumer_stack_') <= MaxStack
      /\ MaxChunk \in Int /\ 0 <= MaxChunk
  BY BoundsAssumption DEF DInv, InCall, Read
<1>2. InCall'
  BY <1>1 DEF InCall
<1>3. /\ first_ \in Int /\ end_buf_ \in Int /\ owed \in Int
      /\ 0 <= first_ /\ first_ <= MaxChunk + 2 /\ 0 <= end_buf_ /\ end_buf_ <= MaxChunk + 2
  BY <1>1 DEF DInv, View, ViewRange
<1>4. CASE ReadKeepsView
  <2>1. ViewRange'
    BY <1>4 DEF ReadKeepsView, textVars, DInv, View, ViewRange
  <2>2. first_' = 0 \/ Stopped'
    BY <1>4 DEF ReadKeepsView, textVars
  <2> QED BY <1>2, <2>1, <2>2 DEF View
<1>5. CASE ReadExtendsView
  <2>1. /\ first_' \in Int /\ end_buf_' \in Int /\ owed' \in Int
        /\ first_' >= 0 /\ end_buf_' >= 0
        /\ first_' <= MaxChunk + 2
    BY <1>1, <1>3, <1>5 DEF ReadExtendsView
  <2>2. Last(consumer_stack_') \in Texts /\ ~Stopped
    BY <1>5 DEF ReadExtendsView, Texts, Last, Stopped
  <2>3. first_ # 0 => end_buf_ <= pos + 1 /\ (StringRoot = FALSE => end_buf_ = pos)
    BY <2>2 DEF DInv, View, ViewOpen
  <2>4. end_buf_' <= pos' + 1
    BY <1>1, <1>3, <1>5, <2>3 DEF ReadExtendsView
  <2>5. StringRoot = FALSE => end_buf_' = pos'
    BY <1>1, <1>3, <1>5, <2>3 DEF ReadExtendsView
  <2>6. end_buf_' <= MaxChunk + 2
    BY <1>1, <2>1, <2>4
  <2>7. ViewRange'
    BY <1>1, <2>1, <2>6 DEF ViewRange
  <2>8. ViewOpen'
    BY <1>1, <1>5, <2>2, <2>4, <2>5 DEF ReadExtendsView, ViewOpen
  <2> QED BY <1>2, <2>7, <2>8 DEF View
<1>6. CASE ReadOpensView
  <2>1. end_buf_' <= pos' + 1
    BY <1>1, <1>6 DEF ReadOpensView
  <2>2. ViewRange'
    BY <1>1, <1>3, <1>6 DEF ReadOpensView, ViewRange
  <2>3. Stopped' \/ ViewOpen'
    BY <1>1, <1>6, <2>1 DEF ReadOpensView, ViewOpen
  <2> QED BY <1>2, <2>2, <2>3 DEF View
<1>7. CASE HandedOver(pos + 1)
  <2>1. first_' = 0 /\ end_buf_' = end_buf_ /\ owed' \in Int
    BY <1>1, <1>3, <1>7 DEF HandedOver
  <2>2. ViewRange'
    BY <1>1, <1>3, <2>1 DEF ViewRange
  <2> QED BY <1>2, <2>1, <2>2 DEF View
<1> QED BY <1>2, <1>4, <1>5, <1>6, <1>7, ReadView

LEMMA DInit == Init => DInv
<1> SUFFICES ASSUME Init PROVE DInv
  OBVIOUS
<1>1. IInv
  BY InitInvariant
<1>2. << >> \in Seq(CallRecord)
  OBVIOUS
<1>3. Last(consumer_stack_) = "initial" /\ Len(consumer_stack_) = 1
  BY DEF Init, Last
<1>4. 0 \in Unit
  BY UnitBounds
<1>5. History
  BY <1>2 DEF Init, History
<1>6. TopMatches(consumer_stack_, inside_key_, lastValue_, lastCodePoint[2])
  BY <1>3 DEF TopMatches, Numbers, Escapes, LowBound
<1>7. Collected
  BY <1>4, <1>6 DEF Init, Collected
<1>8. View
  BY BoundsAssumption DEF Init, View, ViewRange
<1>9. InCall
  BY <1>3, BoundsAssumption DEF Init, InCall
<1> QED BY <1>1, <1>5, <1>7, <1>8, <1>9 DEF DInv

LEMMA DNext == DInv /\ [Next]_vars => DInv'
<1> SUFFICES ASSUME DInv, [Next]_vars PROVE DInv'
  OBVIOUS
<1>1. IInv'
  BY NextInvariant DEF DInv
<1>2. << >> \in Seq(CallRecord)
  OBVIOUS
<1>3. CASE \E kind \in {"char", "range"} : StartCall(kind)
  <2>1. History'
    BY <1>2, <1>3 DEF StartCall, DInv, History
  <2>2. Collected'
    BY <1>3 DEF StartCall, DInv, Collected, valueVars, Stopped
  <2>3. first_ = 0 \/ Stopped
    BY <1>3 DEF StartCall, DInv, View, ViewOpen
  <2>4. View'
    BY <1>3, <2>3 DEF StartCall, DInv, View, ViewRange, textVars, Stopped
  <2>5. InCall'
    BY <1>3 DEF StartCall, DInv, InCall
  <2> QED BY <1>1, <2>1, <2>2, <2>4, <2>5 DEF DInv
<1>4. ASSUME NEW c \in Chars, Read(c)
      PROVE  DInv'
  BY <1>1, <1>4, ReadCollected, ReadViewKept DEF DInv
<1>5. CASE Flush
  <2>1. UNCHANGED << consumer_stack_, error_ >> /\ call' = "none" /\ pos' = 0
    BY <1>5, FlushKeeps DEF Flush
  <2>2. History' /\ UNCHANGED valueVars
    BY <1>5, FlushStep
  <2>3. Collected'
    BY <2>1, <2>2 DEF DInv, Collected, valueVars, Stopped
  <2>4. InCall'
    BY <2>1, BoundsAssumption DEF DInv, InCall
  <2>5. CASE HandedOver(end_buf_ + 1)
    <3>1. ViewRange' /\ first_' = 0
      BY <2>5, BoundsAssumption DEF HandedOver, DInv, View, ViewRange
    <3> QED BY <1>1, <2>2, <2>3, <2>4, <3>1 DEF DInv, View
  <2>6. CASE UNCHANGED textVars /\ Last(consumer_stack_) \notin Texts
    <3>1. ViewRange' /\ (first_' = 0 \/ Stopped')
      BY <2>1, <2>6 DEF DInv, View, ViewRange, ViewOpen, textVars, Stopped
    <3> QED BY <1>1, <2>2, <2>3, <2>4, <3>1 DEF DInv, View
  <2> QED BY <1>5, <2>5, <2>6, FlushStep
<1>6. CASE ReturnFalse
  <2>1. History'
    BY <1>2, <1>6 DEF ReturnFalse, DInv, History
  <2>2. Collected'
    BY <1>6 DEF ReturnFalse, DInv, Collected, valueVars, Stopped
  <2>3. first_ = 0 \/ Stopped
    BY <1>6 DEF ReturnFalse, DInv, View, ViewOpen
  <2>4. View'
    BY <1>6, <2>3 DEF ReturnFalse, DInv, View, ViewRange, textVars, Stopped
  <2>5. InCall'
    BY <1>6, BoundsAssumption DEF ReturnFalse, DInv, InCall
  <2> QED BY <1>1, <2>1, <2>2, <2>4, <2>5 DEF DInv
<1>7. CASE end
  <2>1. error_ \in BOOLEAN /\ error_' \in BOOLEAN /\ (error_ => error_')
    BY <1>1, <1>7 DEF DInv, IInv, Control, end
  <2>2. History'
    BY <1>2, <1>7, <2>1 DEF end, History
  <2>3. Collected'
    BY <1>7, <2>1 DEF end, DInv, Collected, valueVars, Stopped
  <2>4. first_ = 0 \/ Stopped
    BY <1>7 DEF end, DInv, View, ViewOpen
  <2>5. View'
    BY <1>7, <2>4 DEF end, DInv, View, ViewRange, textVars, Stopped
  <2>6. InCall'
    BY <1>7 DEF end, DInv, InCall
  <2> QED BY <1>1, <2>2, <2>3, <2>5, <2>6 DEF DInv
<1>8. CASE UNCHANGED vars
  BY <1>1, <1>8 DEF vars, DInv, History, Collected, View, ViewRange, ViewOpen, InCall, Stopped
<1> QED BY <1>3, <1>4, <1>5, <1>6, <1>7, <1>8 DEF Next, Done

\* The data kept beside the stack agrees with the consumer on top of it in every
\* state of the parser (parser_bits.h, all members).
THEOREM DataInvariance == Spec => []DInv
BY DInit, DNext, PTL DEF Spec

-----------------------------------------------------------------------------
(* What follows from the invariant.                                        *)

LEMMA StackTyped ==
  ASSUME DInv
  PROVE  consumer_stack_ \in Seq(Consumers) /\ Len(consumer_stack_) \in 1 .. MaxStack
<1>1. << "inerror" >> \in Seq(Consumers)
  BY DEF Consumers
<1>2. consumer_stack_ \in Seq(Consumers)
  BY <1>1 DEF DInv, IInv, Control, Path
<1>3. Len(consumer_stack_) \in Nat /\ Len(consumer_stack_) >= 1
  BY <1>1 DEF DInv, IInv, Control, Path
<1>4. Len(consumer_stack_) <= MaxStack /\ MaxStack \in Nat
  BY BoundsAssumption DEF DInv, InCall
<1> QED BY <1>2, <1>3, <1>4

\* Every variable keeps its type, the halves of lastCodePoint stay below 2^16 and
\* the view stays inside the chunk (parser_bits.h, all members).
THEOREM TypesKept == Spec => []TypeOK
<1>1. ASSUME DInv PROVE TypeOK
  <2>1. consumer_stack_ \in Seq(Consumers) /\ Len(consumer_stack_) \in 1 .. MaxStack
    BY <1>1, StackTyped
  <2>2. begin_ \in BOOLEAN /\ error_ \in BOOLEAN /\ ended \in BOOLEAN
    BY <1>1 DEF DInv, IInv, Control
  <2>3. /\ inside_key_ \in BOOLEAN /\ lastValue_ \in Classes \cup {"text"}
        /\ lastCodePoint \in Unit \X Unit
    BY <1>1 DEF DInv, Collected
  <2>4. /\ calls \in Seq([handler : Handlers, ok : BOOLEAN])
        /\ end_ \in BOOLEAN /\ good \in BOOLEAN /\ rejected \in BOOLEAN
    BY <1>1 DEF DInv, History, CallRecord
  <2>5. /\ first_ \in 0 .. MaxChunk + 2 /\ end_buf_ \in 0 .. MaxChunk + 2 /\ owed \in Int
        /\ call \in {"none", "char", "range"} /\ pos \in 0 .. MaxChunk + 1
    BY <1>1 DEF DInv, View, ViewRange, InCall
  <2> QED BY <2>1, <2>2, <2>3, <2>4, <2>5 DEF TypeOK
<1> QED BY <1>1, DataInvariance, PTL

\* The flag stored when an escape begins still tells the text it stands in when
\* the escape is read to its end (parser_bits.h, inside_key_).
THEOREM EscapeFlagRight == Spec => []EscapeKnowsItsText
<1>1. ASSUME DInv PROVE EscapeKnowsItsText
  <2>1. CASE Stopped
    BY <2>1 DEF EscapeKnowsItsText, Stopped, Last, Escapes
  <2>2. CASE ~Stopped
    BY <1>1, <2>2 DEF DInv, Collected, TopMatches, EscapeKnowsItsText
  <2> QED BY <2>1, <2>2
<1> QED BY <1>1, DataInvariance, PTL

\* No view of the characters of one call is kept until the next (parser_bits.h,
\* the final consume_(nullptr) of consume).
THEOREM NoViewLeft == Spec => []NoDanglingView
<1>1. ASSUME DInv PROVE NoDanglingView
  <2>1. Stopped => Last(consumer_stack_) = "inerror"
    BY DEF Stopped, Last
  <2>2. call = "none" /\ first_ # 0 => Stopped
    BY <1>1 DEF DInv, View, ViewOpen
  <2> QED BY <2>1, <2>2 DEF NoDanglingView
<1> QED BY <1>1, DataInvariance, PTL

\* consume() and end() return false from the first error on (parser_bits.h,
\* consume, end, make_error).
THEOREM ErrorsReported == Spec => []ErrorReported
<1>1. Init => ErrorReported
  BY DEF Init, ErrorReported
<1>2. ASSUME DInv, ErrorReported, [Next]_vars PROVE ErrorReported'
  <2>1. CASE (\E kind \in {"char", "range"} : StartCall(kind)) \/ \E c \in Chars : Read(c)
    BY <2>1 DEF StartCall, Read, ErrorReported
  <2>2. CASE Flush
    <3>1. error_' = error_ /\ ~ended
      BY <1>2, <2>2, FlushKeeps DEF Flush, DInv, IInv
    <3>2. error_ => Last(consumer_stack_) = "inerror"
      BY <1>2, <3>1 DEF DInv, IInv, Control, Last
    <3> QED BY <1>2, <2>2, <3>1, <3>2, FlushStep DEF ErrorReported
  <2>3. CASE ReturnFalse
    BY <2>3 DEF ReturnFalse, ErrorReported
  <2>4. CASE end
    BY <2>4 DEF end, ErrorReported
  <2>5. CASE UNCHANGED vars
    BY <1>2, <2>5 DEF vars, ErrorReported
  <2> QED BY <1>2, <2>1, <2>2, <2>3, <2>4, <2>5 DEF Next, Done
<1> QED BY <1>1, <1>2, DataInvariance, PTL DEF Spec

\* What was read of a text and not handed over, as a number of characters.
Kept(first, last) == IF first = 0 THEN 0 ELSE last + 1 - first

LEMMA ReadAccounted ==
  ASSUME DInv, StringRoot = FALSE, ContentAccounted, NEW c, Read(c)
  PROVE  ContentAccounted'
<1>1. first_ \in Int /\ end_buf_ \in Int /\ owed \in Int /\ pos \in Int /\ 0 <= pos
  BY BoundsAssumption DEF DInv, View, ViewRange, InCall
<1>2. CASE error_
  <2>1. error_' = error_
    BY <1>2, ErrorReads, HereReturn DEF DInv, History
  <2> QED BY <1>2, <2>1 DEF ContentAccounted
<1>3. CASE ~error_
  <2>1. ~Stopped
    <3>1. ~ended /\ Path(consumer_stack_)
      BY <1>3 DEF Read, DInv, IInv, Control
    <3> QED BY <3>1, NotInError DEF Stopped, Last
  <2>2. owed = Kept(first_, end_buf_) /\ (first_ # 0 => end_buf_ = pos)
    BY <1>3, <2>1 DEF ContentAccounted, Kept, DInv, View, ViewOpen
  <2>3. CASE ReadKeepsView
    BY <2>2, <2>3 DEF ReadKeepsView, textVars, ContentAccounted, Kept
  <2>4. CASE ReadExtendsView
    BY <1>1, <2>2, <2>4 DEF ReadExtendsView, ContentAccounted, Kept
  <2>5. CASE HandedOver(pos + 1)
    BY <1>1, <2>2, <2>5 DEF HandedOver, ContentAccounted, Kept
  <2>6. CASE ReadOpensView
    BY <2>6 DEF ReadOpensView
  <2> QED BY <2>3, <2>4, <2>5, <2>6, ReadView
<1> QED BY <1>2, <1>3 DEF DInv, IInv, Control

\* In a document that is no string every character of a text is handed over once
\* (parser_bits.h, first_ and end_buf_).
THEOREM EveryCharacterOnce ==
  ASSUME StringRoot = FALSE
  PROVE  Spec => []ContentAccounted
<1>1. Init => ContentAccounted
  BY DEF Init, ContentAccounted
<1>2. ASSUME DInv, ContentAccounted, [Next]_vars PROVE ContentAccounted'
  <2>1. first_ \in Int /\ end_buf_ \in Int /\ owed \in Int
    BY <1>2, BoundsAssumption DEF DInv, View, ViewRange
  <2>2. ASSUME UNCHANGED textVars, ~error_' => ~error_
        PROVE  ContentAccounted'
    BY <1>2, <2>2 DEF ContentAccounted, textVars
  <2>3. CASE \E kind \in {"char", "range"} : StartCall(kind)
    BY <2>2, <2>3 DEF StartCall
  <2>4. ASSUME NEW c \in Chars, Read(c) PROVE ContentAccounted'
    BY <1>2, <2>4, ReadAccounted
  <2>5. CASE Flush
    <3>1. error_' = error_
      BY <2>5, FlushKeeps
    <3>2. CASE HandedOver(end_buf_ + 1)
      BY <1>2, <2>1, <3>1, <3>2 DEF HandedOver, ContentAccounted
    <3> QED BY <1>2, <2>2, <2>5, <3>1, <3>2, FlushStep
  <2>6. CASE ReturnFalse
    BY <2>2, <2>6 DEF ReturnFalse
  <2>7. CASE end
    BY <2>2, <2>7 DEF end
  <2>8. CASE UNCHANGED vars
    BY <2>2, <2>8 DEF vars, textVars
  <2> QED BY <1>2, <2>3, <2>4, <2>5, <2>6, <2>7, <2>8 DEF Next, Done
<1> QED BY <1>1, <1>2, DataInvariance, PTL DEF Spec

-----------------------------------------------------------------------------
(* The parser implements SaxProtocol: every step of ParserBits is a step of *)
(* the protocol on the frames that its stack stands for, but for surrogate *)
(* pairs in keys.                                                          *)

(* Sequences as the protocol changes them.                                 *)

LEMMA LastAppended ==
  ASSUME NEW S, NEW q \in Seq(S), NEW x \in S, NEW y \in S
  PROVE  /\ Append(q, x) \in Seq(S)
         /\ Last(Append(q, x)) = x
         /\ Front(Append(q, x)) = q
         /\ Sax!WithLast(Append(q, x), y) = Append(q, y)
<1> DEFINE r == Append(q, x)
<1>1. /\ r \in Seq(S) /\ Len(r) = Len(q) + 1 /\ Len(q) \in Nat
      /\ \A i \in 1 .. Len(q) : r[i] = q[i]
      /\ r[Len(q) + 1] = x
  BY AppendProperties
<1> HIDE DEF r
<1>2. Last(r) = x
  BY <1>1 DEF Last
<1>3. Front(r) = q
  <2>1. Front(r) \in Seq(S) /\ Len(Front(r)) = Len(q)
    BY <1>1 DEF Front
  <2>2. \A i \in 1 .. Len(q) : Front(r)[i] = q[i]
    BY <1>1 DEF Front
  <2> QED BY <2>1, <2>2, SeqEqual
<1>4. Sax!WithLast(r, y) = Append(q, y)
  <2>1. /\ Sax!WithLast(r, y) \in Seq(S) /\ Len(Sax!WithLast(r, y)) = Len(q) + 1
        /\ \A i \in 1 .. Len(q) : Sax!WithLast(r, y)[i] = q[i]
        /\ Sax!WithLast(r, y)[Len(q) + 1] = y
    <3>1. Len(r) > 0 /\ Len(r) - 1 = Len(q)
      BY <1>1
    <3>2. Sax!WithLast(r, y) \in Seq(S) /\ Len(Sax!WithLast(r, y)) = Len(r)
      BY <1>1, <3>1 DEF Sax!WithLast
    <3>3. \A i \in 1 .. Len(q) : Sax!WithLast(r, y)[i] = r[i]
      BY <1>1, <3>1 DEF Sax!WithLast
    <3>4. Sax!WithLast(r, y)[Len(q) + 1] = y
      BY <1>1, <3>1 DEF Sax!WithLast
    <3> QED BY <1>1, <3>2, <3>3, <3>4
  <2>2. /\ Append(q, y) \in Seq(S) /\ Len(Append(q, y)) = Len(q) + 1
        /\ \A i \in 1 .. Len(q) : Append(q, y)[i] = q[i]
        /\ Append(q, y)[Len(q) + 1] = y
    BY AppendProperties
  <2>3. \A i \in 1 .. Len(q) + 1 : Sax!WithLast(r, y)[i] = Append(q, y)[i]
    BY <1>1, <2>1, <2>2
  <2> QED BY <2>1, <2>2, <2>3, SeqEqual
<1> QED BY <1>1, <1>2, <1>3, <1>4 DEF r

LEMMA LastSplit ==
  ASSUME NEW S, NEW q \in Seq(S), Len(q) > 0, NEW y \in S
  PROVE  /\ Front(q) \in Seq(S) /\ Last(q) \in S
         /\ q = Append(Front(q), Last(q))
         /\ Sax!WithLast(q, y) = Append(Front(q), y)
<1>1. /\ Front(q) \in Seq(S) /\ Last(q) \in S /\ Len(q) \in Nat
      /\ Len(Front(q)) = Len(q) - 1 /\ Last(q) = q[Len(q)]
      /\ \A i \in 1 .. Len(q) - 1 : Front(q)[i] = q[i]
  <2>1. Len(q) \in Nat /\ Last(q) = q[Len(q)] /\ Last(q) \in S
    BY DEF Last
  <2>2. Front(q) = SubSeq(q, 1, Len(q) - 1)
    BY DEF Front
  <2>3. \A i \in 1 .. Len(q) - 1 : q[i] \in S
    BY <2>1
  <2>5. Front(q) \in Seq(S)
    BY <2>1, <2>2, <2>3, SubSeqProperties
  <2>6. Len(Front(q)) = Len(q) - 1
    <3>1. Len(Front(q)) = IF 1 <= Len(q) - 1 THEN Len(q) - 1 - 1 + 1 ELSE 0
      BY <2>1, <2>2, <2>3, SubSeqProperties
    <3> DEFINE n == Len(q)
    <3>2. n \in Nat /\ n > 0 /\ Len(Front(q)) = IF 1 <= n - 1 THEN n - 1 - 1 + 1 ELSE 0
      BY <2>1, <3>1
    <3> HIDE DEF n
    <3>3. Len(Front(q)) = n - 1
      <4>1. CASE 1 <= n - 1
        BY <3>2, <4>1
      <4>2. CASE ~(1 <= n - 1)
        BY <3>2, <4>2
      <4> QED BY <4>1, <4>2
    <3> QED BY <3>3 DEF n
  <2>4. \A i \in 1 .. Len(q) - 1 : Front(q)[i] = q[i]
    BY <2>1, <2>2
  <2> QED BY <2>1, <2>4, <2>5, <2>6
<1>2. q = Append(Front(q), Last(q))
  <2> DEFINE r == Append(Front(q), Last(q))
  <2>1. /\ r \in Seq(S) /\ Len(r) = Len(q)
        /\ \A i \in 1 .. Len(q) - 1 : r[i] = q[i]
        /\ r[Len(q)] = q[Len(q)]
    BY <1>1, AppendProperties
  <2> HIDE DEF r
  <2>2. \A i \in 1 .. Len(q) : q[i] = r[i]
    BY <1>1, <2>1
  <2>3. q = r
    BY <2>1, <2>2, SeqEqual
  <2> QED BY <2>3 DEF r
<1>3. Sax!WithLast(Append(Front(q), Last(q)), y) = Append(Front(q), y)
  <2>1. \A f \in Seq(S), l \in S : Sax!WithLast(Append(f, l), y) = Append(f, y)
    BY LastAppended
  <2> QED BY <1>1, <2>1
<1> QED BY <1>1, <1>2, <1>3

-----------------------------------------------------------------------------
(* The frames of a stack.                                                  *)

FrameNames == {"root", "done", "array", "object", "property", "string", "key", "stopped"}

\* The frame of a consumer that is on top.
TopFrame(f, begin) ==
  CASE f = "initial" -> IF begin THEN "root" ELSE "done"
    [] f \in {"arraystart", "array", "arrayseparator"} -> "array"
    [] f \in {"objectstart", "objectbetween", "objectvalue"} -> "object"
    [] f \in {"objectkey", "objectseparator"} -> "property"
    [] f = "string" -> "string"
    [] f = "stringkey" -> "key"

Simples == Literals \cup Numbers

\* The frame of a consumer below another one.
CoveredFrame(f, above, begin) ==
  CASE f = "initial" -> IF begin THEN "root" ELSE "done"
    [] f = "array" -> "array"
    [] f = "objectkey" -> "object"
    [] f = "objectvalue" -> IF above \in Simples THEN "property" ELSE "object"
    [] f = "string" -> "string"
    [] f = "stringkey" -> "key"

\* The frames of all consumers but the one on top.
FramesBelow(stack, begin) == [i \in 1 .. Len(stack) - 1 |-> FrameOf(stack, begin, i)]

LEMMA CoveredKinds ==
  ASSUME NEW f, NEW g, Fits(f, g)
  PROVE  f \in {"initial", "array", "objectvalue", "objectkey", "string", "stringkey"}
BY DEF Fits

LEMMA FrameCovered ==
  ASSUME NEW stack, Path(stack), NEW b \in BOOLEAN, NEW i \in 1 .. Len(stack) - 1
  PROVE  /\ FrameOf(stack, b, i) = CoveredFrame(stack[i], stack[i + 1], b)
         /\ FrameOf(stack, b, i) \in FrameNames
<1>1. Len(stack) \in Nat
  BY DEF Path
<1>2. i < Len(stack) /\ i + 1 \in 2 .. Len(stack) /\ i + 1 - 1 = i
  BY <1>1
<1>3. Fits(stack[i], stack[i + 1])
  BY <1>2 DEF Path
<1>4. stack[i] \in {"initial", "array", "objectvalue", "objectkey", "string", "stringkey"}
  BY <1>3, CoveredKinds
<1>5. FrameOf(stack, b, i) = CoveredFrame(stack[i], stack[i + 1], b)
  BY <1>2, <1>4 DEF FrameOf, CoveredFrame, Simples
<1>6. CoveredFrame(stack[i], stack[i + 1], b) \in FrameNames
  BY <1>4 DEF CoveredFrame, FrameNames
<1> QED BY <1>5, <1>6

LEMMA BelowTyped ==
  ASSUME NEW stack, Path(stack), NEW b \in BOOLEAN
  PROVE  /\ FramesBelow(stack, b) \in Seq(FrameNames)
         /\ Len(FramesBelow(stack, b)) = Len(stack) - 1
<1>1. Len(stack) - 1 \in Nat
  BY DEF Path
<1>2. FramesBelow(stack, b) \in [1 .. Len(stack) - 1 -> FrameNames]
  BY FrameCovered DEF FramesBelow
<1> QED BY <1>1, <1>2

LEMMA BelowAt ==
  ASSUME NEW stack, Path(stack), NEW b \in BOOLEAN, NEW i \in 1 .. Len(stack) - 1
  PROVE  FramesBelow(stack, b)[i] = CoveredFrame(stack[i], stack[i + 1], b)
BY FrameCovered DEF FramesBelow

\* The frames of a path are those below the top, and its own if it is one.
LEMMA TopKinds ==
  ASSUME NEW stack, Path(stack), IsFrame(Last(stack)), NEW b \in BOOLEAN
  PROVE  /\ Last(stack) \in Containers \cup {"initial", "string", "stringkey"}
         /\ FrameOf(stack, b, Len(stack)) = TopFrame(Last(stack), b)
         /\ TopFrame(Last(stack), b) \in FrameNames
<1>1. Last(stack) = stack[Len(stack)] /\ Last(stack) \in Consumers
  BY LastOfPath
<1>2. Last(stack) # "inerror"
  BY NotInError
<1>3. Last(stack) \in Containers \cup {"initial", "string", "stringkey"}
  BY <1>1, <1>2 DEF Consumers, Containers, IsFrame
<1>4. ~(Len(stack) < Len(stack))
  BY DEF Path
<1>5. FrameOf(stack, b, Len(stack)) = TopFrame(Last(stack), b)
  BY <1>1, <1>3, <1>4 DEF FrameOf, TopFrame, Containers
<1>6. TopFrame(Last(stack), b) \in FrameNames
  BY <1>3 DEF TopFrame, FrameNames, Containers
<1> QED BY <1>3, <1>5, <1>6

LEMMA FramesOfPath ==
  ASSUME NEW stack, Path(stack), NEW b \in BOOLEAN
  PROVE  /\ IsFrame(Last(stack)) =>
              FramesOf(stack, b) = Append(FramesBelow(stack, b), TopFrame(Last(stack), b))
         /\ ~IsFrame(Last(stack)) => FramesOf(stack, b) = FramesBelow(stack, b)
<1>1. ~IsFrame(Last(stack)) => FramesOf(stack, b) = FramesBelow(stack, b)
  BY DEF FramesOf, FramesBelow
<1>2. ASSUME IsFrame(Last(stack))
      PROVE  FramesOf(stack, b) = Append(FramesBelow(stack, b), TopFrame(Last(stack), b))
  <2> DEFINE n == Len(stack)
             F == FramesOf(stack, b)
             q == FramesBelow(stack, b)
             x == TopFrame(Last(stack), b)
  <2>1. n \in Nat /\ n >= 1
    BY DEF Path
  <2>2. q \in Seq(FrameNames) /\ Len(q) = n - 1
    BY BelowTyped
  <2>3. x \in FrameNames /\ FrameOf(stack, b, n) = x
    BY <1>2, TopKinds
  <2>4. F = [i \in 1 .. n |-> FrameOf(stack, b, i)]
    BY <1>2 DEF FramesOf
  <2>5. \A i \in 1 .. n - 1 : FrameOf(stack, b, i) = q[i] /\ q[i] \in FrameNames
    BY FrameCovered DEF FramesBelow
  <2> HIDE DEF n, F, q, x
  <2>6. \A i \in 1 .. n : F[i] \in FrameNames
    <3> SUFFICES ASSUME NEW i \in 1 .. n PROVE F[i] \in FrameNames
      OBVIOUS
    <3>1. i \in 1 .. n - 1 \/ i = n
      BY <2>1
    <3> QED BY <2>3, <2>4, <2>5, <3>1
  <2>7. F \in Seq(FrameNames) /\ Len(F) = n
    <3>1. F \in [1 .. n -> FrameNames]
      BY <2>4, <2>6
    <3> QED BY <2>1, <3>1
  <2>8. /\ Append(q, x) \in Seq(FrameNames) /\ Len(Append(q, x)) = n
        /\ \A i \in 1 .. n - 1 : Append(q, x)[i] = q[i]
        /\ Append(q, x)[n] = x
    <3>1. Len(q) + 1 = n
      BY <2>1, <2>2
    <3>2. Append(q, x) \in Seq(FrameNames) /\ Len(Append(q, x)) = Len(q) + 1
      BY <2>2, <2>3, AppendProperties
    <3>3. \A i \in 1 .. Len(q) : Append(q, x)[i] = q[i]
      BY <2>2, <2>3, AppendProperties
    <3>4. Append(q, x)[Len(q) + 1] = x
      BY <2>2, <2>3, AppendProperties
    <3> QED BY <2>2, <3>1, <3>2, <3>3, <3>4
  <2>9. \A i \in 1 .. n : F[i] = Append(q, x)[i]
    <3> SUFFICES ASSUME NEW i \in 1 .. n PROVE F[i] = Append(q, x)[i]
      OBVIOUS
    <3>1. i \in 1 .. n - 1 \/ i = n
      BY <2>1
    <3> QED BY <2>3, <2>4, <2>5, <2>8, <3>1
  <2>10. F = Append(q, x)
    BY <2>7, <2>8, <2>9, SeqEqual
  <2> QED BY <2>10 DEF F, q, x
<1> QED BY <1>1, <1>2

LEMMA FramesBelowPushed ==
  ASSUME NEW stack, Path(stack), NEW f \in Consumers, Fits(Last(stack), f), NEW b \in BOOLEAN
  PROVE  FramesBelow(Append(stack, f), b) = Append(FramesBelow(stack, b), CoveredFrame(Last(stack), f, b))
<1> DEFINE n == Len(stack)
           t == Append(stack, f)
           q == FramesBelow(stack, b)
           x == CoveredFrame(Last(stack), f, b)
           B == FramesBelow(t, b)
<1>1. n \in Nat /\ n >= 1 /\ Last(stack) = stack[n]
  BY LastOfPath DEF Path
<1>2. Path(t) /\ Len(t) = n + 1
  BY PushPath
<1>3. /\ \A i \in 1 .. n : t[i] = stack[i]
      /\ t[n + 1] = f
  BY DEF Path
<1>4. q \in Seq(FrameNames) /\ Len(q) = n - 1
  BY BelowTyped
<1>5. x \in FrameNames
  BY CoveredKinds DEF CoveredFrame, FrameNames
<1> HIDE DEF t
<1>6. B \in Seq(FrameNames) /\ Len(B) = Len(t) - 1
  BY <1>2, BelowTyped
<1>7. Len(t) - 1 = n
  BY <1>1, <1>2
<1>8. B \in Seq(FrameNames) /\ Len(B) = n
  BY <1>6, <1>7
<1>9. \A i \in 1 .. Len(t) - 1 : B[i] = CoveredFrame(t[i], t[i + 1], b)
  BY <1>2, BelowAt
<1>10. \A i \in 1 .. n : B[i] = CoveredFrame(t[i], t[i + 1], b)
  BY <1>7, <1>9
<1>11. \A i \in 1 .. n - 1 : q[i] = CoveredFrame(stack[i], stack[i + 1], b)
  BY BelowAt
<1>12. B[n] = x
  BY <1>1, <1>3, <1>10
<1>13. \A i \in 1 .. n - 1 : B[i] = q[i]
  BY <1>1, <1>3, <1>10, <1>11
<1> HIDE DEF n, q, x, B
<1>14. Append(q, x) \in Seq(FrameNames) /\ Len(Append(q, x)) = n
  BY <1>1, <1>4, <1>5, AppendProperties
<1>15. (\A i \in 1 .. n - 1 : Append(q, x)[i] = q[i]) /\ Append(q, x)[n] = x
  <2>1. /\ \A i \in 1 .. Len(q) : Append(q, x)[i] = q[i]
        /\ Append(q, x)[Len(q) + 1] = x
    BY <1>4, <1>5, AppendProperties
  <2> QED BY <1>1, <1>4, <2>1
<1>16. ASSUME NEW i \in 1 .. n PROVE B[i] = Append(q, x)[i]
  <2>1. i \in 1 .. n - 1 \/ i = n
    BY <1>1
  <2> QED BY <1>12, <1>13, <1>15, <2>1
<1>17. B = Append(q, x)
  BY <1>8, <1>14, <1>16, SeqEqual
<1>18. FramesBelow(Append(stack, f), b) = Append(FramesBelow(stack, b), CoveredFrame(Last(stack), f, b))
  BY <1>17 DEF B, t, q, x
<1> QED BY <1>18

\* What a consumer turns into is what it was to those below it.
LEMMA BelowExchanged ==
  ASSUME NEW stack, Path(stack), NEW g \in Consumers, SamePlace(Last(stack), g),
         NEW new, new = [stack EXCEPT ![Len(stack)] = g], NEW b \in BOOLEAN
  PROVE  FramesBelow(new, b) = FramesBelow(stack, b)
<1> DEFINE n == Len(stack)
<1>1. n \in Nat /\ n >= 1 /\ Last(stack) = stack[n]
  BY LastOfPath DEF Path
<1>2. Path(new) /\ Len(new) = n /\ Last(new) = g
  BY BecomePath
<1>3. new[n] = g /\ \A i \in 1 .. n - 1 : new[i] = stack[i]
  BY DEF Path
<1>4. g \in Simples <=> Last(stack) \in Simples
  BY DEF SamePlace, Simples, Containers, Literals, Numbers, Escapes
<1>5. ASSUME NEW f PROVE CoveredFrame(f, g, b) = CoveredFrame(f, Last(stack), b)
  BY <1>4 DEF CoveredFrame
<1>6. FramesBelow(stack, b) \in Seq(FrameNames) /\ Len(FramesBelow(stack, b)) = n - 1
  BY BelowTyped
<1>7. FramesBelow(new, b) \in Seq(FrameNames) /\ Len(FramesBelow(new, b)) = n - 1
  BY <1>2, BelowTyped
<1>8. ASSUME NEW i \in 1 .. n - 1
      PROVE  FramesBelow(new, b)[i] = FramesBelow(stack, b)[i]
  <2>1. FramesBelow(new, b)[i] = CoveredFrame(new[i], new[i + 1], b)
    BY <1>2, BelowAt
  <2>2. FramesBelow(stack, b)[i] = CoveredFrame(stack[i], stack[i + 1], b)
    BY BelowAt
  <2>3. CASE i = n - 1
    <3>1. i + 1 = n
      BY <1>1, <2>3
    <3> QED BY <1>1, <1>3, <1>5, <2>1, <2>2, <3>1
  <2>4. CASE i # n - 1
    <3>1. i + 1 \in 1 .. n - 1
      BY <1>1, <2>4
    <3> QED BY <1>3, <2>1, <2>2, <3>1
  <2> QED BY <2>3, <2>4
<1> QED BY <1>6, <1>7, <1>8, SeqEqual

LEMMA BelowPopped ==
  ASSUME NEW stack, Path(stack), Len(stack) > 1, NEW b \in BOOLEAN
  PROVE  /\ Len(FramesBelow(stack, b)) > 0
         /\ FramesBelow(Front(stack), b) = Front(FramesBelow(stack, b))
         /\ Last(FramesBelow(stack, b)) = CoveredFrame(stack[Len(stack) - 1], Last(stack), b)
<1> DEFINE n == Len(stack)
           q == FramesBelow(stack, b)
           B == FramesBelow(Front(stack), b)
<1>1. n \in Nat /\ n >= 2 /\ Last(stack) = stack[n] /\ n - 1 \in 1 .. n - 1 /\ n - 1 + 1 = n
  BY LastOfPath DEF Path
<1>2. Path(Front(stack)) /\ Len(Front(stack)) = n - 1
  BY FrontPath
<1>3. \A i \in 1 .. n - 1 : Front(stack)[i] = stack[i]
  BY DEF Front, Path
<1>4. q \in Seq(FrameNames) /\ Len(q) = n - 1
  BY BelowTyped
<1>5. Last(q) = CoveredFrame(stack[n - 1], Last(stack), b)
  <2>1. q[n - 1] = CoveredFrame(stack[n - 1], stack[n - 1 + 1], b)
    BY <1>1, BelowAt
  <2> QED BY <1>1, <1>4, <2>1 DEF Last
<1>6. B \in Seq(FrameNames) /\ Len(B) = n - 1 - 1
  BY <1>2, BelowTyped
<1>7. \A i \in 1 .. n - 2 : B[i] = q[i]
  <2> SUFFICES ASSUME NEW i \in 1 .. n - 2 PROVE B[i] = q[i]
    OBVIOUS
  <2>1. i \in 1 .. n - 1 /\ i + 1 \in 1 .. n - 1 /\ i \in 1 .. Len(Front(stack)) - 1
    BY <1>1, <1>2
  <2>2. B[i] = CoveredFrame(Front(stack)[i], Front(stack)[i + 1], b)
    BY <1>2, <2>1, BelowAt
  <2>3. q[i] = CoveredFrame(stack[i], stack[i + 1], b)
    BY <2>1, BelowAt
  <2> QED BY <1>3, <2>1, <2>2, <2>3
<1>8. Len(q) > 0
  BY <1>1, <1>4
<1> HIDE DEF n, q, B
<1>9. Front(q) \in Seq(FrameNames) /\ Len(Front(q)) = n - 2 /\ \A i \in 1 .. n - 2 : Front(q)[i] = q[i]
  <2>1. Front(q) = SubSeq(q, 1, n - 2) /\ n - 2 \in Nat
    BY <1>1, <1>4 DEF Front
  <2>2. \A i \in 1 .. n - 2 : q[i] \in FrameNames
    BY <1>1, <1>4
  <2>3. Front(q) \in Seq(FrameNames)
    BY <2>1, <2>2, SubSeqProperties
  <2>4. Len(Front(q)) = n - 2
    BY <1>1, <1>4, <2>1
  <2>5. \A i \in 1 .. n - 2 : Front(q)[i] = q[i]
    BY <1>1, <1>4, <2>1
  <2> QED BY <2>3, <2>4, <2>5
<1>10. Len(B) = n - 2
  BY <1>1, <1>6
<1>11. B = Front(q)
  BY <1>6, <1>7, <1>9, <1>10, SeqEqual
<1> QED BY <1>5, <1>8, <1>11 DEF n, q, B

-----------------------------------------------------------------------------
(* The calls of the protocol, one kind at a time.                          *)

LEMMA SaxEnds ==
  ASSUME NEW F
  PROVE  Sax!Last(F) = Last(F) /\ Sax!Front(F) = Front(F)
BY DEF Sax!Last, Last, Sax!Front, Front

LEMMA SaxScalar ==
  ASSUME NEW F, NEW h \in {"double", "boolean", "null"}
  PROVE  /\ h \in Sax!ProtocolHandlers
         /\ Sax!Taken(h) = {"array", "property"}
         /\ Sax!After(F, h) = Sax!WithLast(F, Sax!Valued(Last(F)))
<1>1. h \in Sax!Scalars /\ h # "begin_key" /\ h \notin DOMAIN Sax!Begins
  BY DEF Sax!Scalars, Sax!Begins
<1>2. h \notin DOMAIN Sax!Contents /\ h \notin DOMAIN Sax!Ends /\ h # "end_key"
  BY DEF Sax!Contents, Sax!Ends
<1>3. h \in Sax!ProtocolHandlers
  BY <1>1 DEF Sax!ProtocolHandlers
<1>4. Sax!Taken(h) = {"array", "property"}
  BY <1>1, <1>2 DEF Sax!Taken
<1>5. Sax!After(F, h) = Sax!WithLast(F, Sax!Valued(Sax!Last(F)))
  BY <1>1, <1>2 DEF Sax!After
<1> QED BY <1>3, <1>4, <1>5, SaxEnds

LEMMA SaxBegin ==
  ASSUME NEW F, NEW h \in {"begin_array", "begin_object", "begin_string"}
  PROVE  /\ h \in Sax!ProtocolHandlers
         /\ Sax!Taken(h) = {"root", "array", "property"}
         /\ Sax!After(F, h) = Append(Sax!WithLast(F, Sax!Valued(Last(F))), Sax!Begins[h])
<1>1. h \notin Sax!Scalars /\ h # "begin_key" /\ h \in DOMAIN Sax!Begins
  BY DEF Sax!Scalars, Sax!Begins
<1>2. h \in Sax!ProtocolHandlers
  BY <1>1 DEF Sax!ProtocolHandlers
<1>3. h \notin DOMAIN Sax!Contents /\ h \notin DOMAIN Sax!Ends /\ h # "end_key"
  BY DEF Sax!Contents, Sax!Ends
<1>4. Sax!Taken(h) = {"root", "array", "property"}
  BY <1>1, <1>3 DEF Sax!Taken
<1>5. Sax!After(F, h) = Append(Sax!WithLast(F, Sax!Valued(Sax!Last(F))), Sax!Begins[h])
  BY <1>1, <1>3 DEF Sax!After
<1> QED BY <1>2, <1>4, <1>5, SaxEnds

LEMMA SaxBeginKey ==
  ASSUME NEW F
  PROVE  /\ "begin_key" \in Sax!ProtocolHandlers
         /\ Sax!Taken("begin_key") = {"object"}
         /\ Sax!After(F, "begin_key") = Append(F, "key")
BY DEF Sax!ProtocolHandlers, Sax!Scalars, Sax!Taken, Sax!After, Sax!Begins, Sax!Contents, Sax!Ends

LEMMA SaxContent ==
  ASSUME NEW F, NEW h \in {"string_content", "key_content"}
  PROVE  /\ h \in Sax!ProtocolHandlers
         /\ Sax!Taken(h) = {Sax!Contents[h]}
         /\ Sax!After(F, h) = F
<1>1. h \notin Sax!Scalars /\ h # "begin_key" /\ h \notin DOMAIN Sax!Begins
  BY DEF Sax!Scalars, Sax!Begins
<1>2. h \in DOMAIN Sax!Contents /\ h \notin DOMAIN Sax!Ends /\ h # "end_key"
  BY DEF Sax!Contents, Sax!Ends
<1>3. h \in Sax!ProtocolHandlers
  BY <1>2 DEF Sax!ProtocolHandlers
<1>4. Sax!Taken(h) = {Sax!Contents[h]}
  BY <1>1, <1>2 DEF Sax!Taken
<1>5. Sax!After(F, h) = F
  BY <1>1, <1>2 DEF Sax!After
<1> QED BY <1>3, <1>4, <1>5

LEMMA SaxEnd ==
  ASSUME NEW F, NEW h \in {"end_array", "end_object", "end_string", "end_key"}
  PROVE  /\ h \in Sax!ProtocolHandlers
         /\ Sax!Taken(h) = {Sax!Ends[h]}
         /\ Sax!After(F, h)
              = IF h = "end_key" THEN Sax!WithLast(Front(F), "property") ELSE Front(F)
<1>1. h \notin Sax!Scalars /\ h # "begin_key" /\ h \notin DOMAIN Sax!Begins
  BY DEF Sax!Scalars, Sax!Begins
<1>2. h \notin DOMAIN Sax!Contents /\ h \in DOMAIN Sax!Ends
  BY DEF Sax!Contents, Sax!Ends
<1>3. h \in Sax!ProtocolHandlers
  BY <1>2 DEF Sax!ProtocolHandlers
<1>4. Sax!Taken(h) = {Sax!Ends[h]}
  BY <1>1, <1>2 DEF Sax!Taken
<1>5. h = "end_key" => Sax!After(F, h) = Sax!WithLast(Sax!Front(F), "property")
  BY <1>1, <1>2 DEF Sax!After
<1>6. h # "end_key" => Sax!After(F, h) = Sax!Front(F)
  BY <1>1, <1>2 DEF Sax!After
<1> QED BY <1>3, <1>4, <1>5, <1>6, SaxEnds

-----------------------------------------------------------------------------
(* What the operations on the stack do to the frames.                      *)

Begun == [begin_array |-> "arraystart", begin_object |-> "objectstart", begin_string |-> "string"]

\* The consumer on top waits for a value of an array or a property.
ValueFrame(f) == IF f = "array" THEN "array" ELSE "property"

WaitsFor(stack, b, F) ==
  /\ Last(stack) \in {"array", "objectvalue"}
  /\ F = Append(FramesBelow(stack, b), ValueFrame(Last(stack)))

LEMMA BecomeFrames ==
  ASSUME NEW stack, Path(stack), NEW g \in Consumers, SamePlace(Last(stack), g),
         NEW new, new = [stack EXCEPT ![Len(stack)] = g], NEW b \in BOOLEAN,
         IsFrame(Last(stack)) <=> IsFrame(g),
         IsFrame(g) => TopFrame(Last(stack), b) = TopFrame(g, b)
  PROVE  FramesOf(new, b) = FramesOf(stack, b)
<1>1. Path(new) /\ Last(new) = g
  BY BecomePath
<1>2. FramesBelow(new, b) = FramesBelow(stack, b)
  BY BelowExchanged
<1>3. CASE IsFrame(g)
  <2>1. FramesOf(new, b) = Append(FramesBelow(new, b), TopFrame(g, b))
    BY <1>1, <1>3, FramesOfPath
  <2>2. FramesOf(stack, b) = Append(FramesBelow(stack, b), TopFrame(Last(stack), b))
    BY <1>3, FramesOfPath
  <2> QED BY <1>2, <1>3, <2>1, <2>2
<1>4. CASE ~IsFrame(g)
  <2>1. FramesOf(new, b) = FramesBelow(new, b)
    BY <1>1, <1>4, FramesOfPath
  <2>2. FramesOf(stack, b) = FramesBelow(stack, b)
    BY <1>4, FramesOfPath
  <2> QED BY <1>2, <2>1, <2>2
<1> QED BY <1>3, <1>4

\* An array or a property that takes its value.
LEMMA BecomeAwaits ==
  ASSUME NEW stack, Path(stack), NEW b \in BOOLEAN,
         NEW g, \/ Last(stack) \in {"arraystart", "arrayseparator", "array"} /\ g = "array"
                \/ Last(stack) = "objectseparator" /\ g = "objectvalue",
         NEW new, new = [stack EXCEPT ![Len(stack)] = g]
  PROVE  Path(new) /\ WaitsFor(new, b, FramesOf(stack, b))
<1>1. SamePlace(Last(stack), g) /\ g \in Consumers /\ IsFrame(Last(stack))
  BY DEF SamePlace, Containers, Consumers, IsFrame, Literals, Numbers, Escapes
<1>2. Path(new) /\ Last(new) = g
  BY <1>1, BecomePath
<1>3. FramesBelow(new, b) = FramesBelow(stack, b)
  BY <1>1, BelowExchanged
<1>4. FramesOf(stack, b) = Append(FramesBelow(stack, b), TopFrame(Last(stack), b))
  BY <1>1, FramesOfPath
<1>5. TopFrame(Last(stack), b) = ValueFrame(g)
  BY DEF TopFrame, ValueFrame
<1> QED BY <1>2, <1>3, <1>4, <1>5 DEF WaitsFor

LEMMA ScalarPushed ==
  ASSUME NEW stack, Path(stack), NEW b \in BOOLEAN, NEW F, WaitsFor(stack, b, F),
         NEW f \in Simples
  PROVE  FramesOf(Append(stack, f), b) = F
<1>1. f \in Consumers /\ Fits(Last(stack), f) /\ ~IsFrame(f)
  BY DEF Simples, Consumers, Fits, IsFrame, WaitsFor
<1>2. Path(Append(stack, f)) /\ Last(Append(stack, f)) = f
  BY <1>1, PushPath
<1>3. FramesOf(Append(stack, f), b) = FramesBelow(Append(stack, f), b)
  <2> DEFINE t == Append(stack, f)
  <2>1. Path(t) /\ ~IsFrame(Last(t))
    BY <1>1, <1>2
  <2> HIDE DEF t
  <2>2. FramesOf(t, b) = FramesBelow(t, b)
    BY <2>1, FramesOfPath
  <2> QED BY <2>2 DEF t
<1>4. FramesBelow(Append(stack, f), b) = Append(FramesBelow(stack, b), CoveredFrame(Last(stack), f, b))
  BY <1>1, FramesBelowPushed
<1>5. CoveredFrame(Last(stack), f, b) = ValueFrame(Last(stack))
  BY DEF CoveredFrame, ValueFrame, WaitsFor
<1> QED BY <1>3, <1>4, <1>5 DEF WaitsFor

\* A consumer that is a frame is pushed.
LEMMA FramePushed ==
  ASSUME NEW stack, Path(stack), NEW b \in BOOLEAN,
         NEW f \in Consumers, Fits(Last(stack), f), IsFrame(f)
  PROVE  FramesOf(Append(stack, f), b)
           = Append(Append(FramesBelow(stack, b), CoveredFrame(Last(stack), f, b)), TopFrame(f, b))
<1>1. Path(Append(stack, f)) /\ Last(Append(stack, f)) = f
  BY PushPath
<1>2. FramesOf(Append(stack, f), b) = Append(FramesBelow(Append(stack, f), b), TopFrame(f, b))
  <2> DEFINE t == Append(stack, f)
  <2>1. Path(t) /\ IsFrame(Last(t)) /\ Last(t) = f
    BY <1>1
  <2> HIDE DEF t
  <2>2. FramesOf(t, b) = Append(FramesBelow(t, b), TopFrame(Last(t), b))
    BY <2>1, FramesOfPath
  <2> QED BY <2>1, <2>2 DEF t
<1>3. FramesBelow(Append(stack, f), b) = Append(FramesBelow(stack, b), CoveredFrame(Last(stack), f, b))
  BY FramesBelowPushed
<1> QED BY <1>2, <1>3

LEMMA BegunPushed ==
  ASSUME NEW stack, Path(stack), NEW b \in BOOLEAN, NEW F, WaitsFor(stack, b, F),
         NEW h \in DOMAIN Begun
  PROVE  /\ Last(F) \in Sax!Taken(h)
         /\ FramesOf(Append(stack, Begun[h]), b) = Sax!After(F, h)
<1> DEFINE f == Begun[h]
           q == FramesBelow(stack, b)
           x == ValueFrame(Last(stack))
           y == CoveredFrame(Last(stack), f, b)
<1>1. h \in {"begin_array", "begin_object", "begin_string"}
  BY DEF Begun
<1>2. f \in {"arraystart", "objectstart", "string"}
  BY <1>1 DEF Begun
<1>3. f \in Consumers /\ Fits(Last(stack), f) /\ IsFrame(f)
  BY <1>2 DEF Consumers, Fits, IsFrame, WaitsFor, Containers, Literals, Numbers, Escapes
<1>4. FramesOf(Append(stack, f), b) = Append(Append(q, y), TopFrame(f, b))
  BY <1>3, FramePushed
<1>5. TopFrame(f, b) = Sax!Begins[h]
  BY <1>1 DEF Begun, TopFrame, Sax!Begins
<1>6. x \in {"array", "property"} /\ y = Sax!Valued(x) /\ y \in FrameNames /\ x \in FrameNames
  BY <1>2 DEF CoveredFrame, ValueFrame, WaitsFor, Sax!Valued, Simples, Literals, Numbers, FrameNames
<1>7. q \in Seq(FrameNames)
  BY BelowTyped
<1>8. F = Append(q, x)
  BY DEF WaitsFor
<1> HIDE DEF f, q, x, y
<1>9. Last(F) = x /\ Sax!WithLast(F, y) = Append(q, y)
  BY <1>6, <1>7, <1>8, LastAppended
<1>10. Last(F) \in Sax!Taken(h)
  BY <1>1, <1>6, <1>9, SaxBegin
<1>11. Sax!After(F, h) = Append(Sax!WithLast(F, Sax!Valued(Last(F))), Sax!Begins[h])
  BY <1>1, SaxBegin
<1> QED BY <1>4, <1>5, <1>6, <1>9, <1>10, <1>11 DEF f

\* The document begins: the initial consumer has given it away.
LEMMA BegunInitial ==
  ASSUME NEW stack, Path(stack), Last(stack) = "initial", NEW h \in DOMAIN Begun
  PROVE  /\ Last(FramesOf(stack, TRUE)) \in Sax!Taken(h)
         /\ FramesOf(Append(stack, Begun[h]), FALSE) = Sax!After(FramesOf(stack, TRUE), h)
<1> DEFINE f == Begun[h]
           F == FramesOf(stack, TRUE)
<1>1. h \in {"begin_array", "begin_object", "begin_string"}
  BY DEF Begun
<1>2. f \in {"arraystart", "objectstart", "string"} /\ TopFrame(f, FALSE) = Sax!Begins[h]
  BY <1>1 DEF Begun, TopFrame, Sax!Begins
<1>3. f \in Consumers /\ Fits(Last(stack), f) /\ IsFrame(f)
  BY <1>2 DEF Consumers, Fits, IsFrame, Containers, Literals, Numbers, Escapes
<1> HIDE DEF f
<1>4. Len(stack) = 1
  <2>1. Len(stack) = 1 <=> Last(stack) = "initial"
    BY LastOfPath
  <2> QED BY <2>1, Zenon
<1>5. FramesBelow(stack, TRUE) = << >> /\ FramesBelow(stack, FALSE) = << >>
  <2>1. ASSUME NEW b \in BOOLEAN
        PROVE  FramesBelow(stack, b) \in Seq(FrameNames) /\ Len(FramesBelow(stack, b)) = 0
    <3>1. /\ FramesBelow(stack, b) \in Seq(FrameNames)
          /\ Len(FramesBelow(stack, b)) = Len(stack) - 1
      BY BelowTyped
    <3> QED BY <1>4, <3>1
  <2>2. \A s \in Seq(FrameNames) : s # << >> => Len(s) \in Nat \ {0}
    BY EmptySeq
  <2> QED BY <2>1, <2>2
<1>6. F = Append(<< >>, "root")
  <2>1. IsFrame("initial") /\ TopFrame("initial", TRUE) = "root"
    BY DEF IsFrame, TopFrame, Literals, Numbers, Escapes
  <2>2. FramesOf(stack, TRUE) = Append(FramesBelow(stack, TRUE), TopFrame(Last(stack), TRUE))
    BY <2>1, FramesOfPath
  <2> QED BY <1>5, <2>1, <2>2
<1>7. FramesOf(Append(stack, f), FALSE) = Append(Append(<< >>, "done"), Sax!Begins[h])
  <2>1. FramesOf(Append(stack, f), FALSE)
          = Append(Append(FramesBelow(stack, FALSE), CoveredFrame(Last(stack), f, FALSE)),
                   TopFrame(f, FALSE))
    BY <1>3, FramePushed
  <2>2. CoveredFrame(Last(stack), f, FALSE) = "done"
    BY DEF CoveredFrame
  <2> QED BY <1>2, <1>5, <2>1, <2>2
<1> HIDE DEF F
<1>8. Last(F) = "root" /\ Sax!WithLast(F, "done") = Append(<< >>, "done")
  <2>1. "root" \in FrameNames /\ "done" \in FrameNames
    BY DEF FrameNames
  <2>2. PICK e \in Seq(FrameNames) : e = << >>
    BY EmptySeq
  <2>3. F = Append(e, "root")
    BY <1>6, <2>2
  <2>4. Last(F) = "root" /\ Sax!WithLast(F, "done") = Append(e, "done")
    BY <2>1, <2>3, LastAppended
  <2> QED BY <2>2, <2>4
<1>9. Sax!Valued("root") = "done"
  BY DEF Sax!Valued
<1>10. Last(F) \in Sax!Taken(h)
  BY <1>1, <1>8, SaxBegin
<1>11. Sax!After(F, h) = Append(Sax!WithLast(F, Sax!Valued(Last(F))), Sax!Begins[h])
  BY <1>1, SaxBegin
<1>12. Sax!After(F, h) = Append(Append(<< >>, "done"), Sax!Begins[h])
  BY <1>8, <1>9, <1>11
<1>13. FramesOf(Append(stack, f), FALSE) = Sax!After(F, h)
  BY <1>7, <1>12
<1> QED BY <1>10, <1>13 DEF f, F

\* A key begins in an object.
LEMMA KeyPushed ==
  ASSUME NEW stack, Path(stack), Last(stack) \in {"objectstart", "objectbetween"},
         NEW new, new = [stack EXCEPT ![Len(stack)] = "objectkey"]
  PROVE  /\ Last(FramesOf(stack, FALSE)) \in Sax!Taken("begin_key")
         /\ FramesOf(Append(new, "stringkey"), FALSE)
              = Sax!After(FramesOf(stack, FALSE), "begin_key")
<1> DEFINE F == FramesOf(stack, FALSE)
           q == FramesBelow(stack, FALSE)
<1>1. SamePlace(Last(stack), "objectkey") /\ "objectkey" \in Consumers /\ IsFrame(Last(stack))
  BY DEF SamePlace, Containers, Consumers, IsFrame, Literals, Numbers, Escapes
<1>2. Path(new) /\ Last(new) = "objectkey"
  BY <1>1, BecomePath
<1>3. FramesBelow(new, FALSE) = q
  BY <1>1, BelowExchanged
<1>4. F = Append(q, "object")
  <2>1. F = Append(q, TopFrame(Last(stack), FALSE))
    BY <1>1, FramesOfPath
  <2> QED BY <2>1 DEF TopFrame
<1>5. "stringkey" \in Consumers /\ Fits(Last(new), "stringkey") /\ IsFrame("stringkey")
  BY <1>2 DEF Consumers, Fits, IsFrame, Literals, Numbers, Escapes
<1>6. FramesOf(Append(new, "stringkey"), FALSE) = Append(Append(q, "object"), "key")
  <2>1. FramesOf(Append(new, "stringkey"), FALSE)
          = Append(Append(FramesBelow(new, FALSE), CoveredFrame(Last(new), "stringkey", FALSE)),
                   TopFrame("stringkey", FALSE))
    BY <1>2, <1>5, FramePushed
  <2>2. /\ CoveredFrame(Last(new), "stringkey", FALSE) = "object"
        /\ TopFrame("stringkey", FALSE) = "key"
    BY <1>2 DEF CoveredFrame, TopFrame
  <2> QED BY <1>3, <2>1, <2>2
<1>7. q \in Seq(FrameNames)
  BY BelowTyped
<1> HIDE DEF F, q
<1>8. Last(F) = "object"
  <2>1. "object" \in FrameNames
    BY DEF FrameNames
  <2> QED BY <1>4, <1>7, <2>1, LastAppended
<1> QED BY <1>4, <1>6, <1>8, SaxBeginKey DEF F

\* The consumer on top is popped.
LEMMA FramesPopped ==
  ASSUME NEW stack, Path(stack), Last(stack) # "initial", NEW b \in BOOLEAN
  PROVE  \E q \in Seq(FrameNames), g \in Consumers :
           /\ Fits(g, Last(stack)) /\ g = stack[Len(stack) - 1]
           /\ CoveredFrame(g, Last(stack), b) \in FrameNames
           /\ TopFrame(g, b) \in FrameNames
           /\ FramesBelow(stack, b) = Append(q, CoveredFrame(g, Last(stack), b))
           /\ FramesOf(Front(stack), b) = Append(q, TopFrame(g, b))
<1> DEFINE n == Len(stack)
           p == FramesBelow(stack, b)
           g == stack[n - 1]
           t == Front(stack)
<1>1. n \in Nat /\ n > 1 /\ stack \in Seq(Consumers)
  BY LastOfPath DEF Path
<1>2. Fits(g, Last(stack)) /\ g \in Consumers
  <2>1. Fits(g, Last(stack))
    BY <1>1, LastOfPath
  <2> QED BY <1>1, <2>1
<1>3. Path(t) /\ Last(t) = g
  BY <1>1, FrontPath
<1>4. Len(p) > 0 /\ FramesBelow(t, b) = Front(p) /\ Last(p) = CoveredFrame(g, Last(stack), b)
  BY <1>1, BelowPopped
<1>5. p \in Seq(FrameNames)
  BY BelowTyped
<1> HIDE DEF p, t, g
<1>6. Front(p) \in Seq(FrameNames) /\ Last(p) \in FrameNames /\ p = Append(Front(p), Last(p))
  BY <1>4, <1>5, LastSplit
<1>7. IsFrame(g)
  BY <1>2, CoveredKinds DEF IsFrame, Literals, Numbers, Escapes
<1>8. FramesOf(t, b) = Append(FramesBelow(t, b), TopFrame(g, b)) /\ TopFrame(g, b) \in FrameNames
  BY <1>3, <1>7, FramesOfPath, TopKinds
<1> QED BY <1>2, <1>4, <1>6, <1>8 DEF p, g, t

\* What may be closed by each handler.
Closes(h) ==
  CASE h = "end_array" -> {"arraystart", "array"}
    [] h = "end_object" -> {"objectstart", "objectvalue"}
    [] h = "end_string" -> {"string"}
    [] h = "end_key" -> {"stringkey"}

LEMMA FrameClosed ==
  ASSUME NEW stack, Path(stack), NEW h \in DOMAIN Sax!Ends, Last(stack) \in Closes(h)
  PROVE  /\ Last(FramesOf(stack, FALSE)) \in Sax!Taken(h)
         /\ FramesOf(Front(stack), FALSE) = Sax!After(FramesOf(stack, FALSE), h)
<1> DEFINE f == Last(stack)
           F == FramesOf(stack, FALSE)
           p == FramesBelow(stack, FALSE)
           new == FramesOf(Front(stack), FALSE)
<1>1. h \in {"end_array", "end_object", "end_string", "end_key"}
  BY DEF Sax!Ends
<1>2. /\ f \in {"arraystart", "array", "objectstart", "objectvalue", "string", "stringkey"}
      /\ TopFrame(f, FALSE) = Sax!Ends[h]
      /\ f = "stringkey" <=> h = "end_key"
  BY <1>1 DEF Closes, TopFrame, Sax!Ends
<1>3. IsFrame(f) /\ f # "initial"
  BY <1>2 DEF IsFrame, Literals, Numbers, Escapes
<1>4. F = Append(p, Sax!Ends[h])
  BY <1>2, <1>3, FramesOfPath
<1>5. PICK q \in Seq(FrameNames), g \in Consumers :
         /\ Fits(g, f)
         /\ CoveredFrame(g, f, FALSE) \in FrameNames
         /\ TopFrame(g, FALSE) \in FrameNames
         /\ p = Append(q, CoveredFrame(g, f, FALSE))
         /\ new = Append(q, TopFrame(g, FALSE))
  BY <1>3, FramesPopped
<1>6. p \in Seq(FrameNames) /\ Sax!Ends[h] \in FrameNames
  <2>1. p \in Seq(FrameNames)
    BY BelowTyped
  <2>2. Sax!Ends[h] \in FrameNames
    BY <1>1 DEF Sax!Ends, FrameNames
  <2> QED BY <2>1, <2>2
<1> HIDE DEF F, p, f, new
<1>7. Last(F) = Sax!Ends[h] /\ Front(F) = p
  BY <1>4, <1>6, LastAppended
<1>8. Last(F) \in Sax!Taken(h)
  BY <1>1, <1>7, SaxEnd
<1>9. CASE h = "end_key"
  <2>1. g = "objectkey"
    BY <1>2, <1>5, <1>9 DEF Fits, Containers, Literals, Numbers, Escapes
  <2>2. TopFrame(g, FALSE) = "property"
    BY <2>1 DEF TopFrame
  <2>3. Sax!WithLast(p, "property") = Append(q, "property")
    <3> DEFINE x == CoveredFrame(g, f, FALSE)
    <3>1. x \in FrameNames /\ p = Append(q, x) /\ "property" \in FrameNames
      BY <1>5 DEF FrameNames
    <3> HIDE DEF x
    <3> QED BY <3>1, LastAppended
  <2> QED BY <1>5, <1>7, <1>8, <1>9, <2>2, <2>3, SaxEnd DEF F, new
<1>10. CASE h # "end_key"
  <2>1. g \in {"initial", "array", "objectvalue"} /\ f \notin Simples
    BY <1>2, <1>5, <1>10 DEF Fits, Containers, Simples, Literals, Numbers, Escapes
  <2>2. TopFrame(g, FALSE) = CoveredFrame(g, f, FALSE)
    BY <2>1 DEF TopFrame, CoveredFrame
  <2>3. new = p
    BY <1>5, <2>2
  <2>4. Sax!After(F, h) = Front(F)
    BY <1>1, <1>10, SaxEnd
  <2> QED BY <1>7, <1>8, <2>3, <2>4 DEF F, new
<1> QED BY <1>9, <1>10

\* A value that was no frame is given.
LEMMA ScalarGiven ==
  ASSUME NEW stack, Path(stack), Last(stack) \in Simples,
         NEW h \in {"double", "boolean", "null"}
  PROVE  /\ Last(FramesOf(stack, FALSE)) \in Sax!Taken(h)
         /\ FramesOf(Front(stack), FALSE) = Sax!After(FramesOf(stack, FALSE), h)
<1> DEFINE f == Last(stack)
           F == FramesOf(stack, FALSE)
           new == FramesOf(Front(stack), FALSE)
<1>1. ~IsFrame(f) /\ f # "initial"
  BY DEF IsFrame, Simples, Literals, Numbers
<1>2. F = FramesBelow(stack, FALSE)
  BY <1>1, FramesOfPath
<1>3. PICK q \in Seq(FrameNames), g \in Consumers :
         /\ Fits(g, f)
         /\ CoveredFrame(g, f, FALSE) \in FrameNames
         /\ TopFrame(g, FALSE) \in FrameNames
         /\ F = Append(q, CoveredFrame(g, f, FALSE))
         /\ new = Append(q, TopFrame(g, FALSE))
  BY <1>1, <1>2, FramesPopped
<1>4. g \in {"array", "objectvalue"}
  BY <1>3 DEF Fits, Simples, Containers, Literals, Numbers, Escapes
<1>5. /\ CoveredFrame(g, f, FALSE) \in {"array", "property"}
      /\ TopFrame(g, FALSE) = Sax!Valued(CoveredFrame(g, f, FALSE))
  BY <1>4 DEF CoveredFrame, TopFrame, Sax!Valued
<1> HIDE DEF F, f, new
<1>6. /\ Last(F) = CoveredFrame(g, f, FALSE)
      /\ Sax!WithLast(F, TopFrame(g, FALSE)) = Append(q, TopFrame(g, FALSE))
  <2> DEFINE x == CoveredFrame(g, f, FALSE)
             y == TopFrame(g, FALSE)
  <2>1. x \in FrameNames /\ y \in FrameNames /\ F = Append(q, x)
    BY <1>3
  <2> HIDE DEF x, y
  <2>2. Last(F) = x /\ Sax!WithLast(F, y) = Append(q, y)
    BY <2>1, LastAppended
  <2> QED BY <2>2 DEF x, y
<1>7. Last(F) \in Sax!Taken(h)
  BY <1>5, <1>6, SaxScalar
<1>8. new = Sax!After(F, h)
  BY <1>3, <1>5, <1>6, SaxScalar
<1> QED BY <1>7, <1>8 DEF F, new

\* An escape is no frame: it is begun and left within its text.
LEMMA EscapeLeft ==
  ASSUME NEW stack, Path(stack), Last(stack) \in Escapes, NEW b \in BOOLEAN
  PROVE  /\ FramesOf(Front(stack), b) = FramesOf(stack, b)
         /\ Last(FramesOf(stack, b)) = IF stack[Len(stack) - 1] = "stringkey" THEN "key" ELSE "string"
<1> DEFINE f == Last(stack)
           F == FramesOf(stack, b)
           new == FramesOf(Front(stack), b)
<1>1. ~IsFrame(f) /\ f # "initial"
  BY DEF IsFrame, Escapes
<1>2. F = FramesBelow(stack, b)
  BY <1>1, FramesOfPath
<1>3. PICK q \in Seq(FrameNames), g \in Consumers :
         /\ Fits(g, f) /\ g = stack[Len(stack) - 1]
         /\ CoveredFrame(g, f, b) \in FrameNames
         /\ F = Append(q, CoveredFrame(g, f, b))
         /\ new = Append(q, TopFrame(g, b))
  BY <1>1, <1>2, FramesPopped
<1>4. g \in {"string", "stringkey"}
  BY <1>3 DEF Fits, Containers, Literals, Numbers, Escapes
<1>5. /\ CoveredFrame(g, f, b) = IF g = "stringkey" THEN "key" ELSE "string"
      /\ TopFrame(g, b) = CoveredFrame(g, f, b)
  BY <1>4 DEF CoveredFrame, TopFrame
<1> HIDE DEF F, f, new
<1>6. Last(F) = CoveredFrame(g, f, b)
  BY <1>3, LastAppended
<1>7. new = F
  BY <1>3, <1>5
<1> QED BY <1>3, <1>5, <1>6, <1>7 DEF F, new

LEMMA EscapeBegun ==
  ASSUME NEW stack, Path(stack), Last(stack) \in {"string", "stringkey"}, NEW b \in BOOLEAN
  PROVE  /\ FramesOf(Append(stack, "stringescape"), b) = FramesOf(stack, b)
         /\ Last(FramesOf(stack, b)) = IF Last(stack) = "stringkey" THEN "key" ELSE "string"
<1> DEFINE f == Last(stack)
           t == Append(stack, "stringescape")
           x == IF f = "stringkey" THEN "key" ELSE "string"
<1>1. /\ "stringescape" \in Consumers /\ Fits(f, "stringescape")
      /\ ~IsFrame("stringescape") /\ IsFrame(f)
  BY DEF Consumers, Escapes, Fits, IsFrame, Literals, Numbers
<1>2. Path(t) /\ Last(t) = "stringescape"
  BY <1>1, PushPath
<1>3. FramesBelow(t, b) = Append(FramesBelow(stack, b), CoveredFrame(f, "stringescape", b))
  BY <1>1, FramesBelowPushed
<1>4. CoveredFrame(f, "stringescape", b) = x /\ TopFrame(f, b) = x /\ x \in FrameNames
  BY DEF CoveredFrame, TopFrame, FrameNames
<1>5. FramesOf(stack, b) = Append(FramesBelow(stack, b), x)
  BY <1>1, <1>4, FramesOfPath
<1>6. FramesBelow(stack, b) \in Seq(FrameNames)
  BY BelowTyped
<1> HIDE DEF t, x
<1>7. FramesOf(t, b) = FramesBelow(t, b)
  BY <1>1, <1>2, FramesOfPath
<1>8. Last(FramesOf(stack, b)) = x
  BY <1>4, <1>5, <1>6, LastAppended
<1> QED BY <1>3, <1>4, <1>5, <1>7, <1>8 DEF t, x

-----------------------------------------------------------------------------
(* What a step of the parser tells the handlers.                           *)

\* Sax!LastCall and Sax!Next, for frames F before and G after a step with calls cs.
LastMove(before, from, h, ok, G, cs) ==
  /\ ok \/ h \in MayReject
  /\ cs = Append(before, [handler |-> h, ok |-> ok])
  /\ G = Sax!Stopped \/ ((ok \/ h \in Unreported) /\ G = Sax!After(from, h))

Move(F, G, cs) ==
  \/ G \in {F, Sax!Stopped} /\ cs = << >>
  \/ \E h \in Sax!ProtocolHandlers, ok \in BOOLEAN :
        Last(F) \in Sax!Taken(h) /\ LastMove(<< >>, F, h, ok, G, cs)
  \/ \E g, h \in Sax!ProtocolHandlers, ok \in BOOLEAN :
        /\ Last(F) \in Sax!Taken(g)
        /\ Last(Sax!After(F, g)) \in Sax!Taken(h)
        /\ LastMove(<< [handler |-> g, ok |-> TRUE] >>, Sax!After(F, g), h, ok, G, cs)

Moved(F) == Move(F, FramesOf(consumer_stack_', begin_'), calls')

\* The calls cs, none or one that was accepted, lead from F to E.
Told(F, cs, E) ==
  \/ cs = << >> /\ E = F
  \/ \E h \in Sax!ProtocolHandlers :
       /\ cs = << [handler |-> h, ok |-> TRUE] >>
       /\ Last(F) \in Sax!Taken(h)
       /\ E = Sax!After(F, h)

LEMMA MovedNext ==
  ASSUME NEW F, F = framesOfStack, Moved(F)
  PROVE  Sax!Next
<1>1. Move(framesOfStack, framesOfStack', calls')
  BY DEF Moved, framesOfStack
<1>2. CASE framesOfStack' \in {framesOfStack, Sax!Stopped} /\ calls' = << >>
  BY <1>2 DEF Sax!Next, Sax!Silent
<1>3. ASSUME NEW h \in Sax!ProtocolHandlers, NEW ok \in BOOLEAN,
             Last(framesOfStack) \in Sax!Taken(h),
             LastMove(<< >>, framesOfStack, h, ok, framesOfStack', calls')
      PROVE  Sax!Next
  <2>1. Sax!LastCall(<< >>, framesOfStack, h, ok)
    BY <1>3 DEF LastMove, Sax!LastCall
  <2>2. Sax!One(h, ok)
    BY <1>3, <2>1, SaxEnds DEF Sax!One
  <2> QED BY <2>2 DEF Sax!Next
<1>4. ASSUME NEW g \in Sax!ProtocolHandlers, NEW h \in Sax!ProtocolHandlers, NEW ok \in BOOLEAN,
             Last(framesOfStack) \in Sax!Taken(g),
             Last(Sax!After(framesOfStack, g)) \in Sax!Taken(h),
             LastMove(<< [handler |-> g, ok |-> TRUE] >>, Sax!After(framesOfStack, g), h, ok,
                      framesOfStack', calls')
      PROVE  Sax!Next
  <2>1. Sax!LastCall(<< [handler |-> g, ok |-> TRUE] >>, Sax!After(framesOfStack, g), h, ok)
    BY <1>4 DEF LastMove, Sax!LastCall
  <2>2. Sax!Two(g, h, ok)
    BY <1>4, <2>1, SaxEnds DEF Sax!Two
  <2> QED BY <2>2 DEF Sax!Next
<1> QED BY <1>1, <1>2, <1>3, <1>4 DEF Move

LEMMA StoppedFrames ==
  ASSUME NEW b
  PROVE  FramesOf(<< "inerror" >>, b) = Sax!Stopped
<1> DEFINE k == << "inerror" >>
<1>1. Len(k) = 1 /\ k[1] = "inerror"
  OBVIOUS
<1>2. Last(k) = "inerror"
  BY <1>1 DEF Last
<1> HIDE DEF k
<1>3. IsFrame(Last(k))
  BY <1>2 DEF IsFrame, Literals, Numbers, Escapes
<1>4. FrameOf(k, b, 1) = "stopped"
  BY <1>1 DEF FrameOf
<1>5. FramesOf(k, b) = [i \in 1 .. 1 |-> FrameOf(k, b, i)]
  BY <1>1, <1>3 DEF FramesOf
<1>6. FramesOf(k, b) = << "stopped" >>
  BY <1>4, <1>5
<1> QED BY <1>6 DEF k, Sax!Stopped

LEMMA ToldMove ==
  ASSUME NEW F, NEW cs, NEW E, Told(F, cs, E), NEW G, G = E \/ G = Sax!Stopped
  PROVE  Move(F, G, cs)
<1>1. CASE cs = << >> /\ E = F
  BY <1>1 DEF Move
<1>2. ASSUME NEW h \in Sax!ProtocolHandlers, cs = << [handler |-> h, ok |-> TRUE] >>,
             Last(F) \in Sax!Taken(h), E = Sax!After(F, h)
      PROVE  Move(F, G, cs)
  <2>1. cs = Append(<< >>, [handler |-> h, ok |-> TRUE])
    BY <1>2
  <2>2. LastMove(<< >>, F, h, TRUE, G, cs)
    BY <1>2, <2>1 DEF LastMove
  <2> QED BY <1>2, <2>2 DEF Move
<1> QED BY <1>1, <1>2 DEF Told

LEMMA ToldCall ==
  ASSUME NEW F, NEW cs, NEW E, Told(F, cs, E),
         NEW h \in Sax!ProtocolHandlers, Last(E) \in Sax!Taken(h),
         NEW ok \in BOOLEAN, ok \/ h \in MayReject,
         NEW G, G = Sax!Stopped \/ ((ok \/ h \in Unreported) /\ G = Sax!After(E, h))
  PROVE  Move(F, G, Append(cs, [handler |-> h, ok |-> ok]))
<1> DEFINE new == Append(cs, [handler |-> h, ok |-> ok])
<1>1. LastMove(cs, E, h, ok, G, new)
  BY DEF LastMove
<1> HIDE DEF new
<1>2. ASSUME cs = << >>, E = F PROVE Move(F, G, new)
  <2>1. Last(F) \in Sax!Taken(h) /\ LastMove(<< >>, F, h, ok, G, new)
    BY <1>1, <1>2
  <2> QED BY <2>1 DEF Move
<1>3. ASSUME NEW g \in Sax!ProtocolHandlers, cs = << [handler |-> g, ok |-> TRUE] >>,
             Last(F) \in Sax!Taken(g), E = Sax!After(F, g)
      PROVE  Move(F, G, new)
  <2>1. /\ Last(Sax!After(F, g)) \in Sax!Taken(h)
        /\ LastMove(<< [handler |-> g, ok |-> TRUE] >>, Sax!After(F, g), h, ok, G, new)
    BY <1>1, <1>3
  <2> QED BY <1>3, <2>1 DEF Move
<1>4. \/ cs = << >> /\ E = F
      \/ \E g \in Sax!ProtocolHandlers :
           /\ cs = << [handler |-> g, ok |-> TRUE] >>
           /\ Last(F) \in Sax!Taken(g)
           /\ E = Sax!After(F, g)
  BY DEF Told
<1>5. Move(F, G, new)
  BY <1>2, <1>3, <1>4
<1> QED BY <1>5 DEF new

LEMMA AcceptedOrNot ==
  ASSUME NEW h, FALSE \in Answers(h)
  PROVE  h \in MayReject
BY DEF Answers

LEMMA CalledRecord ==
  ASSUME NEW s, NEW b, Sound(s, b), NEW h, NEW ok
  PROVE  /\ Called(s, h, ok).stack = s.stack
         /\ Called(s, h, ok).calls = Append(s.calls, [handler |-> h, ok |-> ok])
<1> DEFINE cs == Append(s.calls, [handler |-> h, ok |-> ok])
<1>1. Called(s, h, ok) = [s EXCEPT !.calls = cs]
  BY DEF Called
<1> HIDE DEF cs
<1>2. Called(s, h, ok) = [stack |-> s.stack, end |-> s.end, calls |-> cs]
  BY <1>1 DEF Sound
<1>3. Called(s, h, ok).stack = s.stack /\ Called(s, h, ok).calls = cs
  BY <1>2
<1> QED BY <1>3 DEF cs

LEMMA ReturnMove ==
  ASSUME NEW F, NEW s, NEW ok, Return(s, ok), Told(F, s.calls, FramesOf(s.stack, begin_'))
  PROVE  Moved(F)
<1>1. consumer_stack_' = s.stack /\ calls' = s.calls
  BY DEF Return, Leave
<1> QED BY <1>1, ToldMove DEF Moved

LEMMA ErrorMove ==
  ASSUME NEW F, NEW s, make_error(s), NEW E, Told(F, s.calls, E)
  PROVE  Moved(F)
<1>1. consumer_stack_' = << "inerror" >> /\ calls' = s.calls
  BY DEF make_error, Leave
<1>2. FramesOf(consumer_stack_', begin_') = Sax!Stopped
  BY <1>1, StoppedFrames
<1> QED BY <1>1, <1>2, ToldMove DEF Moved

\* h is called, answers ok and the step ends.
LEMMA CallMove ==
  ASSUME NEW F, NEW s, NEW b, Sound(s, b), NEW E, Told(F, s.calls, E),
         NEW h \in Sax!ProtocolHandlers, Last(E) \in Sax!Taken(h),
         NEW ok \in BOOLEAN, ok \/ h \in MayReject,
         calls' = Called(s, h, ok).calls,
         \/ consumer_stack_' = << "inerror" >>
         \/ /\ ok \/ h \in Unreported
            /\ FramesOf(consumer_stack_', begin_') = Sax!After(E, h)
  PROVE  Moved(F)
<1> DEFINE G == FramesOf(consumer_stack_', begin_')
<1>1. calls' = Append(s.calls, [handler |-> h, ok |-> ok])
  BY CalledRecord
<1>2. G = Sax!Stopped \/ ((ok \/ h \in Unreported) /\ G = Sax!After(E, h))
  BY StoppedFrames
<1> HIDE DEF G
<1>3. Move(F, G, Append(s.calls, [handler |-> h, ok |-> ok]))
  BY <1>2, ToldCall
<1> QED BY <1>1, <1>3 DEF Moved, G

LEMMA CallOrErrorMove ==
  ASSUME NEW F, NEW s, NEW b, Sound(s, b), NEW E, Told(F, s.calls, E),
         NEW h \in Sax!ProtocolHandlers, Last(E) \in Sax!Taken(h),
         FramesOf(s.stack, begin_') = Sax!After(E, h),
         CallOrError(s, h) \/ CallOrLateError(s, h)
  PROVE  Moved(F)
<1>1. CASE Return(Called(s, h, TRUE), TRUE)
  <2>1. calls' = Called(s, h, TRUE).calls /\ consumer_stack_' = s.stack
    BY <1>1, CalledRecord DEF Return, Leave
  <2> QED BY <2>1, CallMove
<1>2. CASE /\ FALSE \in Answers(h)
           /\ calls' = Called(s, h, FALSE).calls /\ consumer_stack_' = << "inerror" >>
  <2>1. h \in MayReject
    BY <1>2, AcceptedOrNot
  <2> QED BY <1>2, <2>1, CallMove
<1>3. make_error(Called(s, h, FALSE)) =>
         calls' = Called(s, h, FALSE).calls /\ consumer_stack_' = << "inerror" >>
  BY DEF make_error, Leave
<1>4. Leave(Called(s, h, FALSE)) => calls' = Called(s, h, FALSE).calls
  BY DEF Leave
<1> QED BY <1>1, <1>2, <1>3, <1>4 DEF CallOrError, CallOrLateError

LEMMA CallOnlyMove ==
  ASSUME NEW F, NEW s, NEW b, Sound(s, b), NEW E, Told(F, s.calls, E),
         NEW h \in Sax!ProtocolHandlers \cap Unreported, Last(E) \in Sax!Taken(h),
         FramesOf(s.stack, begin_') = Sax!After(E, h), CallOnly(s, h)
  PROVE  Moved(F)
<1>1. PICK ok \in Answers(h) : Return(Called(s, h, ok), ok)
  BY DEF CallOnly
<1>2. ok \in BOOLEAN /\ (ok \/ h \in MayReject)
  BY DEF Answers
<1>3. calls' = Called(s, h, ok).calls /\ consumer_stack_' = s.stack
  BY <1>1, CalledRecord DEF Return, Leave
<1> QED BY <1>2, <1>3, CallMove

-----------------------------------------------------------------------------
(* The consumers.                                                          *)

\* A consumer works on s after none or one call.
Telling(s, F) == Stepping(s) /\ Told(F, s.calls, FramesOf(s.stack, begin_))

LEMMA RecordOps ==
  ASSUME NEW s, NEW b, Sound(s, b), NEW f
  PROVE  /\ Push(s, f).stack = Append(s.stack, f) /\ Push(s, f).calls = s.calls
         /\ Become(s, f).stack = [s.stack EXCEPT ![Len(s.stack)] = f]
         /\ Become(s, f).calls = s.calls
         /\ PopBack(s).stack = Front(s.stack) /\ PopBack(s).calls = s.calls
         /\ pop_state(s).stack = Front(s.stack) /\ pop_state(s).calls = s.calls
<1>1. PICK k, e, cs : s = [stack |-> k, end |-> e, calls |-> cs]
  BY DEF Sound
<1>2. Push(s, f) = [stack |-> Append(k, f), end |-> e, calls |-> cs]
  BY <1>1 DEF Push
<1>3. Become(s, f) = [stack |-> [k EXCEPT ![Len(k)] = f], end |-> e, calls |-> cs]
  BY <1>1 DEF Become
<1>4. PopBack(s) = [stack |-> Front(k), end |-> e, calls |-> cs]
  BY <1>1 DEF PopBack
<1>5. \E ends : pop_state(s) = [stack |-> Front(k), end |-> ends, calls |-> cs]
  <2> DEFINE ends == s.end \/ Len(s.stack) = 2
  <2>1. pop_state(s) = [s EXCEPT !.stack = Front(s.stack), !.end = ends]
    BY DEF pop_state
  <2> HIDE DEF ends
  <2>2. pop_state(s) = [stack |-> Front(k), end |-> ends, calls |-> cs]
    BY <1>1, <2>1
  <2> QED BY <2>2
<1>6. s.stack = k /\ s.calls = cs
  BY <1>1
<1>7. Push(s, f).stack = Append(s.stack, f) /\ Push(s, f).calls = s.calls
  BY <1>2, <1>6
<1>8. /\ Become(s, f).stack = [s.stack EXCEPT ![Len(s.stack)] = f]
      /\ Become(s, f).calls = s.calls
  BY <1>3, <1>6
<1>9. PopBack(s).stack = Front(s.stack) /\ PopBack(s).calls = s.calls
  BY <1>4, <1>6
<1>10. pop_state(s).stack = Front(s.stack) /\ pop_state(s).calls = s.calls
  BY <1>5, <1>6
<1> QED BY <1>7, <1>8, <1>9, <1>10

\* Something is begun as soon as another consumer is on top.
LEMMA Begins ==
  ASSUME NEW s, Stepping(s), Last(s.stack) # "initial"
  PROVE  /\ begin_ = FALSE /\ Sound(s, FALSE) /\ Path(s.stack) /\ Len(s.stack) > 1
         /\ Sound(pop_state(s), FALSE)
<1>1. Sound(s, begin_) /\ begin_ \in BOOLEAN /\ Path(s.stack)
  BY DEF Stepping, Sound
<1>2. Len(s.stack) > 1
  BY <1>1, LastOfPath DEF Path
<1>3. begin_ = FALSE /\ Sound(pop_state(s), begin_)
  BY <1>1, <1>2, SoundPop
<1> QED BY <1>1, <1>2, <1>3

LEMMA StayMove ==
  ASSUME NEW F, NEW s, Telling(s, F), begin_' = begin_, NEW ok, Return(s, ok)
  PROVE  Moved(F)
BY ReturnMove DEF Telling

LEMMA FailMove ==
  ASSUME NEW F, NEW s, Telling(s, F), make_error(s)
  PROVE  Moved(F)
BY ErrorMove DEF Telling

LEMMA BecomeMove ==
  ASSUME NEW F, NEW s, Telling(s, F), begin_' = begin_,
         NEW g \in Consumers, SamePlace(Last(s.stack), g),
         IsFrame(Last(s.stack)) <=> IsFrame(g),
         IsFrame(g) => TopFrame(Last(s.stack), begin_) = TopFrame(g, begin_),
         NEW ok, Return(Become(s, g), ok)
  PROVE  Moved(F)
<1>1. Sound(s, begin_) /\ begin_ \in BOOLEAN /\ Path(s.stack)
  BY DEF Telling, Stepping, Sound
<1>2. /\ Become(s, g).stack = [s.stack EXCEPT ![Len(s.stack)] = g]
      /\ Become(s, g).calls = s.calls
  BY <1>1, RecordOps
<1>3. PICK b \in BOOLEAN : b = begin_
  BY <1>1
<1>4. FramesOf(Become(s, g).stack, b) = FramesOf(s.stack, b)
  BY <1>1, <1>2, <1>3, BecomeFrames
<1>5. Told(F, Become(s, g).calls, FramesOf(Become(s, g).stack, begin_'))
  BY <1>2, <1>3, <1>4 DEF Telling
<1> QED BY <1>5, ReturnMove

LEMMA CloseMove ==
  ASSUME NEW F, NEW s, Telling(s, F), begin_' = begin_, NEW h \in DOMAIN Sax!Ends,
         Last(s.stack) \in Closes(h), CallOrError(pop_state(s), h)
  PROVE  Moved(F)
<1>1. h \in {"end_array", "end_object", "end_string", "end_key"}
  BY DEF Sax!Ends
<1>2. Last(s.stack) # "initial"
  BY <1>1 DEF Closes
<1>3. /\ begin_ = FALSE /\ Sound(s, FALSE) /\ Path(s.stack)
      /\ Sound(pop_state(s), FALSE)
  BY <1>2, Begins DEF Telling
<1>4. pop_state(s).stack = Front(s.stack) /\ pop_state(s).calls = s.calls
  BY <1>3, RecordOps
<1>5. PICK E : E = FramesOf(s.stack, FALSE)
  OBVIOUS
<1>6. Last(E) \in Sax!Taken(h) /\ FramesOf(pop_state(s).stack, begin_') = Sax!After(E, h)
  BY <1>3, <1>4, <1>5, FrameClosed
<1>7. Told(F, pop_state(s).calls, E)
  BY <1>3, <1>4, <1>5 DEF Telling
<1>8. h \in Sax!ProtocolHandlers
  BY <1>1, SaxEnd
<1> QED BY <1>3, <1>6, <1>7, <1>8, CallOrErrorMove

\* The start of a value, where one is awaited.
LEMMA PushedValue ==
  ASSUME NEW F, NEW s, Sound(s, FALSE), NEW E, Told(F, s.calls, E),
         WaitsFor(s.stack, FALSE, E), begin_' = FALSE,
         NEW h \in DOMAIN Begun,
         \/ CallOrError(Push(s, Begun[h]), h) \/ CallOrLateError(Push(s, Begun[h]), h)
         \/ h = "begin_string" /\ CallOnly(Push(s, Begun[h]), h)
  PROVE  Moved(F)
<1>1. h \in {"begin_array", "begin_object", "begin_string"}
  BY DEF Begun
<1>2. Path(s.stack) /\ Len(s.stack) > 1
  <2>1. Path(s.stack)
    BY DEF Sound
  <2>2. Last(s.stack) # "initial"
    BY DEF WaitsFor
  <2> QED BY <2>1, <2>2, LastOfPath DEF Path
<1>3. Sound(Push(s, Begun[h]), FALSE)
  <2>1. Begun[h] \in {"arraystart", "objectstart", "string"}
    BY <1>1 DEF Begun
  <2>2. Begun[h] \in Consumers /\ Fits(Last(s.stack), Begun[h])
    BY <2>1 DEF Consumers, Fits, WaitsFor, Containers
  <2> QED BY <1>2, <2>2, SoundPush
<1>4. Push(s, Begun[h]).stack = Append(s.stack, Begun[h]) /\ Push(s, Begun[h]).calls = s.calls
  <2>1. \A f : Push(s, f).stack = Append(s.stack, f) /\ Push(s, f).calls = s.calls
    BY RecordOps
  <2> QED BY <2>1
<1>5. Last(E) \in Sax!Taken(h) /\ FramesOf(Push(s, Begun[h]).stack, begin_') = Sax!After(E, h)
  <2>1. /\ Last(E) \in Sax!Taken(h)
        /\ FramesOf(Append(s.stack, Begun[h]), FALSE) = Sax!After(E, h)
    BY <1>2, BegunPushed
  <2> QED BY <1>4, <2>1
<1>6. h \in Sax!ProtocolHandlers
  BY <1>1, SaxBegin
<1>7. CASE CallOrError(Push(s, Begun[h]), h) \/ CallOrLateError(Push(s, Begun[h]), h)
  BY <1>3, <1>4, <1>5, <1>6, <1>7, CallOrErrorMove
<1>8. CASE h = "begin_string" /\ CallOnly(Push(s, Begun[h]), h)
  <2>1. h \in Unreported
    BY <1>8 DEF Unreported
  <2> QED BY <1>3, <1>4, <1>5, <1>6, <1>8, <2>1, CallOnlyMove
<1> QED BY <1>7, <1>8

LEMMA StartedItem ==
  ASSUME NEW F, NEW s, Sound(s, FALSE), NEW E, Told(F, s.calls, E),
         WaitsFor(s.stack, FALSE, E), begin_ = FALSE, NEW c, StartItem(s, c)
  PROVE  Moved(F)
<1>1. ItemStart(c) \in Simples
  BY DEF StartItem, ItemStart, CallFree, Simples, Literals, Numbers, Digits19
<1>2. begin_' = FALSE /\ Return(Push(s, ItemStart(c)), TRUE)
  BY DEF StartItem
<1>3. Path(s.stack)
  BY DEF Sound
<1>4. /\ Push(s, ItemStart(c)).stack = Append(s.stack, ItemStart(c))
      /\ Push(s, ItemStart(c)).calls = s.calls
  BY RecordOps
<1>5. FramesOf(Append(s.stack, ItemStart(c)), FALSE) = E
  BY <1>1, <1>3, ScalarPushed
<1> QED BY <1>2, <1>4, <1>5, ReturnMove

\* Where a value is awaited, after the consumer of the container was exchanged.
LEMMA Awaiting ==
  ASSUME NEW F, NEW s, Telling(s, F), begin_' = begin_,
         NEW g, \/ Last(s.stack) \in {"arraystart", "arrayseparator", "array"} /\ g = "array"
                \/ Last(s.stack) = "objectseparator" /\ g = "objectvalue"
  PROVE  \E E : /\ begin_ = FALSE /\ begin_' = FALSE
                /\ Sound(Become(s, g), FALSE) /\ Told(F, Become(s, g).calls, E)
                /\ WaitsFor(Become(s, g).stack, FALSE, E)
<1>1. begin_ = FALSE /\ Sound(s, FALSE) /\ Path(s.stack)
  BY Begins DEF Telling
<1>2. SamePlace(Last(s.stack), g) /\ g \in Consumers
  BY DEF SamePlace, Containers, Consumers
<1>3. Sound(Become(s, g), FALSE)
  BY <1>1, <1>2, SoundBecome
<1>4. /\ Become(s, g).stack = [s.stack EXCEPT ![Len(s.stack)] = g]
      /\ Become(s, g).calls = s.calls
  BY <1>1, RecordOps
<1>5. PICK E : E = FramesOf(s.stack, FALSE)
  OBVIOUS
<1>6. WaitsFor(Become(s, g).stack, FALSE, E)
  BY <1>1, <1>4, <1>5, BecomeAwaits
<1>7. Told(F, Become(s, g).calls, E)
  BY <1>1, <1>4, <1>5 DEF Telling
<1> QED BY <1>1, <1>3, <1>6, <1>7

\* An item of an array, on an array that awaits it; before is what the step found.
LEMMA ItemBegun ==
  ASSUME NEW F, NEW before, Telling(before, F),
         Last(before.stack) \in {"arraystart", "arrayseparator", "array"}, NEW c,
         consume_array_itembegin_(Become(before, "array"), c)
  PROVE  Moved(F)
<1> DEFINE s == Become(before, "array")
<1>1. begin_' = begin_
  BY DEF consume_array_itembegin_, Structural, StartItem
<1>2. PICK E : /\ begin_ = FALSE /\ begin_' = FALSE
               /\ Sound(s, FALSE) /\ Told(F, s.calls, E) /\ WaitsFor(s.stack, FALSE, E)
  BY <1>1, Awaiting
<1>3. \/ CallOrError(Push(s, "string"), "begin_string")
      \/ CallOrLateError(Push(s, "objectstart"), "begin_object")
      \/ CallOrLateError(Push(s, "arraystart"), "begin_array")
      \/ StartItem(s, c)
      \/ make_error(s)
  BY DEF consume_array_itembegin_
<1> HIDE DEF s
<1>4. ASSUME NEW h \in DOMAIN Begun,
             CallOrError(Push(s, Begun[h]), h) \/ CallOrLateError(Push(s, Begun[h]), h)
      PROVE  Moved(F)
  BY <1>2, <1>4, PushedValue
<1>5. CASE CallOrError(Push(s, "string"), "begin_string")
  <2>1. "begin_string" \in DOMAIN Begun /\ Begun["begin_string"] = "string"
    BY DEF Begun
  <2> QED BY <1>4, <1>5, <2>1
<1>6. CASE CallOrLateError(Push(s, "objectstart"), "begin_object")
  <2>1. "begin_object" \in DOMAIN Begun /\ Begun["begin_object"] = "objectstart"
    BY DEF Begun
  <2> QED BY <1>4, <1>6, <2>1
<1>7. CASE CallOrLateError(Push(s, "arraystart"), "begin_array")
  <2>1. "begin_array" \in DOMAIN Begun /\ Begun["begin_array"] = "arraystart"
    BY DEF Begun
  <2> QED BY <1>4, <1>7, <2>1
<1>8. CASE StartItem(s, c)
  BY <1>2, <1>8, StartedItem
<1>9. CASE make_error(s)
  BY <1>2, <1>9, ErrorMove
<1> QED BY <1>3, <1>5, <1>6, <1>7, <1>8, <1>9

LEMMA ArrayMoves ==
  ASSUME NEW F, NEW s, Telling(s, F), NEW c, Last(s.stack) = "array", consume_array_(s, c)
  PROVE  Moved(F)
<1>1. begin_' = begin_
  BY DEF consume_array_, Structural
<1>2. CASE Return(s, TRUE)
  BY <1>1, <1>2, StayMove
<1>3. CASE CallOrError(pop_state(s), "end_array")
  <2>1. "end_array" \in DOMAIN Sax!Ends /\ Last(s.stack) \in Closes("end_array")
    BY DEF Sax!Ends, Closes
  <2> QED BY <1>1, <1>3, <2>1, CloseMove
<1>4. CASE Return(Become(s, "arrayseparator"), TRUE)
  <2>1. /\ "arrayseparator" \in Consumers /\ SamePlace("array", "arrayseparator")
        /\ IsFrame("array") /\ IsFrame("arrayseparator")
        /\ TopFrame("array", begin_) = TopFrame("arrayseparator", begin_)
    BY DEF Consumers, SamePlace, Containers, IsFrame, TopFrame, Literals, Numbers, Escapes
  <2> QED BY <1>1, <1>4, <2>1, BecomeMove
<1>5. CASE make_error(s)
  BY <1>5, FailMove
<1> QED BY <1>2, <1>3, <1>4, <1>5 DEF consume_array_

LEMMA ArrayStartMoves ==
  ASSUME NEW F, NEW s, Telling(s, F), NEW c,
         \/ Last(s.stack) = "arraystart" /\ consume_arraystart_(s, c)
         \/ Last(s.stack) = "arrayseparator" /\ consume_arrayseparator_(s, c)
  PROVE  Moved(F)
<1>1. CASE Return(s, TRUE) /\ Structural
  BY <1>1, StayMove DEF Structural
<1>2. CASE Last(s.stack) = "arraystart" /\ CallOrError(pop_state(s), "end_array") /\ Structural
  <2>1. "end_array" \in DOMAIN Sax!Ends /\ Last(s.stack) \in Closes("end_array")
    BY <1>2 DEF Sax!Ends, Closes
  <2> QED BY <1>2, <2>1, CloseMove DEF Structural
<1>3. CASE consume_array_itembegin_(Become(s, "array"), c)
  BY <1>3, ItemBegun
<1> QED BY <1>1, <1>2, <1>3 DEF consume_arraystart_, consume_arrayseparator_

LEMMA ObjectValueMoves ==
  ASSUME NEW F, NEW s, Telling(s, F), NEW c, Last(s.stack) = "objectvalue",
         consume_objectvalue_(s, c)
  PROVE  Moved(F)
<1>1. begin_' = begin_
  BY DEF consume_objectvalue_, Structural
<1>2. CASE Return(s, TRUE)
  BY <1>1, <1>2, StayMove
<1>3. CASE CallOrError(pop_state(s), "end_object")
  <2>1. "end_object" \in DOMAIN Sax!Ends /\ Last(s.stack) \in Closes("end_object")
    BY DEF Sax!Ends, Closes
  <2> QED BY <1>1, <1>3, <2>1, CloseMove
<1>4. CASE Return(Become(s, "objectbetween"), TRUE)
  <2>1. /\ "objectbetween" \in Consumers /\ SamePlace("objectvalue", "objectbetween")
        /\ IsFrame("objectvalue") /\ IsFrame("objectbetween")
        /\ TopFrame("objectvalue", begin_) = TopFrame("objectbetween", begin_)
    BY DEF Consumers, SamePlace, Containers, IsFrame, TopFrame, Literals, Numbers, Escapes
  <2> QED BY <1>1, <1>4, <2>1, BecomeMove
<1>5. CASE make_error(s)
  BY <1>5, FailMove
<1> QED BY <1>2, <1>3, <1>4, <1>5 DEF consume_objectvalue_

LEMMA KeyMoves ==
  ASSUME NEW F, NEW s, Telling(s, F), NEW c,
         \/ Last(s.stack) = "objectstart" /\ consume_objectstart_(s, c)
         \/ Last(s.stack) = "objectbetween" /\ consume_objectbetween_(s, c)
  PROVE  Moved(F)
<1>1. begin_' = begin_ /\ Last(s.stack) \in {"objectstart", "objectbetween"}
  BY DEF consume_objectstart_, consume_objectbetween_, Structural
<1>2. begin_ = FALSE /\ Sound(s, FALSE) /\ Path(s.stack) /\ Len(s.stack) > 1
  BY <1>1, Begins DEF Telling
<1>3. CASE Return(s, TRUE)
  BY <1>1, <1>3, StayMove
<1>4. CASE Last(s.stack) = "objectstart" /\ CallOrError(pop_state(s), "end_object")
  <2>1. "end_object" \in DOMAIN Sax!Ends /\ Last(s.stack) \in Closes("end_object")
    BY <1>4 DEF Sax!Ends, Closes
  <2> QED BY <1>1, <1>4, <2>1, CloseMove
<1>5. CASE CallOnly(Push(Become(s, "objectkey"), "stringkey"), "begin_key")
  <2> DEFINE v == Become(s, "objectkey")
             t == Push(v, "stringkey")
  <2>1. SamePlace(Last(s.stack), "objectkey") /\ "objectkey" \in Consumers
    BY <1>1 DEF SamePlace, Containers, Consumers
  <2>2. Sound(v, FALSE) /\ Len(v.stack) > 1 /\ Last(v.stack) = "objectkey"
    BY <1>2, <2>1, SoundBecome
  <2>3. v.stack = [s.stack EXCEPT ![Len(s.stack)] = "objectkey"] /\ v.calls = s.calls
    BY <1>2, RecordOps
  <2>4. Fits("objectkey", "stringkey") /\ "stringkey" \in Consumers
    BY DEF Fits, Consumers
  <2> HIDE DEF v
  <2>5. Sound(t, FALSE)
    BY <2>2, <2>4, SoundPush
  <2>6. t.stack = Append(v.stack, "stringkey") /\ t.calls = s.calls
    BY <2>2, <2>3, RecordOps
  <2>7. PICK E : E = FramesOf(s.stack, FALSE)
    OBVIOUS
  <2>8. /\ Last(E) \in Sax!Taken("begin_key")
        /\ FramesOf(t.stack, FALSE) = Sax!After(E, "begin_key")
    BY <1>1, <1>2, <2>3, <2>6, <2>7, KeyPushed
  <2>9. "begin_key" \in Sax!ProtocolHandlers \cap Unreported
    BY SaxBeginKey DEF Unreported
  <2>10. Told(F, t.calls, E)
    BY <1>2, <2>6, <2>7 DEF Telling
  <2>11. CallOnly(t, "begin_key")
    BY <1>5 DEF v
  <2>12. FramesOf(t.stack, begin_') = Sax!After(E, "begin_key")
    BY <1>1, <1>2, <2>8
  <2> HIDE DEF t
  <2> QED BY <2>5, <2>8, <2>9, <2>10, <2>11, <2>12, CallOnlyMove
<1>6. CASE make_error(s)
  BY <1>6, FailMove
<1> QED BY <1>3, <1>4, <1>5, <1>6 DEF consume_objectstart_, consume_objectbetween_

LEMMA ObjectKeyMoves ==
  ASSUME NEW F, NEW s, Telling(s, F), NEW c, Last(s.stack) = "objectkey",
         consume_objectkey_(s, c)
  PROVE  Moved(F)
<1>1. begin_' = begin_
  BY DEF consume_objectkey_, Structural
<1>2. CASE Return(s, TRUE)
  BY <1>1, <1>2, StayMove
<1>3. CASE Return(Become(s, "objectseparator"), TRUE)
  <2>1. /\ "objectseparator" \in Consumers /\ SamePlace("objectkey", "objectseparator")
        /\ IsFrame("objectkey") /\ IsFrame("objectseparator")
        /\ TopFrame("objectkey", begin_) = TopFrame("objectseparator", begin_)
    BY DEF Consumers, SamePlace, Containers, IsFrame, TopFrame, Literals, Numbers, Escapes
  <2> QED BY <1>1, <1>3, <2>1, BecomeMove
<1>4. CASE make_error(s)
  BY <1>4, FailMove
<1> QED BY <1>2, <1>3, <1>4 DEF consume_objectkey_

LEMMA ObjectSeparatorMoves ==
  ASSUME NEW F, NEW s, Telling(s, F), NEW c, Last(s.stack) = "objectseparator",
         consume_objectseparator_(s, c)
  PROVE  Moved(F)
<1> DEFINE v == Become(s, "objectvalue")
<1>1. begin_' = begin_
  BY DEF consume_objectseparator_, Structural, StartItem
<1>2. PICK E : /\ begin_ = FALSE /\ begin_' = FALSE
               /\ Sound(v, FALSE) /\ Told(F, v.calls, E) /\ WaitsFor(v.stack, FALSE, E)
  BY <1>1, Awaiting
<1>3. \/ Return(s, TRUE)
      \/ CallOnly(Push(v, "string"), "begin_string")
      \/ CallOrError(Push(v, "objectstart"), "begin_object")
      \/ CallOrError(Push(v, "arraystart"), "begin_array")
      \/ StartItem(v, c)
      \/ make_error(s)
  BY DEF consume_objectseparator_
<1> HIDE DEF v
<1>4. CASE Return(s, TRUE)
  BY <1>1, <1>4, StayMove
<1>5. CASE CallOnly(Push(v, "string"), "begin_string")
  <2>1. "begin_string" \in DOMAIN Begun /\ Begun["begin_string"] = "string"
    BY DEF Begun
  <2> QED BY <1>2, <1>5, <2>1, PushedValue
<1>6. CASE CallOrError(Push(v, "objectstart"), "begin_object")
  <2>1. "begin_object" \in DOMAIN Begun /\ Begun["begin_object"] = "objectstart"
    BY DEF Begun
  <2> QED BY <1>2, <1>6, <2>1, PushedValue
<1>7. CASE CallOrError(Push(v, "arraystart"), "begin_array")
  <2>1. "begin_array" \in DOMAIN Begun /\ Begun["begin_array"] = "arraystart"
    BY DEF Begun
  <2> QED BY <1>2, <1>7, <2>1, PushedValue
<1>8. CASE StartItem(v, c)
  BY <1>2, <1>8, StartedItem
<1>9. CASE make_error(s)
  BY <1>9, FailMove
<1> QED BY <1>3, <1>4, <1>5, <1>6, <1>7, <1>8, <1>9

\* The value on top is given, with what is told of it.
LEMMA GivenFrames ==
  ASSUME NEW F, NEW s, Telling(s, F), Last(s.stack) \in Simples,
         NEW h \in {"double", "boolean", "null"}
  PROVE  \E E : /\ begin_ = FALSE /\ Sound(pop_state(s), FALSE)
                /\ Told(F, pop_state(s).calls, E)
                /\ Last(E) \in Sax!Taken(h)
                /\ FramesOf(pop_state(s).stack, FALSE) = Sax!After(E, h)
<1>1. Last(s.stack) # "initial"
  BY DEF Simples, Literals, Numbers
<1>2. begin_ = FALSE /\ Sound(s, FALSE) /\ Path(s.stack) /\ Sound(pop_state(s), FALSE)
  BY <1>1, Begins DEF Telling
<1>3. pop_state(s).stack = Front(s.stack) /\ pop_state(s).calls = s.calls
  BY <1>2, RecordOps
<1>4. PICK E : E = FramesOf(s.stack, FALSE)
  OBVIOUS
<1>5. Last(E) \in Sax!Taken(h) /\ FramesOf(Front(s.stack), FALSE) = Sax!After(E, h)
  BY <1>2, <1>4, ScalarGiven
<1>6. Told(F, pop_state(s).calls, E)
  BY <1>2, <1>3, <1>4 DEF Telling
<1> QED BY <1>2, <1>3, <1>5, <1>6

LEMMA LiteralMoves ==
  ASSUME NEW F, NEW s, Telling(s, F), NEW c, Last(s.stack) \in Literals,
         consume_literal_(s, c)
  PROVE  Moved(F)
<1> DEFINE f == Last(s.stack)
<1>1. begin_' = begin_
  BY DEF consume_literal_, Structural
<1>2. CASE f \in DOMAIN LiteralArcs /\ Return(Become(s, LiteralArcs[f][2]), TRUE)
  <2>1. LiteralArcs[f][2] \in Literals
    BY <1>2 DEF LiteralArcs, Literals
  <2>2. /\ SamePlace(f, LiteralArcs[f][2]) /\ LiteralArcs[f][2] \in Consumers
        /\ ~IsFrame(f) /\ ~IsFrame(LiteralArcs[f][2])
    BY <2>1 DEF SamePlace, Consumers, IsFrame
  <2> QED BY <1>1, <1>2, <2>2, BecomeMove
<1>3. CASE f \in DOMAIN LiteralEnds /\ CallOrError(pop_state(s), LiteralEnds[f][2])
  <2>1. LiteralEnds[f][2] \in {"double", "boolean", "null"}
    BY <1>3 DEF LiteralEnds
  <2>2. PICK h \in {"double", "boolean", "null"} : h = LiteralEnds[f][2]
    BY <2>1
  <2>3. f \in Simples
    BY DEF Simples
  <2>4. PICK E : /\ begin_ = FALSE /\ Sound(pop_state(s), FALSE)
                 /\ Told(F, pop_state(s).calls, E)
                 /\ Last(E) \in Sax!Taken(h)
                 /\ FramesOf(pop_state(s).stack, FALSE) = Sax!After(E, h)
    BY <2>3, GivenFrames
  <2>5. h \in Sax!ProtocolHandlers
    BY SaxScalar
  <2>6. FramesOf(pop_state(s).stack, begin_') = Sax!After(E, h)
    BY <1>1, <2>4
  <2>7. CallOrError(pop_state(s), h)
    BY <1>3, <2>2
  <2> QED BY <2>4, <2>5, <2>6, <2>7, CallOrErrorMove
<1>4. CASE make_error(s)
  BY <1>4, FailMove
<1> QED BY <1>2, <1>3, <1>4 DEF consume_literal_

-----------------------------------------------------------------------------
(* The consumers that may make two calls: the parser has made none before. *)

Starting(s, F) == Stepping(s) /\ s.calls = << >> /\ F = FramesOf(s.stack, begin_)

LEMMA StartTelling ==
  ASSUME NEW F, NEW s, Starting(s, F)
  PROVE  Telling(s, F) /\ Told(F, s.calls, F)
BY DEF Starting, Telling, Told

\* One call was made and accepted.
LEMMA FirstTold ==
  ASSUME NEW F, NEW s, NEW b, Sound(s, b), s.calls = << >>,
         NEW h \in Sax!ProtocolHandlers, Last(F) \in Sax!Taken(h)
  PROVE  Told(F, Called(s, h, TRUE).calls, Sax!After(F, h))
<1> DEFINE r == [handler |-> h, ok |-> TRUE]
<1>1. Called(s, h, TRUE).calls = Append(s.calls, r)
  BY CalledRecord
<1> HIDE DEF r
<1>2. Append(<< >>, r) = << r >>
  BY ONLY TRUE
<1>3. Called(s, h, TRUE).calls = << r >>
  BY <1>1, <1>2, Zenon
<1> QED BY <1>3 DEF Told, r

LEMMA EndNumberMoves ==
  ASSUME NEW F, NEW s, Starting(s, F), NEW c, Last(s.stack) \in Numbers, EndNumber(s, c)
  PROVE  Moved(F)
<1> DEFINE p == pop_state(s)
           t == Called(p, "double", TRUE)
<1>1. begin_ = FALSE /\ Sound(s, FALSE) /\ Path(s.stack) /\ Sound(p, FALSE)
  <2>1. Last(s.stack) # "initial"
    BY DEF Numbers
  <2> QED BY <2>1, Begins DEF Starting
<1>2. p.stack = Front(s.stack) /\ p.calls = << >>
  BY <1>1, RecordOps DEF Starting
<1>3. Last(F) \in Sax!Taken("double") /\ FramesOf(p.stack, FALSE) = Sax!After(F, "double")
  <2>1. Last(s.stack) \in Simples
    BY DEF Simples
  <2>2. F = FramesOf(s.stack, FALSE)
    BY <1>1 DEF Starting
  <2> QED BY <1>1, <1>2, <2>1, <2>2, ScalarGiven
<1>4. "double" \in Sax!ProtocolHandlers
  BY SaxScalar
<1>5. \/ Reconsume(t, c)
       \/ /\ FALSE \in Answers("double")
          /\ Return(Called(p, "double", FALSE), FALSE)
          /\ Structural
       \/ make_error(p)
  BY DEF EndNumber
<1> HIDE DEF p
<1>6. Told(F, t.calls, Sax!After(F, "double"))
  BY <1>1, <1>2, <1>3, <1>4, FirstTold
<1>7. Sound(t, FALSE) /\ t.stack = p.stack
  BY <1>1, SoundCalled
<1> HIDE DEF t
<1>8. CASE Reconsume(t, c)
  <2>1. Stepping(t)
    BY <1>1, <1>7 DEF Starting, Stepping
  <2>2. Telling(t, F)
    BY <1>1, <1>3, <1>6, <1>7, <2>1 DEF Telling
  <2> QED BY <1>8, <2>2, ArrayMoves, ObjectValueMoves DEF Reconsume
<1>9. ASSUME FALSE \in Answers("double"), Return(Called(p, "double", FALSE), FALSE), Structural
      PROVE  Moved(F)
  <2>1. "double" \in MayReject /\ "double" \in Unreported
    BY <1>9, AcceptedOrNot DEF Unreported
  <2>2. begin_' = FALSE /\ Told(F, p.calls, F)
    BY <1>1, <1>2, <1>9 DEF Structural, Told
  <2>3. Called(p, "double", FALSE).stack = p.stack
    BY <1>1, CalledRecord
  <2>4. calls' = Called(p, "double", FALSE).calls /\ consumer_stack_' = p.stack
    BY <1>9, <2>3 DEF Return, Leave
  <2>5. FramesOf(consumer_stack_', begin_') = Sax!After(F, "double")
    BY <1>3, <2>2, <2>4
  <2> QED BY <1>1, <1>3, <1>4, <2>1, <2>2, <2>4, <2>5, CallMove
<1>10. CASE make_error(p)
  <2>1. Told(F, p.calls, F)
    BY <1>2 DEF Told
  <2> QED BY <1>10, <2>1, ErrorMove
<1> QED BY <1>8, <1>9, <1>10, <1>5 DEF t

LEMMA NumberMoves ==
  ASSUME NEW F, NEW s, Starting(s, F), NEW c, Last(s.stack) \in Numbers,
         consume_number_(s, c) \/ consume_numberstarting0_(s, c)
  PROVE  Moved(F)
<1>1. Telling(s, F)
  BY StartTelling
<1>2. CASE AppendDigit(s, c)
  <2>1. begin_' = begin_ /\ Return(Become(s, "number"), TRUE)
    BY <1>2 DEF AppendDigit
  <2>2. /\ "number" \in Consumers /\ SamePlace(Last(s.stack), "number")
        /\ ~IsFrame(Last(s.stack)) /\ ~IsFrame("number")
    BY DEF Consumers, SamePlace, Numbers, IsFrame
  <2> QED BY <1>1, <2>1, <2>2, BecomeMove
<1>3. CASE make_error(s)
  BY <1>1, <1>3, FailMove
<1>4. CASE EndNumber(s, c)
  BY <1>4, EndNumberMoves
<1> QED BY <1>2, <1>3, <1>4 DEF consume_number_, consume_numberstarting0_

\* The handler of the content of a text and the one of its end.
TextHandlers(f, content, closing) ==
  \/ f = "string" /\ content = "string_content" /\ closing = "end_string"
  \/ f = "stringkey" /\ content = "key_content" /\ closing = "end_key"

LEMMA TextFacts ==
  ASSUME NEW f, NEW content, NEW closing, TextHandlers(f, content, closing), NEW F,
         Last(F) = IF f = "stringkey" THEN "key" ELSE "string"
  PROVE  /\ content \in Sax!ProtocolHandlers \cap Unreported
         /\ Last(F) \in Sax!Taken(content) /\ Sax!After(F, content) = F
         /\ closing \in DOMAIN Sax!Ends /\ f \in Closes(closing)
<1>1. content \in {"string_content", "key_content"}
  BY DEF TextHandlers
<1>2. content \in Sax!ProtocolHandlers /\ Sax!After(F, content) = F
  BY <1>1, SaxContent
<1>3. content \in Unreported
  BY <1>1 DEF Unreported
<1>4. Last(F) = Sax!Contents[content]
  BY DEF TextHandlers, Sax!Contents
<1>5. Last(F) \in Sax!Taken(content)
  BY <1>1, <1>4, SaxContent
<1>6. closing \in DOMAIN Sax!Ends /\ f \in Closes(closing)
  BY DEF TextHandlers, Sax!Ends, Closes
<1> QED BY <1>2, <1>3, <1>5, <1>6

\* The content that is left, if any, is given and the step ends.
LEMMA ContentMove ==
  ASSUME NEW F, NEW s, NEW b, Sound(s, b), s.calls = << >>,
         NEW content \in Sax!ProtocolHandlers \cap Unreported,
         Last(F) \in Sax!Taken(content), Sax!After(F, content) = F,
         FramesOf(s.stack, begin_') = F,
         NEW ok \in ContentAnswers(content), Return(ContentCalled(s, content, ok), ok)
  PROVE  Moved(F)
<1>1. Told(F, s.calls, F)
  BY DEF Told
<1>2. CASE first_ = 0
  BY <1>1, <1>2, ReturnMove DEF ContentCalled
<1>3. CASE first_ # 0
  <2>1. CallOnly(s, content)
    BY <1>3 DEF CallOnly, ContentCalled, ContentAnswers
  <2> QED BY <1>1, <2>1, CallOnlyMove
<1> QED BY <1>2, <1>3

LEMMA ClosedTextMoves ==
  ASSUME NEW F, NEW s, Starting(s, F), Last(s.stack) \in Texts, NEW content, NEW closing,
         TextHandlers(Last(s.stack), content, closing), CloseText(s, content, closing)
  PROVE  Moved(F)
<1> DEFINE f == Last(s.stack)
           p == pop_state(s)
           u == ContentCalled(p, content, TRUE)
<1>1. /\ begin_ = FALSE /\ begin_' = FALSE
      /\ Sound(s, FALSE) /\ Path(s.stack) /\ Sound(p, FALSE)
  <2>1. f # "initial"
    BY DEF Texts
  <2>2. begin_' = begin_
    BY DEF CloseText
  <2> QED BY <2>1, <2>2, Begins DEF Starting
<1>2. p.stack = Front(s.stack) /\ p.calls = << >>
  BY <1>1, RecordOps DEF Starting
<1>3. F = FramesOf(s.stack, FALSE)
  BY <1>1 DEF Starting
<1>4. Last(F) = IF f = "stringkey" THEN "key" ELSE "string"
  BY <1>1, <1>3, EscapeBegun DEF Texts
<1>5. /\ content \in Sax!ProtocolHandlers /\ Last(F) \in Sax!Taken(content)
      /\ Sax!After(F, content) = F
      /\ closing \in DOMAIN Sax!Ends /\ f \in Closes(closing)
  BY <1>4, TextFacts
<1>6. Last(F) \in Sax!Taken(closing) /\ FramesOf(Front(s.stack), FALSE) = Sax!After(F, closing)
  BY <1>1, <1>3, <1>5, FrameClosed
<1>7. closing \in Sax!ProtocolHandlers
  BY <1>5 DEF Sax!ProtocolHandlers
<1>8. \/ CallOrError(u, closing)
      \/ FALSE \in ContentAnswers(content) /\ make_error(Called(p, content, FALSE))
  BY DEF CloseText
<1>9. Told(F, p.calls, F)
  BY <1>2 DEF Told
<1> HIDE DEF p
<1>10. CASE CallOrError(u, closing)
  <2>1. Sound(u, FALSE)
    BY <1>1, SoundContent
  <2>2. u.stack = p.stack
    BY <1>1, SoundCalled DEF ContentCalled
  <2>3. Told(F, u.calls, F)
    <3>1. CASE first_ = 0
      BY <1>9, <3>1 DEF ContentCalled
    <3>2. CASE first_ # 0
      <4>1. Told(F, Called(p, content, TRUE).calls, Sax!After(F, content))
        BY <1>1, <1>2, <1>5, FirstTold
      <4> QED BY <1>5, <3>2, <4>1 DEF ContentCalled
    <3> QED BY <3>1, <3>2
  <2>4. FramesOf(u.stack, begin_') = Sax!After(F, closing)
    BY <1>1, <1>2, <1>6, <2>2
  <2> HIDE DEF u
  <2> QED BY <1>6, <1>7, <1>10, <2>1, <2>3, <2>4, CallOrErrorMove
<1>11. CASE FALSE \in ContentAnswers(content) /\ make_error(Called(p, content, FALSE))
  <2>1. content \in MayReject
    BY <1>11 DEF ContentAnswers, Answers
  <2>2. calls' = Called(p, content, FALSE).calls /\ consumer_stack_' = << "inerror" >>
    BY <1>11 DEF make_error, Leave
  <2> QED BY <1>1, <1>5, <1>9, <2>1, <2>2, CallMove
<1> QED BY <1>8, <1>10, <1>11

LEMMA TextMoves ==
  ASSUME NEW F, NEW s, Starting(s, F), Last(s.stack) \in Texts, NEW content, NEW closing,
         TextHandlers(Last(s.stack), content, closing), NEW c,
         consume_text_(s, c, content, closing)
  PROVE  Moved(F)
<1>1. begin_ = FALSE /\ Sound(s, FALSE) /\ Path(s.stack) /\ Len(s.stack) > 1
  <2>1. Last(s.stack) # "initial"
    BY DEF Texts
  <2> QED BY <2>1, Begins DEF Starting
<1>2. Telling(s, F) /\ F = FramesOf(s.stack, FALSE)
  BY <1>1, StartTelling DEF Starting
<1>3. CASE BeginEscape(s, content)
  <2> DEFINE t == Push(s, "stringescape")
  <2>1. PICK ok \in ContentAnswers(content) : Return(ContentCalled(t, content, ok), ok)
    BY <1>3 DEF BeginEscape
  <2>2. begin_' = FALSE
    BY <1>1, <1>3 DEF BeginEscape
  <2>3. "stringescape" \in Consumers /\ Fits(Last(s.stack), "stringescape")
    BY DEF Consumers, Fits, Escapes, Texts
  <2>4. Sound(t, FALSE)
    BY <1>1, <2>3, SoundPush
  <2>5. t.stack = Append(s.stack, "stringescape") /\ t.calls = << >>
    <3>1. s.calls = << >>
      BY DEF Starting
    <3>2. Push(s, "stringescape").stack = Append(s.stack, "stringescape")
          /\ Push(s, "stringescape").calls = s.calls
      BY <1>1, RecordOps
    <3> QED BY <3>1, <3>2
  <2> HIDE DEF t
  <2>6. FramesOf(t.stack, begin_') = F
    BY <1>1, <1>2, <2>2, <2>5, EscapeBegun DEF Texts
  <2>7. Last(F) = IF Last(s.stack) = "stringkey" THEN "key" ELSE "string"
    BY <1>1, <1>2, EscapeBegun DEF Texts
  <2>8. /\ content \in Sax!ProtocolHandlers \cap Unreported
        /\ Last(F) \in Sax!Taken(content) /\ Sax!After(F, content) = F
    BY <2>7, TextFacts
  <2> QED BY <2>1, <2>4, <2>5, <2>6, <2>8, ContentMove
<1>4. CASE CloseText(s, content, closing)
  BY <1>4, ClosedTextMoves
<1>5. CASE make_error(s)
  BY <1>2, <1>5, FailMove
<1>6. CASE OrdinaryCharacter(s)
  BY <1>2, <1>6, StayMove DEF OrdinaryCharacter
<1> QED BY <1>3, <1>4, <1>5, <1>6 DEF consume_text_

\* An escape ends: what it stands for is given.
LEMMA EscapeGiven ==
  ASSUME NEW F, NEW s, Starting(s, F), Last(s.stack) \in Escapes, begin_' = begin_
  PROVE  /\ Sound(PopBack(s), begin_) /\ PopBack(s).calls = << >>
         /\ FramesOf(PopBack(s).stack, begin_') = F
         /\ Last(F) = IF s.stack[Len(s.stack) - 1] = "stringkey" THEN "key" ELSE "string"
<1>1. Last(s.stack) # "initial"
  BY DEF Escapes
<1>2. begin_ = FALSE /\ Sound(s, FALSE) /\ Path(s.stack)
  BY <1>1, Begins DEF Starting
<1>3. Sound(PopBack(s), FALSE)
  BY <1>2, SoundPopBack
<1>4. PopBack(s).stack = Front(s.stack) /\ PopBack(s).calls = << >>
  BY <1>2, RecordOps DEF Starting
<1>5. F = FramesOf(s.stack, FALSE)
  BY <1>2 DEF Starting
<1>6. /\ FramesOf(Front(s.stack), FALSE) = F
      /\ Last(F) = IF s.stack[Len(s.stack) - 1] = "stringkey" THEN "key" ELSE "string"
  BY <1>2, <1>5, EscapeLeft
<1> QED BY <1>2, <1>3, <1>4, <1>6

\* The content handler that inside_key_ selects is the one of the text.
InsideMatches(s) == inside_key_ <=> s.stack[Len(s.stack) - 1] = "stringkey"

LEMMA EscapeGivenMoves ==
  ASSUME NEW F, NEW s, Starting(s, F), Last(s.stack) \in Escapes, begin_' = begin_,
         InsideMatches(s),
         NEW h, CallOnly(PopBack(s), h),
         h = Content \/ (h = "string_content" /\ ~inside_key_)
  PROVE  Moved(F)
<1> DEFINE p == PopBack(s)
           f == IF inside_key_ THEN "stringkey" ELSE "string"
<1>1. /\ Sound(p, begin_) /\ p.calls = << >> /\ FramesOf(p.stack, begin_') = F
      /\ Last(F) = IF s.stack[Len(s.stack) - 1] = "stringkey" THEN "key" ELSE "string"
  BY EscapeGiven
<1>2. h = Content
  BY DEF Content
<1>3. TextHandlers(f, h, IF inside_key_ THEN "end_key" ELSE "end_string")
  BY <1>2 DEF TextHandlers, Content
<1>4. Last(F) = IF f = "stringkey" THEN "key" ELSE "string"
  BY <1>1 DEF InsideMatches
<1>5. /\ h \in Sax!ProtocolHandlers \cap Unreported
      /\ Last(F) \in Sax!Taken(h) /\ Sax!After(F, h) = F
  BY <1>3, <1>4, TextFacts
<1>6. Told(F, p.calls, F)
  BY <1>1 DEF Told
<1> HIDE DEF p
<1> QED BY <1>1, <1>5, <1>6, CallOnlyMove DEF p

LEMMA EscapeMoves ==
  ASSUME NEW F, NEW s, Starting(s, F), Last(s.stack) \in Escapes, InsideMatches(s), NEW c,
         \/ consume_stringescape_(s, c)
         \/ consume_stringuvalue_(s, c)
         \/ consume_stringuvalue3_(s, c)
         \/ consume_stringuvalue4_(s, c)
  PROVE  Moved(F)
<1> DEFINE f == Last(s.stack)
<1>1. Telling(s, F)
  BY StartTelling
<1>2. ASSUME NEW g \in Escapes, begin_' = begin_, Return(Become(s, g), TRUE)
      PROVE  Moved(F)
  <2>1. /\ g \in Consumers /\ SamePlace(Last(s.stack), g)
        /\ ~IsFrame(Last(s.stack)) /\ ~IsFrame(g)
    BY DEF Consumers, SamePlace, IsFrame
  <2> QED BY <1>1, <1>2, <2>1, BecomeMove
<1>3. CASE make_error(s)
  BY <1>1, <1>3, FailMove
<1>4. CASE begin_' = begin_ /\ CallOnly(PopBack(s), Content)
  BY <1>4, EscapeGivenMoves
<1>5. CASE consume_stringescape_(s, c)
  <2>1. "stringuvalue" \in Escapes
    BY DEF Escapes
  <2>2. \/ begin_' = begin_ /\ Return(Become(s, "stringuvalue"), TRUE)
        \/ begin_' = begin_ /\ CallOnly(PopBack(s), Content)
        \/ make_error(s)
    BY <1>5 DEF consume_stringescape_, Structural
  <2> QED BY <1>2, <1>3, <1>4, <2>1, <2>2
<1>6. CASE consume_stringuvalue_(s, c)
  <2>1. f \in DOMAIN UnicodeArcs /\ UnicodeArcs[f][2] \in Escapes
    BY <1>6 DEF consume_stringuvalue_, UnicodeArcs, Escapes
  <2>2. \/ begin_' = begin_ /\ Return(Become(s, UnicodeArcs[f][2]), TRUE)
        \/ make_error(s)
    BY <1>6 DEF consume_stringuvalue_
  <2> QED BY <1>2, <1>3, <2>1, <2>2
<1>7. CASE consume_stringuvalue3_(s, c)
  <2>1. "stringuvalue4" \in Escapes
    BY DEF Escapes
  <2>2. \/ begin_' = begin_ /\ Return(Become(s, "stringuvalue4"), TRUE)
        \/ begin_' = begin_ /\ CallOnly(PopBack(s), Content)
        \/ make_error(s)
    BY <1>7 DEF consume_stringuvalue3_
  <2> QED BY <1>2, <1>3, <1>4, <2>1, <2>2
<1>8. CASE consume_stringuvalue4_(s, c)
  <2>1. f \in DOMAIN PairArcs /\ PairArcs[f][2] \in Escapes
    BY <1>8 DEF consume_stringuvalue4_, PairArcs, Escapes
  <2>2. \/ begin_' = begin_ /\ Return(Become(s, PairArcs[f][2]), TRUE)
        \/ make_error(s)
    BY <1>8 DEF consume_stringuvalue4_, Structural
  <2> QED BY <1>2, <1>3, <2>1, <2>2
<1> QED BY <1>5, <1>6, <1>7, <1>8

\* The pair at the end of an escape in a key is given as the content of a string.
PairGiven(F) ==
  /\ inside_key_ /\ FramesOf(consumer_stack_', begin_') = F
  /\ \E ok \in Answers("string_content") :
        calls' = << [handler |-> "string_content", ok |-> ok] >>

LEMMA PairMoves ==
  ASSUME NEW F, NEW s, Starting(s, F), Last(s.stack) = "stringuvalue9", InsideMatches(s),
         NEW c, consume_stringuvalue9_(s, c)
  PROVE  Moved(F) \/ PairGiven(F)
<1>1. Telling(s, F) /\ Last(s.stack) \in Escapes
  BY StartTelling DEF Escapes
<1>2. CASE begin_' = begin_ /\ CallOnly(PopBack(s), "string_content")
  <2>1. CASE ~inside_key_
    BY <1>1, <1>2, <2>1, EscapeGivenMoves
  <2>2. CASE inside_key_
    <3> DEFINE p == PopBack(s)
    <3>1. Sound(p, begin_) /\ p.calls = << >> /\ FramesOf(p.stack, begin_') = F
      BY <1>1, <1>2, EscapeGiven
    <3>2. CallOnly(p, "string_content")
      BY <1>2
    <3> HIDE DEF p
    <3>3. PICK ok \in Answers("string_content") :
             Return(Called(p, "string_content", ok), ok)
      BY <3>2 DEF CallOnly
    <3>4. PICK r : r = [handler |-> "string_content", ok |-> ok]
      OBVIOUS
    <3>5. /\ Called(p, "string_content", ok).stack = p.stack
          /\ Called(p, "string_content", ok).calls = Append(p.calls, r)
      BY <3>1, <3>4, CalledRecord
    <3>6. Append(<< >>, r) = << r >>
      BY ONLY TRUE
    <3>7. consumer_stack_' = p.stack /\ calls' = << r >>
      BY <3>1, <3>3, <3>5, <3>6 DEF Return, Leave
    <3>8. FramesOf(consumer_stack_', begin_') = F
      BY <3>1, <3>7
    <3> QED BY <2>2, <3>4, <3>7, <3>8 DEF PairGiven
  <2> QED BY <2>1, <2>2
<1>3. CASE make_error(PopBack(s)) /\ begin_' = begin_
  <2>1. PopBack(s).calls = << >>
    BY <1>1, <1>3, EscapeGiven
  <2>2. Told(F, PopBack(s).calls, F)
    BY <2>1 DEF Told
  <2> QED BY <1>3, <2>2, ErrorMove
<1>4. CASE make_error(s)
  BY <1>1, <1>4, FailMove
<1> QED BY <1>2, <1>3, <1>4 DEF consume_stringuvalue9_

LEMMA InitialMoves ==
  ASSUME NEW F, NEW s, Starting(s, F), Last(s.stack) = "initial", NEW c,
         consume_initial_(s, c)
  PROVE  Moved(F)
<1>1. Telling(s, F) /\ Told(F, s.calls, F)
  BY StartTelling
<1>2. Sound(s, begin_) /\ Path(s.stack) /\ begin_ \in BOOLEAN
  BY DEF Starting, Stepping, Sound
<1>3. ASSUME begin_, begin_' = FALSE, NEW h \in DOMAIN Begun,
             CallOrError(Push(s, Begun[h]), h)
      PROVE  Moved(F)
  <2> DEFINE t == Push(s, Begun[h])
  <2>1. h \in {"begin_array", "begin_object", "begin_string"}
    BY DEF Begun
  <2>2. Begun[h] \in Consumers /\ Fits(Last(s.stack), Begun[h])
    <3>1. Begun[h] \in {"arraystart", "objectstart", "string"}
      BY <2>1 DEF Begun
    <3> QED BY <3>1 DEF Consumers, Fits, Containers
  <2>3. begin_ = TRUE /\ F = FramesOf(s.stack, TRUE)
    BY <1>2, <1>3 DEF Starting
  <2>4. Sound(t, FALSE)
    BY <1>2, <2>2, <2>3, SoundPush
  <2>5. t.stack = Append(s.stack, Begun[h]) /\ t.calls = s.calls
    <3>1. \A f : Push(s, f).stack = Append(s.stack, f) /\ Push(s, f).calls = s.calls
      BY <1>2, RecordOps
    <3> QED BY <3>1
  <2>6. /\ Last(F) \in Sax!Taken(h)
        /\ FramesOf(Append(s.stack, Begun[h]), FALSE) = Sax!After(F, h)
    BY <1>2, <2>3, BegunInitial
  <2>7. h \in Sax!ProtocolHandlers
    BY <2>1, SaxBegin
  <2>8. CallOrError(t, h)
    BY <1>3
  <2> HIDE DEF t
  <2>9. FramesOf(t.stack, begin_') = Sax!After(F, h) /\ Told(F, t.calls, F)
    BY <1>1, <1>3, <2>5, <2>6
  <2> QED BY <2>4, <2>6, <2>7, <2>8, <2>9, CallOrErrorMove
<1>4. /\ "begin_object" \in DOMAIN Begun /\ Begun["begin_object"] = "objectstart"
      /\ "begin_array" \in DOMAIN Begun /\ Begun["begin_array"] = "arraystart"
      /\ "begin_string" \in DOMAIN Begun /\ Begun["begin_string"] = "string"
  BY DEF Begun
<1>5. CASE begin_ /\ begin_' = FALSE /\ CallOrError(Push(s, "objectstart"), "begin_object")
  BY <1>3, <1>4, <1>5
<1>6. CASE begin_ /\ begin_' = FALSE /\ CallOrError(Push(s, "arraystart"), "begin_array")
  BY <1>3, <1>4, <1>6
<1>7. CASE begin_ /\ begin_' = FALSE /\ CallOrError(Push(s, "string"), "begin_string")
  BY <1>3, <1>4, <1>7
<1>8. CASE Return(s, TRUE) /\ Structural
  BY <1>1, <1>8, StayMove DEF Structural
<1>9. CASE make_error(s)
  BY <1>1, <1>9, FailMove
<1> QED BY <1>5, <1>6, <1>7, <1>8, <1>9 DEF consume_initial_

-----------------------------------------------------------------------------
(* The steps of the parser.                                                *)

LEMMA SilentStep ==
  ASSUME consumer_stack_' = consumer_stack_, begin_' = begin_, calls' = << >>
  PROVE  Sax!Next
<1>1. framesOfStack' = framesOfStack
  BY DEF framesOfStack
<1> QED BY <1>1 DEF Sax!Next, Sax!Silent

LEMMA ReadMoves ==
  ASSUME DInv, NEW c, Read(c)
  PROVE  Sax!Next \/ KeyPairToString
<1>1. Collected /\ error_ \in BOOLEAN
  BY DEF DInv, IInv, Control
<1>2. CASE error_
  <2>1. Return(Here, FALSE) /\ Structural
    BY <1>2, ErrorReads
  <2>2. consumer_stack_' = consumer_stack_ /\ begin_' = begin_ /\ calls' = << >>
    BY <2>1 DEF Return, Leave, Structural, Here
  <2> QED BY <2>2, SilentStep
<1>3. CASE ~error_
  <2> DEFINE s == Here
             f == Last(s.stack)
  <2>1. ~ended /\ ended' = FALSE /\ begin_' \in BOOLEAN
    BY ReadControl DEF DInv, IInv, Read, Control
  <2>2. Working(s) /\ s.stack = consumer_stack_
    BY <1>3, <2>1, HereWorking
  <2>3. consume_(s, c)
    BY DEF Read
  <2>4. s.calls = << >>
    BY DEF Here
  <2> HIDE DEF s
  <2>5. PICK F : F = framesOfStack
    OBVIOUS
  <2>6. Starting(s, F) /\ Telling(s, F)
    <3>1. Starting(s, F)
      BY <2>2, <2>4, <2>5 DEF Starting, Working, framesOfStack
    <3> QED BY <3>1, StartTelling
  <2>7. f # "inerror"
    BY <2>2, WorkingShaped, NotInError
  <2>8. ASSUME f \in Escapes PROVE InsideMatches(s)
    <3>1. InEscape(s)
      BY <1>1, <2>2, <2>8 DEF InEscape
    <3> QED BY <2>8, <3>1, InEscapeFacts DEF TopMatches, InsideMatches
  <2>9. CASE Moved(F)
    BY <2>5, <2>9, MovedNext
  <2>10. CASE f = "initial" /\ consume_initial_(s, c)
    BY <2>6, <2>9, <2>10, InitialMoves
  <2>11. CASE \/ f = "arraystart" /\ consume_arraystart_(s, c)
              \/ f = "arrayseparator" /\ consume_arrayseparator_(s, c)
    BY <2>6, <2>9, <2>11, ArrayStartMoves
  <2>12. CASE \/ f = "array" /\ consume_array_(s, c)
              \/ f = "objectkey" /\ consume_objectkey_(s, c)
              \/ f = "objectvalue" /\ consume_objectvalue_(s, c)
    BY <2>6, <2>9, <2>12, ArrayMoves, ObjectKeyMoves, ObjectValueMoves
  <2>13. CASE \/ f = "objectstart" /\ consume_objectstart_(s, c)
              \/ f = "objectbetween" /\ consume_objectbetween_(s, c)
    BY <2>6, <2>9, <2>13, KeyMoves
  <2>14. CASE f = "objectseparator" /\ consume_objectseparator_(s, c)
    BY <2>6, <2>9, <2>14, ObjectSeparatorMoves
  <2>15. CASE f \in Literals /\ consume_literal_(s, c)
    BY <2>6, <2>9, <2>15, LiteralMoves
  <2>16. CASE \/ f = "number" /\ consume_number_(s, c)
              \/ f = "numberstarting0" /\ consume_numberstarting0_(s, c)
    BY <2>6, <2>9, <2>16, NumberMoves DEF Numbers
  <2>17. CASE \/ f = "string" /\ consume_string_(s, c)
              \/ f = "stringkey" /\ consume_stringkey_(s, c)
    BY <2>6, <2>9, <2>17, TextMoves DEF consume_string_, consume_stringkey_, Texts, TextHandlers
  <2>18. CASE \/ f = "stringescape" /\ consume_stringescape_(s, c)
              \/ f \in DOMAIN UnicodeArcs /\ consume_stringuvalue_(s, c)
              \/ f = "stringuvalue3" /\ consume_stringuvalue3_(s, c)
              \/ f \in DOMAIN PairArcs /\ consume_stringuvalue4_(s, c)
    <3>1. f \in Escapes
      BY <2>18 DEF Escapes, UnicodeArcs, PairArcs
    <3> QED BY <2>6, <2>8, <2>9, <2>18, <3>1, EscapeMoves
  <2>19. CASE f = "stringuvalue9" /\ consume_stringuvalue9_(s, c)
    <3>1. f \in Escapes
      BY <2>19 DEF Escapes
    <3>2. Moved(F) \/ PairGiven(F)
      BY <2>6, <2>8, <2>19, <3>1, PairMoves
    <3>3. ASSUME PairGiven(F) PROVE KeyPairToString
      <4>1. framesOfStack' = framesOfStack
        BY <2>5, <3>3 DEF PairGiven, framesOfStack
      <4> QED BY <2>2, <2>19, <3>3, <4>1 DEF PairGiven, KeyPairToString
    <3> QED BY <2>9, <3>2, <3>3
  <2> QED BY <2>3, <2>7, <2>10, <2>11, <2>12, <2>13, <2>14, <2>15, <2>16, <2>17, <2>18,
             <2>19 DEF consume_
<1> QED BY <1>1, <1>2, <1>3

LEMMA FlushMoves ==
  ASSUME DInv, Flush
  PROVE  Sax!Next
<1>1. consumer_stack_' = consumer_stack_ /\ begin_' = begin_ /\ begin_ \in BOOLEAN
  BY FlushKeeps DEF DInv, IInv, Control
<1>2. Here.stack = consumer_stack_ /\ Here.calls = << >>
  BY DEF Here
<1>3. ASSUME NEW ok, Return(Here, ok)
      PROVE  Sax!Next
  BY <1>1, <1>2, <1>3, SilentStep DEF Return, Leave
<1>4. ASSUME Last(consumer_stack_) \in Texts, NEW content, NEW closing,
             TextHandlers(Last(consumer_stack_), content, closing), FlushText(Here, content)
      PROVE  Sax!Next
  <2>1. ~ended /\ ~error_ /\ Control
    <3>1. ~ended /\ Control
      BY DEF Flush, DInv, IInv
    <3>2. consumer_stack_ # << "inerror" >>
      BY <1>4 DEF Texts, Last
    <3> QED BY <3>1, <3>2 DEF Control
  <2>2. Sound(Here, begin_) /\ Path(consumer_stack_)
    BY <1>2, <2>1, HereSound DEF Sound
  <2>3. PICK b \in BOOLEAN : b = begin_
    BY <1>1
  <2>4. PICK F : F = FramesOf(consumer_stack_, b)
    OBVIOUS
  <2>5. Last(F) = IF Last(consumer_stack_) = "stringkey" THEN "key" ELSE "string"
    BY <1>4, <2>2, <2>4, EscapeBegun DEF Texts
  <2>6. /\ content \in Sax!ProtocolHandlers \cap Unreported
        /\ Last(F) \in Sax!Taken(content) /\ Sax!After(F, content) = F
    BY <1>4, <2>5, TextFacts
  <2>7. PICK ok \in ContentAnswers(content) : Return(ContentCalled(Here, content, ok), ok)
    BY <1>4 DEF FlushText
  <2>8. FramesOf(Here.stack, begin_') = F
    BY <1>1, <1>2, <2>3, <2>4
  <2>9. Moved(F)
    BY <1>2, <2>2, <2>6, <2>7, <2>8, ContentMove
  <2>10. F = framesOfStack
    BY <2>3, <2>4 DEF framesOfStack
  <2> QED BY <2>9, <2>10, MovedNext
<1>5. \/ Last(consumer_stack_) = "string" /\ FlushText(Here, "string_content")
      \/ Last(consumer_stack_) = "stringkey" /\ FlushText(Here, "key_content")
      \/ \E ok : Return(Here, ok)
  BY <1>2 DEF Flush, FlushConsumer
<1>6. /\ TextHandlers("string", "string_content", "end_string") /\ "string" \in Texts
      /\ TextHandlers("stringkey", "key_content", "end_key") /\ "stringkey" \in Texts
  BY DEF TextHandlers, Texts
<1> QED BY <1>3, <1>4, <1>5, <1>6

LEMMA InitialFrames == Init => Sax!Init
<1> SUFFICES ASSUME Init PROVE Sax!Init
  OBVIOUS
<1> DEFINE k == << "initial" >>
<1>1. Len(k) = 1 /\ k[1] = "initial"
  OBVIOUS
<1>2. Last(k) = "initial"
  BY <1>1 DEF Last
<1>3. consumer_stack_ = k /\ begin_ = TRUE /\ calls = << >>
  BY DEF Init
<1> HIDE DEF k
<1>4. IsFrame(Last(k))
  BY <1>2 DEF IsFrame, Literals, Numbers, Escapes
<1>5. PICK b : b = begin_
  OBVIOUS
<1>6. FrameOf(k, b, 1) = "root"
  BY <1>1, <1>3, <1>5 DEF FrameOf
<1>7. FramesOf(k, b) = [i \in 1 .. 1 |-> FrameOf(k, b, i)]
  BY <1>1, <1>4 DEF FramesOf
<1>8. FramesOf(k, b) = << "root" >>
  BY ONLY <1>6, <1>7
<1> QED BY <1>3, <1>5, <1>8 DEF Sax!Init, framesOfStack

LEMMA StepMoves ==
  ASSUME DInv, [Next]_vars
  PROVE  [Sax!Next \/ KeyPairToString]_(Sax!vars)
<1>1. CASE \E kind \in {"char", "range"} : StartCall(kind)
  BY <1>1, SilentStep DEF StartCall
<1>2. ASSUME NEW c \in Chars, Read(c)
      PROVE  Sax!Next \/ KeyPairToString
  BY <1>2, ReadMoves
<1>3. CASE Flush
  BY <1>3, FlushMoves
<1>4. CASE ReturnFalse
  BY <1>4, SilentStep DEF ReturnFalse
<1>5. CASE end
  BY <1>5, SilentStep DEF end
<1>6. CASE UNCHANGED vars
  <2>1. framesOfStack' = framesOfStack /\ calls' = calls
    BY <1>6 DEF vars, framesOfStack
  <2> QED BY <2>1 DEF Sax!vars
<1> QED BY <1>1, <1>2, <1>3, <1>4, <1>5, <1>6 DEF Next, Done

\* The parser implements the protocol of its handlers but for the surrogate pairs of
\* keys: whatever is fed, however it is cut into calls and whatever the handlers answer
\* (parser_bits.h, all consume_..._ members and the handlers they call).
THEOREM CallsInOrder == Spec => FollowsProtocolButKeyPairs
<1>1. DInv /\ [Next]_vars => [Sax!Next \/ KeyPairToString]_(Sax!vars)
  BY StepMoves
<1> QED BY <1>1, InitialFrames, DataInvariance, PTL DEF Spec, FollowsProtocolButKeyPairs

-----------------------------------------------------------------------------
(* The parser as its drivers see it.                                       *)

\* A consumer that accepts or makes an error, and leaves begin_ alone.
Settled == (good' = TRUE \/ error_' = TRUE) /\ begin_' = begin_

\* How handlers end that are not rejected.
LEMMA Settling ==
  ASSUME MayReject = {}, NEW s, begin_' = begin_
  PROVE  /\ Return(s, TRUE) => Settled
         /\ make_error(s) => Settled
         /\ \A h : \/ CallOnly(s, h) \/ CallOrError(s, h) \/ CallOrLateError(s, h) => Settled
         /\ \A content, ok : ok \in ContentAnswers(content) /\ Return(s, ok) => Settled
<1>1. \A h, ok : ok \in Answers(h) => ok = TRUE
  BY DEF Answers
<1>2. \A t : Return(t, TRUE) => good' = TRUE
  BY DEF Return
<1>3. \A t : make_error(t) => error_' = TRUE
  BY DEF make_error
<1>4. \A h : CallOnly(s, h) => good' = TRUE
  BY <1>1, <1>2 DEF CallOnly
<1>5. \A h : CallOrError(s, h) => good' = TRUE \/ error_' = TRUE
  BY <1>2, <1>3 DEF CallOrError
<1>6. \A h : CallOrLateError(s, h) => good' = TRUE \/ error_' = TRUE
  BY <1>2 DEF CallOrLateError
<1>7. \A content, ok : ok \in ContentAnswers(content) => ok = TRUE
  BY <1>1 DEF ContentAnswers
<1> QED BY <1>2, <1>3, <1>4, <1>5, <1>6, <1>7 DEF Settled

LEMMA ContainersSettle ==
  ASSUME MayReject = {}, NEW s, NEW c,
         \/ consume_array_itembegin_(s, c) \/ consume_arraystart_(s, c)
         \/ consume_arrayseparator_(s, c) \/ consume_array_(s, c)
         \/ consume_objectstart_(s, c) \/ consume_objectbetween_(s, c)
         \/ consume_objectkey_(s, c) \/ consume_objectseparator_(s, c)
         \/ consume_objectvalue_(s, c)
  PROVE  Settled
<1>1. ASSUME NEW t, StartItem(t, c) PROVE Settled
  BY <1>1, Settling DEF StartItem
<1>2. ASSUME NEW t, consume_array_itembegin_(t, c) PROVE Settled
  BY <1>1, <1>2, Settling DEF consume_array_itembegin_, Structural
<1>3. CASE consume_arraystart_(s, c)
  BY <1>2, <1>3, Settling DEF consume_arraystart_, Structural
<1>4. CASE consume_arrayseparator_(s, c)
  BY <1>2, <1>4, Settling DEF consume_arrayseparator_, Structural
<1>5. CASE consume_array_(s, c)
  BY <1>5, Settling DEF consume_array_, Structural
<1>6. CASE consume_objectstart_(s, c)
  BY <1>6, Settling DEF consume_objectstart_, Structural
<1>7. CASE consume_objectbetween_(s, c)
  BY <1>7, Settling DEF consume_objectbetween_, Structural
<1>8. CASE consume_objectkey_(s, c)
  BY <1>8, Settling DEF consume_objectkey_, Structural
<1>9. CASE consume_objectseparator_(s, c)
  BY <1>1, <1>9, Settling DEF consume_objectseparator_, Structural
<1>10. CASE consume_objectvalue_(s, c)
  BY <1>10, Settling DEF consume_objectvalue_, Structural
<1> QED BY <1>2, <1>3, <1>4, <1>5, <1>6, <1>7, <1>8, <1>9, <1>10

LEMMA ScalarsSettle ==
  ASSUME MayReject = {}, NEW s, NEW c,
         \/ consume_literal_(s, c) \/ consume_number_(s, c) \/ consume_numberstarting0_(s, c)
  PROVE  Settled
<1>1. ASSUME consume_literal_(s, c) PROVE Settled
  BY <1>1, Settling DEF consume_literal_, Structural
<1>2. ASSUME EndNumber(s, c) PROVE Settled
  <2>1. \A h : FALSE \notin Answers(h)
    BY DEF Answers
  <2>2. ASSUME Reconsume(Called(pop_state(s), "double", TRUE), c) PROVE Settled
    BY <2>2, ContainersSettle DEF Reconsume
  <2>3. ASSUME make_error(pop_state(s)), Structural PROVE Settled
    BY <2>3, Settling DEF Structural
  <2> QED BY <1>2, <2>1, <2>2, <2>3 DEF EndNumber
<1>3. ASSUME AppendDigit(s, c) PROVE Settled
  BY <1>3, Settling DEF AppendDigit
<1>4. ASSUME make_error(s), Structural PROVE Settled
  BY <1>4, Settling DEF Structural
<1> QED BY <1>1, <1>2, <1>3, <1>4 DEF consume_number_, consume_numberstarting0_

LEMMA TextsSettle ==
  ASSUME MayReject = {}, NEW s, NEW c, NEW content, NEW closing,
         consume_text_(s, c, content, closing)
  PROVE  Settled
<1>1. CASE BeginEscape(s, content)
  BY <1>1, Settling DEF BeginEscape
<1>2. CASE CloseText(s, content, closing)
  BY <1>2, Settling DEF CloseText
<1>3. CASE make_error(s) /\ Structural
  BY <1>3, Settling DEF Structural
<1>4. CASE OrdinaryCharacter(s)
  BY <1>4, Settling DEF OrdinaryCharacter
<1> QED BY <1>1, <1>2, <1>3, <1>4 DEF consume_text_

LEMMA EscapesSettle ==
  ASSUME MayReject = {}, NEW s, NEW c,
         \/ consume_stringescape_(s, c) \/ consume_stringuvalue_(s, c)
         \/ consume_stringuvalue3_(s, c) \/ consume_stringuvalue4_(s, c)
         \/ consume_stringuvalue9_(s, c)
  PROVE  Settled
<1>1. CASE consume_stringescape_(s, c)
  BY <1>1, Settling DEF consume_stringescape_, Structural
<1>2. CASE consume_stringuvalue_(s, c)
  BY <1>2, Settling DEF consume_stringuvalue_, Structural
<1>3. CASE consume_stringuvalue3_(s, c)
  BY <1>3, Settling DEF consume_stringuvalue3_, Structural
<1>4. CASE consume_stringuvalue4_(s, c)
  BY <1>4, Settling DEF consume_stringuvalue4_, Structural
<1>5. CASE consume_stringuvalue9_(s, c)
  BY <1>5, Settling DEF consume_stringuvalue9_, Structural
<1> QED BY <1>1, <1>2, <1>3, <1>4, <1>5

\* The only consumer that sets begin_ is the one a document begins with.
LEMMA ConsumersSettle ==
  ASSUME MayReject = {}, NEW s, NEW c, consume_(s, c),
         Last(s.stack) \notin {"initial", "inerror"}
  PROVE  Settled
<1>1. ASSUME consume_string_(s, c) \/ consume_stringkey_(s, c) PROVE Settled
  BY <1>1, TextsSettle DEF consume_string_, consume_stringkey_
<1> QED BY <1>1, ContainersSettle, ScalarsSettle, EscapesSettle DEF consume_

LEMMA InitialSettles ==
  ASSUME MayReject = {}, NEW s, NEW c, consume_initial_(s, c)
  PROVE  /\ good' = TRUE \/ error_' = TRUE
         /\ \/ error_' = TRUE /\ begin_' \in {begin_, FALSE}
            \/ /\ error_' = error_ /\ begin_' = begin_
               /\ consumer_stack_' = s.stack /\ end_' = s.end
            \/ /\ error_' = error_ /\ begin_ /\ begin_' = FALSE
               /\ \E f \in Consumers : consumer_stack_' = Push(s, f).stack
<1>1. "objectstart" \in Consumers /\ "arraystart" \in Consumers /\ "string" \in Consumers
  BY DEF Consumers
<1>2. ASSUME NEW f \in Consumers, NEW h, CallOrError(Push(s, f), h)
      PROVE  \/ error_' = TRUE
             \/ good' = TRUE /\ error_' = error_ /\ consumer_stack_' = Push(s, f).stack
  <2>1. CASE Return(Called(Push(s, f), h, TRUE), TRUE)
    <3>1. Called(Push(s, f), h, TRUE).stack = Push(s, f).stack
      BY DEF Called, Push
    <3> QED BY <2>1, <3>1 DEF Return
  <2>2. CASE make_error(Called(Push(s, f), h, FALSE))
    BY <2>2 DEF make_error
  <2> QED BY <1>2, <2>1, <2>2 DEF CallOrError
<1>3. ASSUME begin_, begin_' = FALSE, NEW f \in Consumers, NEW h, CallOrError(Push(s, f), h)
      PROVE  /\ good' = TRUE \/ error_' = TRUE
             /\ \/ error_' = TRUE /\ begin_' \in {begin_, FALSE}
                \/ /\ error_' = error_ /\ begin_ /\ begin_' = FALSE
                   /\ \E g \in Consumers : consumer_stack_' = Push(s, g).stack
  BY <1>2, <1>3
<1>4. ASSUME Return(s, TRUE), Structural
      PROVE  /\ good' = TRUE
             /\ error_' = error_ /\ begin_' = begin_
             /\ consumer_stack_' = s.stack /\ end_' = s.end
  BY <1>4 DEF Return, Leave, Structural
<1>5. ASSUME make_error(s), Structural PROVE error_' = TRUE /\ begin_' = begin_
  BY <1>5 DEF make_error, Structural
<1> QED BY <1>1, <1>3, <1>4, <1>5 DEF consume_initial_

LEMMA PathNoError ==
  ASSUME NEW stack, Path(stack)
  PROVE  Last(stack) # "inerror"
<1>1. /\ Len(stack) > 1 => Fits(stack[Len(stack) - 1], Last(stack))
      /\ Len(stack) = 1 <=> Last(stack) = "initial"
      /\ Len(stack) \in Nat /\ Len(stack) >= 1
  BY LastOfPath DEF Path
<1>2. \A f : ~Fits(f, "inerror")
  BY DEF Fits, Containers, Literals, Numbers, Escapes
<1>3. CASE Len(stack) = 1
  BY <1>1, <1>3
<1>4. CASE Len(stack) # 1
  <2>1. PICK n \in Nat : n = Len(stack) /\ n >= 1 /\ n # 1
    BY <1>1, <1>4
  <2>2. n > 1
    BY <2>1
  <2> QED BY <1>1, <1>2, <2>1, <2>2
<1> QED BY <1>3, <1>4

\* A character that a parser without error reads.
LEMMA ReadSettles ==
  ASSUME MayReject = {}, IInv, CompleteExactly, CompleteExactly', ~error_,
         NEW c \in Chars, Read(c)
  PROVE  /\ good' = TRUE \/ error_' = TRUE
         /\ ~error_' => ParserState' \in StatesAfter(ParserState)
<1> DEFINE one == Len(consumer_stack_) = 1
           one2 == Len(consumer_stack_') = 1
<1>1. /\ begin_ \in BOOLEAN /\ Path(consumer_stack_) /\ (begin_ => one)
      /\ consume_(Here, c) /\ Here.stack = consumer_stack_
  <2>1. ASSUME begin_ PROVE one
    BY <2>1, OneConsumer DEF IInv, Control, Path
  <2> QED BY <2>1 DEF IInv, Control, Read, Here
<1>2. /\ complete_without_error <=> one /\ ~begin_
      /\ complete_without_error' <=> one2 /\ ~begin_' /\ ~error_'
  BY DEF CompleteExactly
<1>3. ParserState = IF begin_ THEN "begin" ELSE IF one THEN "complete" ELSE "inside"
  BY <1>1, <1>2 DEF ParserState
<1>4. ASSUME ~error_', begin_' \in BOOLEAN
      PROVE  ParserState' = IF begin_' THEN "begin" ELSE IF one2 THEN "complete" ELSE "inside"
  BY <1>2, <1>4 DEF ParserState
<1>5. one <=> Last(consumer_stack_) = "initial"
  BY <1>1, LastOfPath
<1>6. Last(consumer_stack_) # "inerror"
  BY <1>1, PathNoError
<1> HIDE DEF one, one2
<1>7. CASE ~one
  <2>1. Settled
    BY <1>1, <1>5, <1>6, <1>7, ConsumersSettle
  <2>2. begin_' = FALSE /\ ~begin_
    BY <1>1, <1>7, <2>1 DEF Settled
  <2> QED BY <1>3, <1>4, <1>7, <2>1, <2>2 DEF Settled, StatesAfter
<1>8. CASE one
  <2>1. consume_initial_(Here, c)
    BY <1>1, <1>5, <1>8 DEF consume_, Literals, UnicodeArcs, PairArcs
  <2>2. good' = TRUE \/ error_' = TRUE
    BY <2>1, InitialSettles
  <2>3. CASE error_' = TRUE
    BY <2>2, <2>3
  <2>4. CASE begin_' = begin_ /\ consumer_stack_' = Here.stack
    <3>1. one2
      BY <1>1, <1>8, <2>4 DEF one, one2
    <3> QED BY <1>1, <1>3, <1>4, <1>8, <2>2, <2>4, <3>1 DEF StatesAfter
  <2>5. CASE begin_ /\ begin_' = FALSE
             /\ \E f \in Consumers : consumer_stack_' = Push(Here, f).stack
    <3>1. PICK f \in Consumers : consumer_stack_' = Push(Here, f).stack
      BY <2>5
    <3>2. consumer_stack_' = Append(consumer_stack_, f)
      BY <3>1 DEF Push, Here
    <3>3. Len(consumer_stack_') = Len(consumer_stack_) + 1 /\ Len(consumer_stack_) \in Nat
      BY <1>1, <3>2 DEF Path
    <3>4. ~one2
      BY <1>8, <3>3 DEF one, one2
    <3> QED BY <1>3, <1>4, <2>2, <2>5, <3>4 DEF StatesAfter
  <2> QED BY <2>1, <2>3, <2>4, <2>5, InitialSettles
<1> QED BY <1>7, <1>8

LEMMA ErrorRefuses ==
  ASSUME IInv, error_, NEW c \in Chars, Read(c)
  PROVE  error_' /\ good' = FALSE
<1>1. consumer_stack_ = << "inerror" >> /\ error_
  <2>1. ~ended
    BY DEF IInv, Read
  <2> QED BY <2>1 DEF IInv, Control
<1>2. Last(Here.stack) = "inerror"
  BY <1>1 DEF Last, Here
<1>3. consume_inerror_(Here, c)
  BY <1>2 DEF Read, consume_, Literals, UnicodeArcs, PairArcs
<1>4. UNCHANGED error_ /\ good' = FALSE
  BY <1>3 DEF consume_inerror_, Return
<1> QED BY <1>1, <1>4, Zenon

LEMMA FlushSettles ==
  ASSUME MayReject = {}, IInv, Flush
  PROVE  good' = ~error_'
<1>1. ~ended /\ error_ \in BOOLEAN /\ FlushConsumer(Here) /\ error_' = error_
  BY FlushKeeps DEF Flush, IInv, Control
<1>2. error_ <=> Last(Here.stack) = "inerror"
  <2>1. CASE error_
    <3>1. consumer_stack_ = << "inerror" >>
      BY <1>1, <2>1 DEF IInv, Control
    <3>2. Last(Here.stack) = "inerror"
      BY <3>1 DEF Last, Here
    <3> QED BY <2>1, <3>2
  <2>2. CASE ~error_
    <3>1. Path(consumer_stack_) /\ Here.stack = consumer_stack_
      BY <2>2 DEF IInv, Control, Here
    <3>2. Last(consumer_stack_) # "inerror"
      BY <3>1, PathNoError
    <3> QED BY <2>2, <3>1, <3>2
  <2> QED BY <2>1, <2>2
<1>3. \A ok : Return(Here, ok) => good' = ok
  BY DEF Return
<1>4. ASSUME NEW content, FlushText(Here, content) PROVE good' = TRUE
  <2>1. \A h, ok : ok \in Answers(h) => ok = TRUE
    BY DEF Answers
  <2> QED BY <1>4, <2>1 DEF FlushText, ContentAnswers, Return
<1>5. CASE Last(Here.stack) = "inerror"
  BY <1>1, <1>2, <1>3, <1>5 DEF FlushConsumer, Literals
<1>6. CASE Last(Here.stack) # "inerror"
  BY <1>1, <1>2, <1>3, <1>4, <1>6 DEF FlushConsumer
<1> QED BY <1>5, <1>6

\* A refusal tells of an error.
RefusesErrors == ~good => error_

LEMMA StepActs ==
  ASSUME MayReject = {}, IInv, IInv', CompleteExactly, CompleteExactly', TypeOK, TypeOK',
         RefusesErrors, Next, ~UNCHANGED vars
  PROVE  /\ RefusesErrors'
         /\ ParserState' \in StatesAfter(ParserState) \cup {ParserState}
         /\ call' = "none" /\ ~ended' => ParserState' = ParserState
         /\ call' = "none" => good' = (ParserState' # "error")
         /\ ended' => good' = (ParserState = "complete")
<1>1. /\ error_ \in BOOLEAN /\ begin_ \in BOOLEAN /\ ended \in BOOLEAN
      /\ error_' \in BOOLEAN /\ begin_' \in BOOLEAN
      /\ good \in BOOLEAN /\ good' \in BOOLEAN
  BY DEF IInv, Control, TypeOK
<1>2. /\ error_ <=> ParserState = "error"
      /\ error_' <=> ParserState' = "error"
      /\ ParserState = "complete" <=> complete_without_error
  BY <1>1 DEF ParserState, complete_without_error
<1>3. ASSUME UNCHANGED << begin_, end_, error_ >> PROVE ParserState' = ParserState
  BY <1>3 DEF ParserState, complete_without_error
<1>4. CASE \E kind \in {"char", "range"} : StartCall(kind)
  <2>1. ParserState' = ParserState /\ good' = TRUE /\ call' # "none" /\ ended' = FALSE
    BY <1>1, <1>3, <1>4 DEF StartCall
  <2> QED BY <2>1 DEF RefusesErrors
<1>5. ASSUME NEW c \in Chars, Read(c)
      PROVE  /\ ~good' => error_'
             /\ ParserState' \in StatesAfter(ParserState) \cup {ParserState}
             /\ call' # "none" /\ ~ended'
  <2>1. call' # "none" /\ ended' = FALSE
    <3>1. call' = call /\ ended' = ended /\ call # "none"
      BY <1>5 DEF Read
    <3>2. ~ended
      BY <3>1 DEF IInv
    <3> QED BY <1>1, <3>1, <3>2
  <2>2. CASE error_
    <3>1. error_' /\ good' = FALSE
      BY <1>5, <2>2, ErrorRefuses
    <3> QED BY <1>2, <2>1, <2>2, <3>1
  <2>3. CASE ~error_
    <3>1. /\ good' = TRUE \/ error_' = TRUE
          /\ ~error_' => ParserState' \in StatesAfter(ParserState)
      BY <1>5, <2>3, ReadSettles
    <3>2. "error" \in StatesAfter(ParserState)
      BY DEF StatesAfter, ParserState
    <3> QED BY <1>2, <2>1, <3>1, <3>2
  <2> QED BY <2>2, <2>3
<1>6. CASE Flush
  <2>1. ParserState' = ParserState
    BY <1>3, <1>6, FlushKeeps
  <2>2. good' = ~error_' /\ ended' = FALSE
    BY <1>1, <1>6, FlushSettles DEF Flush, IInv
  <2> QED BY <1>1, <1>2, <2>1, <2>2 DEF RefusesErrors
<1>7. CASE ReturnFalse
  <2>1. /\ UNCHANGED << begin_, end_, error_ >> /\ good' = good /\ good = FALSE
        /\ ended' = FALSE
    BY <1>1, <1>7 DEF ReturnFalse, IInv, RefusesErrors
  <2>2. error_'
    BY <2>1 DEF RefusesErrors
  <2> QED BY <1>1, <1>2, <1>3, <2>1, <2>2 DEF RefusesErrors
<1>8. CASE end
  <2>1. /\ error_' = (error_ \/ Len(consumer_stack_) # 1 \/ begin_)
        /\ good' = ~error_' /\ ended' = TRUE
        /\ begin_' = begin_ /\ end_' = TRUE
    BY <1>8 DEF end
  <2>2. ~error_' <=> complete_without_error
    BY <1>1, <2>1 DEF CompleteExactly
  <2>3. ~error_' => ParserState' = "complete"
    BY <1>1, <2>1 DEF ParserState, complete_without_error
  <2>4. "error" \in StatesAfter(ParserState)
    BY DEF StatesAfter, ParserState
  <2> QED BY <1>1, <1>2, <2>1, <2>2, <2>3, <2>4 DEF RefusesErrors
<1> QED BY <1>4, <1>5, <1>6, <1>7, <1>8 DEF Next, Done, RefusesErrors

\* With handlers that reject nothing, the parser is what the drivers take it for: no
\* character leads elsewhere than SourceStates says, and the answers tell the state
\* (parser_bits.h, consume and end; stl_json.h, jsonlint.cpp and jsonprint.cpp).
THEOREM ActsForDrivers ==
  ASSUME MayReject = {}
  PROVE  Spec => ActsAsSource
<1> DEFINE Acts == /\ ParserState' \in StatesAfter(ParserState) \cup {ParserState}
                   /\ call' = "none" /\ ~ended' => ParserState' = ParserState
                   /\ call' = "none" => good' = (ParserState' # "error")
                   /\ ended' => good' = (ParserState = "complete")
<1>1. Init => RefusesErrors
  BY DEF Init, RefusesErrors
<1>2. ASSUME IInv, IInv', CompleteExactly, CompleteExactly', TypeOK, TypeOK',
             RefusesErrors, [Next]_vars
      PROVE  RefusesErrors' /\ [Acts]_vars
  <2>1. CASE UNCHANGED vars
    BY <1>2, <2>1 DEF vars, RefusesErrors
  <2>2. CASE ~UNCHANGED vars
    BY <1>2, <2>2, StepActs
  <2> QED BY <2>1, <2>2
<1> QED BY <1>1, <1>2, Invariance, CompletionExact, TypesKept, PTL DEF Spec, ActsAsSource
=============================================================================
