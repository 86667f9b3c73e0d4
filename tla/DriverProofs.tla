---------------------------- MODULE DriverProofs ----------------------------
(***************************************************************************)
(* Proofs about Drivers, for sources and buffers of every size.            *)
(***************************************************************************)
EXTENDS Drivers, FiniteSets, FiniteSetTheorems, WellFoundedInduction, TLAPS

-----------------------------------------------------------------------------
(* Induction over the natural numbers, stated with sets: the provers cannot *)
(* instantiate the theorems of the library that take an operator.          *)

\* A set of natural numbers that is not empty has a least element: its initial segments
\* are well-founded under inclusion.
LEMMA LeastElement ==
  ASSUME NEW T \in SUBSET Nat, NEW n \in T
  PROVE  \E m \in T : \A k \in T : m <= k
<1> DEFINE F == {0 .. k : k \in T}
<1>1. F # {} /\ F \subseteq FiniteSubsetsOf(Nat)
  <2>1. 0 .. n \in F
    OBVIOUS
  <2>2. ASSUME NEW k \in T PROVE 0 .. k \in FiniteSubsetsOf(Nat)
    <3>1. IsFiniteSet(0 .. k)
      BY FS_Interval
    <3> QED BY <3>1 DEF FiniteSubsetsOf
  <2> QED BY <2>1, <2>2
<1>2. IsWellFoundedOn(StrictSubsetOrdering(Nat), FiniteSubsetsOf(Nat))
  BY FS_StrictSubsetOrderingWellFounded
<1>3. PICK x \in F : \A y \in F : ~(<< y, x >> \in StrictSubsetOrdering(Nat))
  <2> HIDE DEF F
  <2> QED BY <1>1, <1>2, WFMin
<1>4. PICK m \in T : x = 0 .. m
  OBVIOUS
<1>5. ASSUME NEW k \in T, k < m PROVE FALSE
  <2>1. 0 .. k \in F /\ 0 .. k \subseteq 0 .. m /\ m \notin 0 .. k /\ m \in 0 .. m
    BY <1>5
  <2>2. << 0 .. k, x >> \in StrictSubsetOrdering(Nat)
    BY <1>4, <2>1 DEF StrictSubsetOrdering
  <2> QED BY <1>3, <2>1, <2>2
<1> QED BY <1>5

\* A set that holds a number and with each number up to a bound the next one holds all
\* of them up to the bound.
LEMMA UpTo ==
  ASSUME NEW a \in Nat, NEW b \in Nat, NEW S, a \in S,
         \A i \in a .. b - 1 : i \in S => i + 1 \in S
  PROVE  \A i \in a .. b : i \in S
<1>1. SUFFICES ASSUME NEW i \in a .. b, i \notin S PROVE FALSE
  OBVIOUS
<1> DEFINE T == {k \in a .. b : k \notin S}
<1>2. T \in SUBSET Nat /\ i \in T
  BY <1>1
<1>3. PICK m \in T : \A k \in T : m <= k
  <2> HIDE DEF T
  <2> QED BY <1>2, LeastElement
<1>4. m # a /\ m - 1 \in a .. b - 1 /\ m - 1 \notin T
  BY <1>3
<1>5. m - 1 \in S /\ (m - 1) + 1 = m
  BY <1>4
<1> QED BY <1>3, <1>4, <1>5

-----------------------------------------------------------------------------
(* Sources.                                                                *)

LEMMA SourceIsSeq ==
  ASSUME NEW src \in Sources
  PROVE  src \in Seq(ParserStates) /\ IsSource(src)
<1>1. PICK n \in 0 .. MaxSize : src \in [1 .. n -> ParserStates]
  BY DEF Sources
<1>2. n \in Nat
  BY <1>1, MaxSizeAssumption
<1>3. src \in Seq(ParserStates)
  BY <1>1, <1>2
<1> QED BY <1>3 DEF Sources

\* Once there is an error it stays.
LEMMA ErrorStays ==
  ASSUME NEW src \in Seq(ParserStates), IsSource(src),
         NEW n \in 0 .. Len(src), After(src, n) = "error"
  PROVE  \A k \in n .. Len(src) : After(src, k) = "error"
<1> DEFINE S == {k \in Nat : After(src, k) = "error"}
<1>1. n \in Nat /\ Len(src) \in Nat /\ n \in S
  OBVIOUS
<1>2. ASSUME NEW i \in n .. Len(src) - 1, i \in S PROVE i + 1 \in S
  <2>1. i + 1 \in 1 .. Len(src) /\ (i + 1) - 1 = i /\ i + 1 \in Nat /\ i + 1 # 0
    OBVIOUS
  <2>2. src[i + 1] \in StatesAfter(After(src, i))
    BY <2>1 DEF IsSource
  <2>3. After(src, i) = "error"
    BY <1>2
  <2>4. src[i + 1] = "error"
    BY <2>2, <2>3 DEF StatesAfter
  <2> QED BY <2>1, <2>4 DEF After
<1>3. \A i \in n .. Len(src) : i \in S
  <2> HIDE DEF S
  <2> QED BY <1>1, <1>2, UpTo
<1> QED BY <1>3

-----------------------------------------------------------------------------
(* The inductive invariant.                                                *)

\* good is the answer of the parser, and while it holds all that was taken was fed.
GoodIsParser ==
  /\ good <=> Parser # "error"
  /\ at = "open" => taken = 0 /\ fed = 0 /\ ~eof /\ ~bad
  /\ at = "consume" => good
  /\ at = "loop" /\ good => fed = taken
  /\ eof => taken = Len(source)
  /\ at # "returned" => answer = "none"

\* parse_one_document has taken one character more, and goes on only before the end of
\* the document.
OneAtATime ==
  driver = "parse_one_document" =>
    /\ at = "consume" => taken = fed + 1 /\ Parser # "complete"
    /\ \A n \in 0 .. fed - 1 : After(source, n) # "complete"

IInv == TypeOK /\ GoodIsParser /\ OneAtATime /\ StopsAtError

LEMMA InitIInv ==
  ASSUME Init
  PROVE  IInv
<1>1. source \in Seq(ParserStates) /\ IsSource(source)
  BY SourceIsSeq DEF Init
<1>2. Len(source) \in Nat
  BY <1>1
<1>3. TypeOK
  <2>1. driver \in WithFile \cup WithStream
    BY DEF Init
  <2>2. taken \in 0 .. Len(source) /\ fed \in 0 .. taken
    BY <1>2 DEF Init
  <2>3. eof \in BOOLEAN /\ bad \in BOOLEAN /\ good \in BOOLEAN
    BY DEF Init
  <2>4. /\ at \in {"open", "loop", "consume", "returned"}
        /\ answer \in {"none", "refused", "true", "false"}
    BY DEF Init
  <2> QED BY <1>1, <2>1, <2>2, <2>3, <2>4 DEF TypeOK
<1>4. GoodIsParser
  BY DEF Init, GoodIsParser, Parser, After
<1>5. OneAtATime /\ StopsAtError
  BY DEF Init, OneAtATime, StopsAtError
<1> QED BY <1>3, <1>4, <1>5 DEF IInv

LEMMA StepIInv ==
  ASSUME IInv, [Next]_vars
  PROVE  IInv'
<1> USE DEF IInv
<1>0. source \in Seq(ParserStates) /\ Len(source) \in Nat /\ taken \in Int /\ fed \in Int
  BY DEF TypeOK
<1>1. ASSUME Open PROVE IInv'
  <2>1. TypeOK'
    BY <1>1 DEF Open, TypeOK
  <2>2. GoodIsParser'
    BY <1>1 DEF Open, GoodIsParser, Parser, After
  <2>3. OneAtATime' /\ StopsAtError'
    BY <1>1 DEF Open, OneAtATime, StopsAtError, GoodIsParser
  <2> QED BY <2>1, <2>2, <2>3
<1>2. ASSUME ReadChunk PROVE IInv'
  <2> DEFINE n == Least(ChunkSize, Len(source) - taken)
  <2>1. n \in 0 .. Len(source) - taken /\ (n < ChunkSize => n = Len(source) - taken)
    BY <1>0, ChunkSizeAssumption DEF Least, TypeOK
  <2>2. taken' = taken + n /\ eof' = (n < ChunkSize) /\ at' = "consume"
        /\ UNCHANGED << driver, source, fed, bad, good, answer >>
    BY <1>2 DEF ReadChunk
  <2>3. at = "loop" /\ good /\ driver # "parse_one_document"
    BY <1>2 DEF ReadChunk, Continues
  <2> HIDE DEF n
  <2>4. TypeOK'
    BY <1>0, <2>1, <2>2, <2>3 DEF TypeOK
  <2>5. GoodIsParser'
    <3>1. (eof => taken = Len(source))'
      <4>1. ASSUME eof' PROVE n < ChunkSize
        BY <2>2, <4>1, Zenon
      <4> QED BY <1>0, <2>1, <2>2, <4>1
    <3>2. (good <=> Parser # "error")'
      BY <2>2 DEF GoodIsParser, Parser, After
    <3>3. at' = "consume" /\ good' /\ answer' = "none"
      BY <2>2, <2>3 DEF GoodIsParser, TypeOK
    <3> QED BY <3>1, <3>2, <3>3 DEF GoodIsParser
  <2>6. OneAtATime' /\ StopsAtError'
    BY <2>2, <2>3 DEF OneAtATime, StopsAtError
  <2> QED BY <2>4, <2>5, <2>6
<1>3. ASSUME ReadChunkFails PROVE IInv'
  <2>1. PICK n \in 0 .. Least(ChunkSize - 1, Len(source) - taken) : taken' = taken + n
    BY <1>3 DEF ReadChunkFails
  <2>2. n \in 0 .. Len(source) - taken
    BY <1>0, <2>1, ChunkSizeAssumption DEF Least, TypeOK
  <2>3. bad' = TRUE /\ at' = "consume"
        /\ UNCHANGED << driver, source, fed, eof, good, answer >>
    BY <1>3 DEF ReadChunkFails
  <2>4. at = "loop" /\ good /\ ~eof /\ driver # "parse_one_document"
    BY <1>3 DEF ReadChunkFails, Continues
  <2>5. TypeOK'
    BY <1>0, <2>1, <2>2, <2>3 DEF TypeOK
  <2>6. GoodIsParser'
    <3>1. ~eof' /\ good' /\ at' = "consume" /\ answer' = "none"
      BY <2>3, <2>4 DEF GoodIsParser, TypeOK
    <3>2. (good <=> Parser # "error")'
      BY <2>3 DEF GoodIsParser, Parser, After
    <3> QED BY <3>1, <3>2 DEF GoodIsParser
  <2>7. OneAtATime' /\ StopsAtError'
    BY <2>3, <2>4 DEF OneAtATime, StopsAtError
  <2> QED BY <2>5, <2>6, <2>7
<1>4. ASSUME ReadCharacter PROVE IInv'
  <2>1. at = "loop" /\ good /\ ~eof /\ driver = "parse_one_document" /\ Parser # "complete"
    BY <1>4 DEF ReadCharacter, Continues
  <2>2. UNCHANGED << driver, source, fed, good, answer >>
    BY <1>4 DEF ReadCharacter
  <2>3. \/ taken < Len(source) /\ taken' = taken + 1 /\ at' = "consume" /\ UNCHANGED << eof, bad >>
        \/ taken = Len(source) /\ eof' = TRUE /\ UNCHANGED << taken, bad, at >>
        \/ bad' = TRUE /\ UNCHANGED << taken, eof, at >>
    BY <1>4 DEF ReadCharacter
  <2>4. fed = taken
    BY <2>1 DEF GoodIsParser
  <2>5. TypeOK'
    <3>1. taken' \in 0 .. Len(source) /\ fed \in 0 .. taken'
      BY <1>0, <2>3 DEF TypeOK
    <3>2. eof' \in BOOLEAN /\ bad' \in BOOLEAN /\ at' \in {"loop", "consume"}
      BY <2>1, <2>3 DEF TypeOK
    <3> QED BY <2>2, <3>1, <3>2 DEF TypeOK
  <2>6. GoodIsParser'
    BY <2>1, <2>2, <2>3 DEF GoodIsParser, Parser, After
  <2>7. OneAtATime' /\ StopsAtError'
    BY <1>0, <2>1, <2>2, <2>3, <2>4 DEF OneAtATime, StopsAtError, Parser, After
  <2> QED BY <2>5, <2>6, <2>7
<1>5. ASSUME Consume PROVE IInv'
  <2>1. PICK n \in fed .. taken :
          /\ \A i \in fed + 1 .. n - 1 : source[i] # "error"
          /\ n = taken \/ After(source, n) = "error"
          /\ fed' = n
          /\ good' = (After(source, n) # "error")
    BY <1>5 DEF Consume
  <2>2. at = "consume" /\ at' = "loop" /\ UNCHANGED << driver, source, taken, eof, bad, answer >>
    BY <1>5 DEF Consume
  <2>3. good /\ Parser # "error"
    BY <2>2 DEF GoodIsParser
  <2>4. TypeOK'
    <3>1. fed' \in 0 .. taken
      BY <1>0, <2>1 DEF TypeOK
    <3>2. good' \in BOOLEAN
      BY <2>1
    <3> QED BY <2>2, <3>1, <3>2 DEF TypeOK
  <2>5. GoodIsParser'
    BY <2>1, <2>2 DEF GoodIsParser, Parser, After
  <2>6. StopsAtError'
    <3>1. SUFFICES ASSUME NEW m \in 0 .. n - 1 PROVE After(source, m) # "error"
      BY <2>1, <2>2 DEF StopsAtError, After
    <3>2. CASE m < fed
      BY <1>0, <3>2 DEF StopsAtError
    <3>3. CASE m = fed
      BY <2>3, <3>3 DEF Parser
    <3>4. CASE m > fed
      <4>1. m \in fed + 1 .. n - 1 /\ m # 0
        BY <1>0, <3>1, <3>4 DEF TypeOK
      <4> QED BY <2>1, <4>1 DEF After
    <3> QED BY <1>0, <3>2, <3>3, <3>4
  <2>7. OneAtATime'
    <3>1. SUFFICES ASSUME driver = "parse_one_document"
                   PROVE  \A m \in 0 .. n - 1 : After(source, m) # "complete"
      BY <2>1, <2>2 DEF OneAtATime, After
    <3>2. n <= fed + 1 /\ Parser # "complete"
      BY <1>0, <2>1, <2>2, <3>1 DEF OneAtATime
    <3> QED BY <1>0, <2>1, <3>1, <3>2 DEF OneAtATime, Parser
  <2> QED BY <2>4, <2>5, <2>6, <2>7
<1>6. ASSUME Return PROVE IInv'
  <2>1. at = "loop" /\ at' = "returned" /\ answer' \in {"true", "false"}
        /\ UNCHANGED << driver, source, taken, fed, eof, bad, good >>
    BY <1>6 DEF Return, Answer, TypeOK, WithFile, WithStream
  <2>2. TypeOK'
    BY <2>1 DEF TypeOK
  <2>3. GoodIsParser'
    BY <2>1 DEF GoodIsParser, Parser, After
  <2>4. OneAtATime' /\ StopsAtError'
    BY <2>1 DEF OneAtATime, StopsAtError
  <2> QED BY <2>2, <2>3, <2>4
<1>7. ASSUME UNCHANGED vars PROVE IInv'
  BY <1>7 DEF vars, TypeOK, GoodIsParser, OneAtATime, StopsAtError, Parser, After
<1> QED BY <1>1, <1>2, <1>3, <1>4, <1>5, <1>6, <1>7 DEF Next, Advance, Finished

\* However long the source and the buffers, in whatever pieces it is read and wherever a
\* read fails, IInv holds.
THEOREM Inductive == Spec => []IInv
<1>1. Init => IInv
  BY InitIInv
<1>2. IInv /\ [Next]_vars => IInv'
  BY StepIInv
<1> QED BY <1>1, <1>2, PTL DEF Spec

-----------------------------------------------------------------------------
(* The answers.                                                            *)

\* What parser.end() would find when a driver that has taken the whole source leaves
\* its loop is what the source is.
LEMMA AtTheEnd ==
  ASSUME IInv, at = "loop"
  PROVE  /\ ~good => ~IsDocument
         /\ good /\ eof => (IsDocument <=> Parser = "complete")
<1>1. source \in Seq(ParserStates) /\ IsSource(source) /\ Len(source) \in Nat
      /\ fed \in 0 .. Len(source) /\ taken \in 0 .. Len(source)
  BY DEF IInv, TypeOK
<1>2. ASSUME ~good PROVE ~IsDocument
  <2>1. After(source, fed) = "error"
    BY <1>2 DEF IInv, GoodIsParser, Parser
  <2>2. Len(source) \in fed .. Len(source)
    BY <1>1
  <2>3. After(source, Len(source)) = "error"
    BY <1>1, <2>1, <2>2, ErrorStays
  <2> QED BY <2>3 DEF IsDocument
<1>3. ASSUME good, eof PROVE IsDocument <=> Parser = "complete"
  BY <1>3 DEF IInv, GoodIsParser, IsDocument, Parser
<1> QED BY <1>2, <1>3

Answers == IInv /\ AnswerIsRight /\ StopsAfterDocument

LEMMA StepAnswers ==
  ASSUME Answers, [Next]_vars
  PROVE  Answers'
<1>1. IInv /\ IInv'
  BY StepIInv DEF Answers
<1>2. ASSUME Return PROVE AnswerIsRight'
  <2>1. at = "loop" /\ ~Continues /\ UNCHANGED << driver, source, taken, fed, eof, bad, good >>
    BY <1>2 DEF Return
  <2>2. SUFFICES ASSUME driver # "parse_one_document"
                 PROVE  /\ answer' = "true" =>
                             IsDocument \/ (driver = "lint" /\ bad /\ Parser # "error")
                        /\ answer' = "false" =>
                             ~IsDocument \/ (driver = "parse_from_stream" /\ bad)
    BY <2>1 DEF AnswerIsRight, IsDocument, Parser, After
  <2>3. ~good \/ eof \/ (driver \in WithStream /\ bad)
    BY <2>1, <2>2 DEF Continues
  <2>4. (~good => ~IsDocument) /\ (good /\ eof => (IsDocument <=> Parser = "complete"))
    BY <1>1, <2>1, AtTheEnd
  <2>5. CASE driver \in WithFile \cup {"parse_from_stream"}
    <3>1. driver # "parse_one_document" /\ driver # "lint"
      BY <2>5 DEF WithFile
    <3>2. Answer(eof /\ good /\ Parser = "complete")
      BY <1>2, <2>5, <3>1, Zenon DEF Return
    <3>3. answer' = IF eof /\ good /\ Parser = "complete" THEN "true" ELSE "false"
      BY <3>2 DEF Answer
    <3>4. driver \in WithStream => driver = "parse_from_stream"
      BY <2>5 DEF WithFile, WithStream
    <3> QED BY <2>3, <2>4, <3>3, <3>4
  <2>6. CASE driver = "lint"
    <3>1. answer' = IF good /\ (eof => Parser = "complete") THEN "true" ELSE "false"
      BY <1>2, <2>6 DEF Return, Answer, WithFile
    <3>2. good => Parser # "error"
      BY <1>1 DEF IInv, GoodIsParser
    <3> QED BY <2>3, <2>4, <2>6, <3>1, <3>2
  <2> QED BY <1>1, <2>2, <2>5, <2>6 DEF IInv, TypeOK, WithStream
<1>3. ASSUME Return PROVE StopsAfterDocument'
  <2>1. at = "loop" /\ ~Continues /\ UNCHANGED << driver, source, taken, fed, eof, bad, good >>
    BY <1>3 DEF Return
  <2>2. SUFFICES ASSUME driver = "parse_one_document"
                 PROVE  /\ \A n \in 0 .. fed - 1 : After(source, n) \notin {"complete", "error"}
                        /\ answer' = "true" => Parser = "complete" /\ taken = fed
                        /\ answer' = "false" =>
                             Parser # "complete" /\ (Parser = "error" \/ fed = Len(source) \/ bad)
    BY <2>1 DEF StopsAfterDocument, Parser, After
  <2>3. answer' = IF good /\ Parser = "complete" THEN "true" ELSE "false"
    BY <1>3, <2>2 DEF Return, Answer, WithFile
  <2>4. (good <=> Parser # "error") /\ (good => fed = taken) /\ (eof => taken = Len(source))
    BY <1>1, <2>1 DEF IInv, GoodIsParser
  <2>5. \A n \in 0 .. fed - 1 : After(source, n) \notin {"complete", "error"}
    BY <1>1, <2>2 DEF IInv, OneAtATime, StopsAtError
  <2>6. good /\ Parser # "complete" => eof \/ bad
    BY <2>1 DEF Continues
  <2> QED BY <2>3, <2>4, <2>5, <2>6
<1>4. ASSUME Open \/ ReadChunk \/ ReadChunkFails \/ ReadCharacter \/ Consume
      PROVE  AnswerIsRight' /\ StopsAfterDocument'
  <2>1. answer' \in {"none", "refused"}
    BY <1>1, <1>4 DEF Open, ReadChunk, ReadChunkFails, ReadCharacter, Consume, IInv, GoodIsParser
  <2>2. AnswerIsRight'
    BY <2>1 DEF AnswerIsRight
  <2>3. driver' = "parse_one_document" =>
          \A n \in 0 .. fed' - 1 : After(source, n)' \notin {"complete", "error"}
    BY <1>1 DEF IInv, OneAtATime, StopsAtError, After
  <2> QED BY <2>1, <2>2, <2>3 DEF StopsAfterDocument, After
<1>5. ASSUME UNCHANGED vars PROVE AnswerIsRight' /\ StopsAfterDocument'
  BY <1>5 DEF Answers, vars, AnswerIsRight, StopsAfterDocument, IsDocument, Parser, After
<1>6. Return \/ (Open \/ ReadChunk \/ ReadChunkFails \/ ReadCharacter \/ Consume)
      \/ UNCHANGED vars
  BY DEF Next, Advance, Finished
<1> QED BY <1>1, <1>2, <1>3, <1>4, <1>5, <1>6 DEF Answers

LEMMA InitAnswers ==
  ASSUME Init
  PROVE  Answers
<1>1. IInv
  BY InitIInv
<1>2. AnswerIsRight /\ StopsAfterDocument
  BY DEF Init, AnswerIsRight, StopsAfterDocument
<1> QED BY <1>1, <1>2 DEF Answers

LEMMA AlwaysAnswers == Spec => []Answers
<1>1. Init => Answers
  BY InitAnswers
<1>2. Answers /\ [Next]_vars => Answers'
  BY StepAnswers
<1> QED BY <1>1, <1>2, PTL DEF Spec

\* No more is fed than was taken, no more taken than there is.
THEOREM TypeCorrect == Spec => []TypeOK
<1>1. IInv => TypeOK
  BY DEF IInv
<1> QED BY <1>1, Inductive, PTL

\* For sources and buffers of every size, of every driver but parse_one_document: true is
\* said of one whole document only, but for lint after a failed read, which has then seen
\* no error; false of other sources only, but for parse_from_stream after a failed read.
THEOREM RightAnswer == Spec => []AnswerIsRight
<1>1. Answers => AnswerIsRight
  BY DEF Answers
<1> QED BY <1>1, AlwaysAnswers, PTL

\* parse_one_document leaves the rest of the stream to the next call.
THEOREM OneDocument == Spec => []StopsAfterDocument
<1>1. Answers => StopsAfterDocument
  BY DEF Answers
<1> QED BY <1>1, AlwaysAnswers, PTL

\* Nothing is given to the parser after an error.
THEOREM FirstError == Spec => []StopsAtError
<1>1. IInv => StopsAtError
  BY DEF IInv
<1> QED BY <1>1, Inductive, PTL
=============================================================================
