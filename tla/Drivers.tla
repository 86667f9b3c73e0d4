------------------------------ MODULE Drivers -------------------------------
(***************************************************************************)
(* The loops that feed a parser from a source: parse_from_file,            *)
(* parse_from_stream and parse_one_document (stl_json.h), lint (jsonlint)  *)
(* and the traversal of jsonprint.  They differ in what they read with     *)
(* (FILE or stream), in when they stop, and in what they ask at the end.   *)
(*                                                                         *)
(* The handlers they use never reject a call, so a source is what the      *)
(* parser makes of it, character by character: a sequence of SourceStates. *)
(***************************************************************************)
EXTENDS Integers, Sequences, SourceStates

CONSTANTS
  ChunkSize,  \* the size of the buffers
  MaxSize     \* of the sources

ASSUME ChunkSizeAssumption == ChunkSize \in Nat /\ ChunkSize > 0
ASSUME MaxSizeAssumption == MaxSize \in Nat

\* The parser after n characters of a source.
After(src, n) == IF n = 0 THEN "begin" ELSE src[n]

IsSource(src) == \A n \in 1 .. Len(src) : src[n] \in StatesAfter(After(src, n - 1))

Sources ==
  {src \in UNION {[1 .. n -> ParserStates] : n \in 0 .. MaxSize} : IsSource(src)}

WithFile == {"parse_from_file", "traversal"}
WithStream == {"parse_from_stream", "parse_one_document", "lint"}

VARIABLES
  driver,
  source,
  taken,   \* how many characters were taken from the source
  fed,     \* how many of them were given to the parser
  eof,     \* feof or stream.eof()
  bad,     \* a read has failed: ferror or stream.bad()
  good,    \* the driver's own good
  at,      \* "open", "loop", "consume" or "returned"
  answer   \* "none", "refused" if the source could not be opened, "true" or "false"

vars == << driver, source, taken, fed, eof, bad, good, at, answer >>

Init ==
  /\ driver \in WithFile \cup WithStream
  /\ source \in Sources
  /\ taken = 0 /\ fed = 0
  /\ eof = FALSE /\ bad = FALSE /\ good = TRUE
  /\ at = "open"
  /\ answer = "none"

-----------------------------------------------------------------------------
Parser == After(source, fed)

Least(m, n) == IF m < n THEN m ELSE n

Answer(b) == at' = "returned" /\ answer' = IF b THEN "true" ELSE "false"

\* fopen, or the first look at the stream.
Open ==
  /\ at = "open"
  /\ \/ at' = "loop" /\ UNCHANGED answer
     \/ at' = "returned" /\ answer' = "refused"
  /\ UNCHANGED << driver, source, taken, fed, eof, bad, good >>

\* Mutant of Continues: parse_one_document reads to the end.
ContinuesPastDocument ==
  /\ good /\ ~eof
  /\ driver \in WithStream => ~bad

\* Mutant of Continues: the loops look for errors only.
ContinuesUntilError == good

\* The condition of the loop.  A FILE is asked for its end only.
Continues ==
  /\ good /\ ~eof
  /\ driver \in WithStream => ~bad
  /\ driver = "parse_one_document" => Parser # "complete"

\* fread or read: the end is met when the buffer is not filled.
ReadChunk ==
  /\ at = "loop" /\ Continues /\ driver # "parse_one_document"
  /\ LET n == Least(ChunkSize, Len(source) - taken)
     IN  /\ taken' = taken + n
         /\ eof' = (n < ChunkSize)
  /\ at' = "consume"
  /\ UNCHANGED << driver, source, fed, bad, good, answer >>

\* The read fails, after some characters; with a FILE the next one may go on.
ReadChunkFails ==
  /\ at = "loop" /\ Continues /\ driver # "parse_one_document"
  /\ \E n \in 0 .. Least(ChunkSize - 1, Len(source) - taken) : taken' = taken + n
  /\ bad' = TRUE
  /\ at' = "consume"
  /\ UNCHANGED << driver, source, fed, eof, good, answer >>

\* Mutant of ReadCharacter: the stream is not asked whether it gave a character.
ReadCharacterUnasked ==
  /\ at = "loop" /\ Continues /\ driver = "parse_one_document"
  /\ taken' = taken + 1
  /\ eof' = (taken = Len(source))
  /\ at' = "consume"
  /\ UNCHANGED << driver, source, fed, bad, good, answer >>

\* get: the stream is asked again before the character is consumed.
ReadCharacter ==
  /\ at = "loop" /\ Continues /\ driver = "parse_one_document"
  /\ \/ taken < Len(source) /\ taken' = taken + 1 /\ at' = "consume" /\ UNCHANGED << eof, bad >>
     \/ taken = Len(source) /\ eof' = TRUE /\ UNCHANGED << taken, bad, at >>
     \/ bad' = TRUE /\ UNCHANGED << taken, eof, at >>
  /\ UNCHANGED << driver, source, fed, good, answer >>

\* Mutant of Consume: the characters after an error are given to the parser as well.
ConsumeAll ==
  /\ at = "consume"
  /\ fed' = taken
  /\ good' = (After(source, taken) # "error")
  /\ at' = "loop"
  /\ UNCHANGED << driver, source, taken, eof, bad, answer >>

\* consume, or the loop of lint around consume_: up to the first error.
Consume ==
  /\ at = "consume"
  /\ \E n \in fed .. taken :
       /\ \A i \in fed + 1 .. n - 1 : source[i] # "error"
       /\ n = taken \/ After(source, n) = "error"
       /\ fed' = n
       /\ good' = (After(source, n) # "error")
  /\ at' = "loop"
  /\ UNCHANGED << driver, source, taken, eof, bad, answer >>

\* Mutant of Return: the parser is not asked whether the document is complete.
ReturnWithoutEnd ==
  /\ at = "loop" /\ ~Continues
  /\ Answer(good /\ (driver \in WithFile \cup {"parse_from_stream"} => eof))
  /\ UNCHANGED << driver, source, taken, fed, eof, bad, good >>

\* parser.end(), where the driver calls it, and what is returned: true stands for
\* "parsed successful" and for the exit code 0 as well.
Return ==
  /\ at = "loop" /\ ~Continues
  /\ LET end == Parser = "complete"
     IN  CASE driver \in WithFile \cup {"parse_from_stream"} -> Answer(eof /\ good /\ end)
           [] driver = "parse_one_document" -> Answer(good /\ end)
           [] driver = "lint" -> Answer(good /\ (eof => end))
  /\ UNCHANGED << driver, source, taken, fed, eof, bad, good >>

Returned == at = "returned"

Finished == Returned /\ UNCHANGED vars

Advance == Open \/ ReadChunk \/ ReadChunkFails \/ ReadCharacter \/ Consume \/ Return

Next == Advance \/ Finished

Spec == Init /\ [][Next]_vars

\* A driver runs until it returns.
FairSpec == Spec /\ WF_vars(Advance)

-----------------------------------------------------------------------------
(* Properties.                                                             *)

\* Every variable keeps its type: no more is fed than was taken, no more taken than
\* there is.
TypeOK ==
  /\ driver \in WithFile \cup WithStream
  /\ source \in Seq(ParserStates) /\ IsSource(source)
  /\ taken \in 0 .. Len(source) /\ fed \in 0 .. taken
  /\ eof \in BOOLEAN /\ bad \in BOOLEAN /\ good \in BOOLEAN
  /\ at \in {"open", "loop", "consume", "returned"}
  /\ answer \in {"none", "refused", "true", "false"}

\* The whole source is one document.
IsDocument == After(source, Len(source)) = "complete"

\* Every driver but parse_one_document answers for the whole source, wherever the buffers
\* end and whatever reads fail.  true: the source is one document to its end; only lint,
\* when a read failed, says so of a source of which it saw no error so far.  false: the
\* source is none; only parse_from_stream says so of any source when a read failed.
AnswerIsRight ==
  driver # "parse_one_document" =>
    /\ answer = "true" => IsDocument \/ (driver = "lint" /\ bad /\ Parser # "error")
    /\ answer = "false" => ~IsDocument \/ (driver = "parse_from_stream" /\ bad)

\* parse_one_document takes from the stream the document and not a character more, so
\* that the next call finds the next document; it fails at the first error or at the end.
StopsAfterDocument ==
  driver = "parse_one_document" =>
    /\ \A n \in 0 .. fed - 1 : After(source, n) \notin {"complete", "error"}
    /\ answer = "true" => Parser = "complete" /\ taken = fed
    /\ answer = "false" => Parser # "complete" /\ (Parser = "error" \/ fed = Len(source) \/ bad)

\* What is counted when lint reports an error, or when any of the drivers stops, are the
\* characters up to the first error and no further.
StopsAtError == \A n \in 0 .. fed - 1 : After(source, n) # "error"

\* Every driver returns: those on streams in any case, those on a FILE unless reads fail
\* again and again, for feof then never holds.
EventuallyReturns == <>Returned \/ (driver \in WithFile /\ []<><<ReadChunkFails>>_vars)
=============================================================================
