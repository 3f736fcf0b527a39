------------------------ MODULE CommandReader_proofs ------------------------
(***************************************************************************)
(* Proofs about CommandReader for any texts and any sizes of the buffers:  *)
(* where a command starts, and that what is read fits.  Each part of the   *)
(* invariant is preserved by every action.                                 *)
(***************************************************************************)
EXTENDS CommandReader, TLAPS

-----------------------------------------------------------------------------
(* Characters and positions. *)

\* The character that is read next is one of the text before its end.
LEMMA NextCharacter ==
  ASSUME TypeOK
  PROVE  /\ ch # EOF => offset < Len(text) /\ ch = text[offset + 1] /\ ch \in Char
         /\ ch = EOF => offset = Len(text)
<1>1. text \in Seq(Char) /\ offset \in 0 .. Len(text)
  BY DEF TypeOK
<1>2. CASE offset < Len(text)
  <2>1. offset + 1 \in 1 .. Len(text)
    BY <1>1, <1>2
  <2>2. text[offset + 1] \in Char
    BY <1>1, <2>1
  <2>3. ch = text[offset + 1]
    BY <1>2 DEF ch
  <2>4. ch # EOF
    BY <2>2, <2>3, ReaderAssumption
  <2> QED BY <1>2, <2>2, <2>3, <2>4
<1>3. CASE ~ (offset < Len(text))
  BY <1>1, <1>3 DEF ch
<1> QED BY <1>2, <1>3

\* The characters that the code compares with are not the end of the file.
LEMMA NotEOF ==
  EOF \notin {"[", "(", ",", ")", "]", " ", "#", "\n"}
BY ReaderAssumption

\* Reading keeps the position in the text.
LEMMA UptoType ==
  ASSUME TypeOK, NEW n \in Nat, Upto(n)
  PROVE  offset' \in 0 .. Len(text)
<1>1. text \in Seq(Char) /\ offset \in 0 .. Len(text)
  BY DEF TypeOK
<1>2. Len(text) \in Nat
  BY <1>1
<1> QED BY <1>1, <1>2 DEF Upto

\* One character is read, or none at the end.
LEMMA ReadsOne ==
  ASSUME TypeOK, Reads
  PROVE  /\ program' = program /\ text' = text
         /\ offset' \in 0 .. Len(text)
         /\ ch # EOF => offset' = offset + 1 /\ text[offset'] = ch
         /\ ch = EOF => offset' = Len(text)
<1>1. text \in Seq(Char) /\ offset \in 0 .. Len(text)
  BY DEF TypeOK
<1>2. offset' \in 0 .. Len(text)
  BY UptoType DEF Reads
<1>3. ch # EOF => offset < Len(text) /\ ch = text[offset + 1]
  BY NextCharacter
<1>6. Len(text) \in Nat
  BY <1>1
<1>4. ch # EOF => offset' = offset + 1
  BY <1>1, <1>3, <1>6 DEF Reads, Upto
<1>5. ch = EOF => offset' = Len(text)
  BY <1>1, <1>6, NextCharacter DEF Reads, Upto
<1> QED BY <1>2, <1>3, <1>4, <1>5 DEF Reads, input

\* What a command turns out to be is added at the end of the results.
LEMMA ReturnsType ==
  ASSUME TypeOK,
         NEW c \in ServerWords \cup ClientWords \cup {"INVALID", "EMPTY"},
         NEW a \in Seq(Seq(Char)), NEW d \in 0 .. UINT_MAX, NEW there,
         Returns(c, a, d, there)
  PROVE  /\ results' \in Seq(Result)
         /\ results' # << >> /\ Last(results').cmd = c
         /\ at' = there
<1> DEFINE r == [cmd |-> c, args |-> a, delay |-> d]
<1>1. r \in Result
  BY DEF Result
<1>2. results \in Seq(Result)
  BY DEF TypeOK
<1>3. results' = Append(results, r)
  BY DEF Returns
<1> HIDE DEF r
<1>4. results' \in Seq(Result) /\ Len(results') = Len(results) + 1
  BY <1>1, <1>2, <1>3
<1>5. Len(results) \in Nat
  BY <1>2
<1>6. results'[Len(results')] = r
  BY <1>1, <1>2, <1>3, <1>4, <1>5
<1>7. r.cmd = c
  BY DEF r
<1>8. results' # << >>
  BY <1>4, <1>5
<1> QED BY <1>4, <1>6, <1>7, <1>8 DEF Last, Returns

LEMMA Sizes ==
  /\ UINT_MAX \in Nat
  /\ MAX_STRING_SIZE \in Nat \ {0}
  /\ MAX_WRITE_SIZE \in Nat \ {0, 1}
BY ReaderAssumption

\* What a command starts with.
LEMMA Nothing ==
  << >> \in Seq(Seq(Char)) /\ 0 \in 0 .. UINT_MAX /\ 0 \in 0 .. UINT_MAX + 1
<1>1. << >> \in Seq(Seq(Char))
  OBVIOUS
<1>2. 0 \in 0 .. UINT_MAX /\ 0 \in 0 .. UINT_MAX + 1
  BY Sizes
<1> QED BY <1>1, <1>2

LEMMA FailsType ==
  ASSUME TypeOK, Fails
  PROVE  /\ results' \in Seq(Result)
         /\ at' = "cleanup"
BY Nothing, ReturnsType DEF Fails

LEMMA SucceedsType ==
  ASSUME TypeOK, Succeeds, cmd # "", number' \in 0 .. UINT_MAX
  PROVE  /\ results' \in Seq(Result)
         /\ results' # << >> /\ Last(results').cmd = cmd
         /\ at' \in {"next", "done"}
<1>1. cmd \in ServerWords \cup ClientWords
  BY DEF TypeOK, Words
<1>2. args \in Seq(Seq(Char))
  BY DEF TypeOK
<1> DEFINE there == IF cmd = "DISCONNECT" THEN "done" ELSE "next"
<1>3. Returns(cmd, args, number', there)
  BY DEF Succeeds
<1>4. there \in {"next", "done"}
  OBVIOUS
<1> HIDE DEF there
<1> QED BY <1>1, <1>2, <1>3, <1>4, ReturnsType

\* The digits of read_uint keep the number within its cap.
LEMMA DigitType ==
  ASSUME TypeOK, ReadDigit
  PROVE  number' \in 0 .. UINT_MAX + 1
<1>0. number \in 0 .. UINT_MAX + 1
  BY DEF TypeOK
<1>1. number \in Nat /\ UINT_MAX \in Nat
  BY <1>0, Sizes
<1>2. PICK n \in 1 .. 10 : number' = IF 10 * number + n - 1 <= UINT_MAX
                                     THEN 10 * number + n - 1 ELSE UINT_MAX + 1
  BY DEF ReadDigit, Digit
<1> QED BY <1>1, <1>2

LEMMA EndOfNumberType ==
  ASSUME TypeOK, EndOfNumber
  PROVE  number' \in 0 .. UINT_MAX + 1
<1>1. number \in 0 .. UINT_MAX + 1 /\ UINT_MAX \in Nat
  BY Sizes DEF TypeOK
<1>2. number' \in {number} \cup 10 * number .. UINT_MAX + 1
  BY DEF EndOfNumber
<1> QED BY <1>1, <1>2

\* The string from start to the position.
LEMMA StringType ==
  ASSUME TypeOK, start <= offset
  PROVE  /\ SubSeq(text, start + 1, offset) \in Seq(Char)
         /\ Len(SubSeq(text, start + 1, offset)) = offset - start
<1>1. text \in Seq(Char) /\ start \in 0 .. Len(text) /\ offset \in 0 .. Len(text)
  BY DEF TypeOK
<1>2. start + 1 \in 1 .. Len(text) + 1
  BY <1>1
<1>3. SubSeq(text, start + 1, offset) \in Seq(Char)
  BY <1>1, <1>2
<1> QED BY <1>1, <1>2, <1>3
-----------------------------------------------------------------------------
(* The types are kept. *)

LEMMA WordType ==
  ASSUME NEW w \in Words
  PROVE  w \in ServerWords \cup ClientWords /\ w # "" /\ Len(w) \in Nat \ {0}
<1>1. w \in ServerWords \cup ClientWords
  BY DEF Words
<1>2. w # ""
  BY <1>1 DEF ServerWords, ClientWords
<1> QED BY <1>1, <1>2, ReaderAssumption

\* What there is to show of a step.
LEMMA Typed ==
  ASSUME TypeOK, UNCHANGED input,
         offset' \in 0 .. Len(text), from' \in 0 .. Len(text),
         start' \in 0 .. Len(text),
         at' \in {"next", "end", "list", "pair", "string", "pairs", "close",
                 "number", "cleanup", "cleanup twice", "done"},
         cmd' \in Words \cup {""},
         args' \in Seq(Seq(Char)), number' \in 0 .. UINT_MAX + 1,
         results' \in Seq(Result)
  PROVE  TypeOK'
<1>1. program' = program /\ text' = text
  BY DEF input
<1>2. Words' = Words
  BY <1>1 DEF Words
<1> QED BY <1>1, <1>2 DEF TypeOK

\* A step that changes neither the command nor what was parsed of it.
LEMMA TypedSame ==
  ASSUME TypeOK, Reads, UNCHANGED <<command, parsed>>,
         at' \in {"next", "end", "list", "pair", "string", "pairs", "close",
                 "number", "cleanup", "cleanup twice", "done"},
         results' \in Seq(Result)
  PROVE  TypeOK'
<1>1. offset' \in 0 .. Len(text)
  BY ReadsOne
<1>2. /\ from' \in 0 .. Len(text) /\ start' \in 0 .. Len(text)
      /\ cmd' \in Words \cup {""}
      /\ args' \in Seq(Seq(Char)) /\ number' \in 0 .. UINT_MAX + 1
  BY DEF TypeOK, command, parsed
<1> QED BY <1>1, <1>2, Typed DEF Reads

\* A step that begins a string, or the end of a list.
LEMMA TypedOpen ==
  ASSUME TypeOK, Reads, start' = offset', UNCHANGED <<command, args, number>>,
         NEW there \in {"pair", "string", "close"},
         Continues(there) \/ Fails
  PROVE  TypeOK'
<1>1. offset' \in 0 .. Len(text)
  BY ReadsOne
<1>2. /\ from' \in 0 .. Len(text) /\ cmd' \in Words \cup {""}
      /\ args' \in Seq(Seq(Char)) /\ number' \in 0 .. UINT_MAX + 1
      /\ results \in Seq(Result)
  BY DEF TypeOK, command
<1>3. at' \in {"pair", "string", "close", "cleanup"} /\ results' \in Seq(Result)
  BY <1>2, FailsType DEF Continues
<1> QED BY <1>1, <1>2, <1>3, Typed DEF Reads

\* A step of get_next.
LEMMA TypedBegins ==
  ASSUME TypeOK, Begins, offset' \in 0 .. Len(text),
         at' \in {"next", "end", "list", "pair", "string", "pairs", "close",
                 "number", "cleanup", "cleanup twice", "done"},
         cmd' \in Words \cup {""}, results' \in Seq(Result)
  PROVE  TypeOK'
<1>1. from' \in 0 .. Len(text) /\ start' \in 0 .. Len(text)
  BY DEF TypeOK, Begins
<1>2. args' = << >> /\ number' = 0 /\ UNCHANGED input
  BY DEF Begins
<1> QED BY <1>1, <1>2, Nothing, Typed

LEMMA Appended ==
  ASSUME NEW S, NEW s \in Seq(S), NEW e \in S
  PROVE  /\ Append(s, e) \in Seq(S)
         /\ Len(Append(s, e)) = Len(s) + 1
         /\ \A n \in DOMAIN Append(s, e) :
              Append(s, e)[n] = IF n \in DOMAIN s THEN s[n] ELSE e
OBVIOUS

\* A string is added.
LEMMA TypedString ==
  ASSUME TypeOK, Placed, NEW stop, stop # EOF, StringEnds(stop),
         at' \in {"string", "pairs", "close", "cleanup"}, results' \in Seq(Result)
  PROVE  TypeOK'
<1> DEFINE string == SubSeq(text, start + 1, offset)
<1>1. offset' \in 0 .. Len(text) /\ start' \in 0 .. Len(text)
  BY ReadsOne DEF StringEnds
<1>2. /\ from' \in 0 .. Len(text) /\ cmd' \in Words \cup {""}
      /\ number' \in 0 .. UINT_MAX + 1 /\ args \in Seq(Seq(Char))
  BY DEF TypeOK, command, StringEnds
<1>3. offset - start \in 0 .. MAX_STRING_SIZE
  BY DEF Placed, StringEnds
<1>4. offset \in Nat /\ start \in Nat
  <2>1. offset \in 0 .. Len(text) /\ start \in 0 .. Len(text)
    BY DEF TypeOK
  <2> QED BY <2>1
<1>5. start <= offset
  BY <1>3, <1>4, Sizes
<1>6. string \in Seq(Char)
  BY <1>5, StringType
<1>7. args' = Append(args, string)
  BY DEF StringEnds
<1> HIDE DEF string
<1>8. args' \in Seq(Seq(Char))
  BY <1>2, <1>6, <1>7, Appended
<1> QED BY <1>1, <1>2, <1>8, Typed DEF StringEnds, Reads

LEMMA TypeStep ==
  ASSUME IInv, [Next]_vars
  PROVE  TypeOK'
<1> USE DEF IInv
<1>t. TypeOK /\ Placed
  OBVIOUS
<1>o. offset \in 0 .. Len(text) /\ results \in Seq(Result) /\ cmd \in Words \cup {""}
  BY DEF TypeOK
<1>l. Len(text) \in Nat
  <2>1. text \in Seq(Char)
    BY DEF TypeOK
  <2> QED BY <2>1
<1>1. ASSUME NEW w \in Words, Recognises(w) PROVE TypeOK'
  <2>1. Begins /\ cmd' = w /\ at' = Then(w) /\ results' = results
    BY <1>1 DEF Recognises, Continues
  <2>2. offset' = offset + Len(w) /\ offset + Len(w) <= Len(text)
    BY <1>1 DEF Recognises, Matches
  <2>3. offset' \in 0 .. Len(text)
    <3>1. Len(w) \in Nat
      BY WordType
    <3>2. offset \in Nat
      <4>1. offset \in 0 .. Len(text)
        BY <1>o
      <4> QED BY <4>1, <1>l
    <3>3. offset + Len(w) \in 0 .. Len(text)
      BY <1>l, <2>2, <3>1, <3>2
    <3> QED BY <2>2, <3>3
  <2>4. at' \in {"number", "end", "list"}
    BY <2>1 DEF Then
  <2> QED BY <1>t, <1>o, <2>1, <2>3, <2>4, TypedBegins
<1>2. ASSUME RecognisesNone PROVE TypeOK'
  <2>1. Begins /\ cmd' = cmd /\ Fails
    BY <1>2 DEF RecognisesNone
  <2> DEFINE read == {Len(w) : w \in {v \in Words : Chars(v)[1] = ch}} \cup {1}
  <2>2. PICK n \in read : Upto(n)
    BY <1>2 DEF RecognisesNone
  <2>3. n \in Nat
    <3>1. CASE n = 1
      BY <3>1
    <3>2. CASE n # 1
      <4>1. PICK v \in Words : n = Len(v)
        BY <2>2, <3>2
      <4> QED BY <4>1, WordType
    <3> QED BY <3>1, <3>2
  <2>4. offset' \in 0 .. Len(text)
    BY <1>t, <2>2, <2>3, UptoType
  <2> QED BY <1>t, <1>o, <2>1, <2>4, FailsType, TypedBegins
<1>3. ASSUME Empty PROVE TypeOK'
  <2>1. Begins /\ cmd' = cmd /\ Upto(1)
    BY <1>3 DEF Empty
  <2>2. Returns("EMPTY", << >>, 0, IF ch = "#" THEN "cleanup" ELSE "next")
    BY <1>3 DEF Empty
  <2>3. results' \in Seq(Result) /\ at' \in {"cleanup", "next"}
    BY <1>t, <2>2, Nothing, ReturnsType
  <2>4. offset' \in 0 .. Len(text)
    BY <1>t, <2>1, UptoType
  <2> QED BY <1>t, <1>o, <2>1, <2>3, <2>4, TypedBegins
<1>4. ASSUME EndOfCommands PROVE TypeOK'
  <2>1. /\ UNCHANGED <<input, offset, command, parsed, results>>
        /\ at' \in {"done", "next"}
    BY <1>4 DEF EndOfCommands, Continues
  <2>2. /\ from \in 0 .. Len(text) /\ start \in 0 .. Len(text)
        /\ args \in Seq(Seq(Char)) /\ number \in 0 .. UINT_MAX + 1
    BY DEF TypeOK
  <2> QED BY <1>t, <1>o, <2>1, <2>2, Typed DEF command, parsed
<1>5. ASSUME EndOfWord PROVE TypeOK'
  <2>1. Reads /\ UNCHANGED <<command, parsed>> /\ at = "end" /\ (Succeeds \/ Fails)
    BY <1>5 DEF EndOfWord
  <2>2. cmd # "" /\ number' = 0
    BY <1>t, <2>1 DEF Placed, parsed
  <2>3. at' \in {"next", "done", "cleanup"} /\ results' \in Seq(Result)
    BY <1>t, <2>1, <2>2, Nothing, SucceedsType, FailsType
  <2> QED BY <1>t, <2>1, <2>3, TypedSame
<1>6. ASSUME OpenList PROVE TypeOK'
  <2> DEFINE there == IF cmd = "WRITE " THEN "pair" ELSE "string"
  <2>1. /\ Reads /\ start' = offset' /\ UNCHANGED <<command, args, number>>
        /\ Continues(there) \/ Fails
    BY <1>6 DEF OpenList, Open
  <2>2. there \in {"pair", "string", "close"}
    OBVIOUS
  <2> HIDE DEF there
  <2> QED BY <1>t, <2>1, <2>2, TypedOpen
<1>7. ASSUME OpenPair PROVE TypeOK'
  BY <1>t, <1>7, TypedOpen DEF OpenPair, Open
<1>8. ASSUME StringGoesOn PROVE TypeOK'
  <2>1. Reads /\ UNCHANGED <<command, parsed>> /\ at' = "string" /\ results' = results
    BY <1>8 DEF StringGoesOn
  <2> QED BY <1>t, <1>o, <2>1, TypedSame
<1>9. ASSUME StringFails PROVE TypeOK'
  <2> DEFINE there == IF cmd = "WRITE " THEN "cleanup twice" ELSE "cleanup"
  <2>1. UNCHANGED <<command, parsed>> /\ Returns("INVALID", << >>, 0, there)
    BY <1>9 DEF StringFails
  <2>2. there \in {"cleanup", "cleanup twice"}
    OBVIOUS
  <2> HIDE DEF there
  <2>3. at' \in {"cleanup", "cleanup twice"} /\ results' \in Seq(Result)
    BY <1>t, <2>1, <2>2, Nothing, ReturnsType
  <2>4. CASE Reads
    BY <1>t, <2>1, <2>3, <2>4, TypedSame
  <2>5. CASE UNCHANGED <<input, offset>>
    <3>1. /\ from \in 0 .. Len(text) /\ start \in 0 .. Len(text)
          /\ args \in Seq(Seq(Char)) /\ number \in 0 .. UINT_MAX + 1
      BY DEF TypeOK
    <3> QED BY <1>t, <1>o, <2>1, <2>3, <2>5, <3>1, Typed DEF command, parsed
  <2> QED BY <1>9, <2>4, <2>5 DEF StringFails
<1>a. ASSUME ParsePair PROVE TypeOK'
  <2>1. PICK stop \in Stops : StringEnds(stop)
    BY <1>a DEF ParsePair
  <2>2. stop # EOF
    BY NotEOF DEF Stops
  <2>3. at' \in {"string", "pairs"} /\ results' = results
    BY <1>a DEF ParsePair, Continues
  <2> QED BY <1>t, <1>o, <2>1, <2>2, <2>3, TypedString
<1>b. ASSUME NextPair PROVE TypeOK'
  BY <1>t, <1>b, TypedOpen DEF NextPair
<1>c. ASSUME NEW stop \in {",", "]"}, ParseReadDelete(stop) \/ ParseList(stop)
      PROVE  TypeOK'
  <2>1. StringEnds(stop) /\ stop # EOF
    BY <1>c, NotEOF DEF ParseReadDelete, ParseList
  <2>2. Continues("string") \/ Continues("close") \/ Fails
    BY <1>c DEF ParseReadDelete, ParseList
  <2>3. at' \in {"string", "close", "cleanup"} /\ results' \in Seq(Result)
    BY <1>t, <1>o, <2>2, FailsType DEF Continues
  <2> QED BY <1>t, <2>1, <2>3, TypedString
<1>d. ASSUME Close PROVE TypeOK'
  <2>1. Reads /\ UNCHANGED <<command, parsed>> /\ at = "close" /\ (Succeeds \/ Fails)
    BY <1>d DEF Close
  <2>2. cmd # "" /\ number' = 0
    BY <1>t, <2>1 DEF Placed, parsed
  <2>3. at' \in {"next", "done", "cleanup"} /\ results' \in Seq(Result)
    BY <1>t, <2>1, <2>2, Nothing, SucceedsType, FailsType
  <2> QED BY <1>t, <2>1, <2>3, TypedSame
<1>e. ASSUME ReadDigit PROVE TypeOK'
  <2>1. Reads /\ UNCHANGED <<at, command, start, args, results>> /\ at = "number"
    BY <1>e DEF ReadDigit
  <2>2. offset' \in 0 .. Len(text) /\ number' \in 0 .. UINT_MAX + 1
    BY <1>t, <1>e, <2>1, ReadsOne, DigitType
  <2>3. /\ from' \in 0 .. Len(text) /\ start' \in 0 .. Len(text)
        /\ cmd' \in Words \cup {""} /\ args' \in Seq(Seq(Char))
    BY <2>1 DEF TypeOK, command
  <2> QED BY <1>t, <1>o, <2>1, <2>2, <2>3, Typed DEF Reads
<1>f. ASSUME ParseWait \/ ParseDelay PROVE TypeOK'
  <2>1. EndOfNumber
    BY <1>f DEF ParseWait, ParseDelay
  <2>2. Reads /\ UNCHANGED <<command, start, args>> /\ at = "number"
    BY <2>1 DEF EndOfNumber
  <2>3. offset' \in 0 .. Len(text) /\ number' \in 0 .. UINT_MAX + 1
    BY <1>t, <2>1, <2>2, ReadsOne, EndOfNumberType
  <2>4. /\ from' \in 0 .. Len(text) /\ start' \in 0 .. Len(text)
        /\ cmd' \in Words \cup {""} /\ args' \in Seq(Seq(Char))
    BY <2>2 DEF TypeOK, command
  <2>5. \/ Fails
        \/ number' <= UINT_MAX /\ (Succeeds \/ Returns(cmd, args, number', "cleanup"))
    <3>1. ~ (number' > UINT_MAX) => number' <= UINT_MAX
      BY <2>3, Sizes
    <3> QED BY <1>f, <3>1 DEF ParseWait, ParseDelay
  <2>6. number' <= UINT_MAX => number' \in 0 .. UINT_MAX
    BY <2>3, Sizes
  <2>7. cmd # "" /\ cmd \in ServerWords \cup ClientWords /\ args \in Seq(Seq(Char))
    BY <1>t, <1>o, <2>2, WordType DEF Placed, TypeOK
  <2>8. at' \in {"next", "done", "cleanup"} /\ results' \in Seq(Result)
    BY <1>t, <2>5, <2>6, <2>7, SucceedsType, FailsType, ReturnsType
  <2> QED BY <1>t, <2>2, <2>3, <2>4, <2>8, Typed DEF Reads
<1>g. ASSUME Cleanup PROVE TypeOK'
  <2>1. /\ Reads /\ UNCHANGED <<command, parsed>> /\ results' = results
        /\ at' \in {"cleanup", "cleanup twice", "next"}
    BY <1>g DEF Cleanup, Continues
  <2> QED BY <1>t, <1>o, <2>1, TypedSame
<1>h. ASSUME UNCHANGED vars PROVE TypeOK'
  BY <1>t, <1>h DEF TypeOK, Words, vars, input, command, parsed
<1> QED
  BY <1>1, <1>2, <1>3, <1>4, <1>5, <1>6, <1>7, <1>8, <1>9, <1>a, <1>b, <1>c,
     <1>d, <1>e, <1>f, <1>g, <1>h DEF Next, GetNext, Parse, Ended

-----------------------------------------------------------------------------
(* A command starts at the start of a line. *)

\* The character that ends a line was read, or the text ended.
LEMMA AtLineStart ==
  ASSUME TypeOK, Reads, ch \in {EOF, "\n"}
  PROVE  InSync'
<1>1. text' = text
  BY ReadsOne
<1>2. CASE ch = EOF
  BY <1>1, <1>2, ReadsOne DEF InSync
<1>3. CASE ch = "\n" /\ ch # EOF
  BY <1>1, <1>3, ReadsOne DEF InSync
<1> QED BY <1>2, <1>3

\* Every step to get_next is the end of a line, of a text, or of a delay.
LEMMA SyncStep ==
  ASSUME IInv, [Next]_vars
  PROVE  InSync'
<1>t. TypeOK /\ Placed /\ InSync
  BY DEF IInv
<1>1. ASSUME NEW w \in Words, Recognises(w) PROVE InSync'
  <2>1. at' = Then(w)
    BY <1>1 DEF Recognises, Continues
  <2> QED BY <2>1 DEF InSync, Then
<1>2. ASSUME Fails PROVE InSync'
  BY <1>t, <1>2, FailsType DEF InSync
<1>3. ASSUME Empty PROVE InSync'
  <2>1. Returns("EMPTY", << >>, 0, IF ch = "#" THEN "cleanup" ELSE "next")
    BY <1>3 DEF Empty
  <2>2. at' = IF ch = "#" THEN "cleanup" ELSE "next"
    BY <2>1 DEF Returns
  <2>3. Reads
    BY <1>3 DEF Empty, Begins, Reads
  <2>4. CASE ch = "#"
    BY <2>2, <2>4 DEF InSync
  <2>5. CASE ch = "\n"
    BY <1>t, <2>3, <2>5, AtLineStart
  <2> QED BY <1>3, <2>4, <2>5 DEF Empty
<1>4. ASSUME EndOfCommands PROVE InSync'
  BY <1>4 DEF EndOfCommands, InSync, input
<1>5. ASSUME EndOfWord PROVE InSync'
  <2>1. Reads /\ (ch \notin {"\n", EOF} => Fails)
    BY <1>5 DEF EndOfWord
  <2> QED BY <1>t, <1>2, <2>1, AtLineStart
<1>6. ASSUME OpenList \/ OpenPair \/ NextPair PROVE InSync'
  <2>1. \/ Continues(IF cmd = "WRITE " THEN "pair" ELSE "string")
        \/ Continues("string")
        \/ Continues(IF ch = "(" THEN "string" ELSE "close")
        \/ Fails
    BY <1>6 DEF OpenList, OpenPair, NextPair, Open
  <2> QED BY <1>2, <2>1 DEF Continues, InSync
<1>7. ASSUME StringGoesOn \/ ReadDigit PROVE InSync'
  <2>1. at' \in {"string", "number"}
    BY <1>7 DEF StringGoesOn, ReadDigit
  <2> QED BY <2>1 DEF InSync
<1>8. ASSUME StringFails PROVE InSync'
  <2>1. at' = IF cmd = "WRITE " THEN "cleanup twice" ELSE "cleanup"
    BY <1>8 DEF StringFails, Returns
  <2> QED BY <2>1 DEF InSync
<1>9. ASSUME ParsePair PROVE InSync'
  <2>1. at' = IF Len(args) % 2 = 0 THEN "string" ELSE "pairs"
    BY <1>9 DEF ParsePair, Continues
  <2> QED BY <2>1 DEF InSync
<1>a. ASSUME NEW stop \in {",", "]"}, ParseReadDelete(stop) \/ ParseList(stop)
      PROVE  InSync'
  <2>1. Continues("string") \/ Continues("close") \/ Fails
    BY <1>a DEF ParseReadDelete, ParseList
  <2> QED BY <1>2, <2>1 DEF Continues, InSync
<1>b. ASSUME Close PROVE InSync'
  <2>1. Reads /\ (ch # "\n" => Fails)
    BY <1>b DEF Close
  <2> QED BY <1>t, <1>2, <2>1, AtLineStart
<1>c. ASSUME ParseWait PROVE InSync'
  <2>1. Reads /\ (\/ Fails \/ ch \in {"\n", EOF}
                 \/ Returns(cmd, args, number', "cleanup"))
    BY <1>c DEF ParseWait, EndOfNumber
  <2>2. ASSUME Returns(cmd, args, number', "cleanup") PROVE InSync'
    BY <2>2 DEF Returns, InSync
  <2> QED BY <1>t, <1>2, <2>1, <2>2, AtLineStart
<1>d. ASSUME ParseDelay PROVE InSync'
  <2>1. /\ EndOfNumber /\ at = "number" /\ cmd = "DELAY "
        /\ IF number' > UINT_MAX THEN Fails ELSE Succeeds
    BY <1>d DEF ParseDelay, EndOfNumber
  <2>2. number' \in 0 .. UINT_MAX + 1
    BY <1>t, <2>1, EndOfNumberType
  <2>3. ~ (number' > UINT_MAX) => number' \in 0 .. UINT_MAX
    BY <2>2, Sizes
  <2>4. CASE Succeeds /\ number' \in 0 .. UINT_MAX
    <3>1. results' # << >> /\ Last(results').cmd = "DELAY "
      BY <1>t, <2>1, <2>4, SucceedsType
    <3> QED BY <3>1 DEF InSync
  <2> QED BY <1>2, <2>1, <2>3, <2>4
<1>e. ASSUME Cleanup PROVE InSync'
  <2>1. Reads /\ at' = IF ch \notin {EOF, "\n"} THEN at
                      ELSE IF at = "cleanup" THEN "next" ELSE "cleanup"
    BY <1>e DEF Cleanup, Continues
  <2>2. CASE ch \in {EOF, "\n"}
    BY <1>t, <2>1, <2>2, AtLineStart
  <2>3. CASE ch \notin {EOF, "\n"}
    BY <1>e, <2>1, <2>3 DEF Cleanup, InSync
  <2> QED BY <2>2, <2>3
<1>f. ASSUME UNCHANGED vars PROVE InSync'
  BY <1>t, <1>f DEF InSync, vars, input, command, parsed
<1>g. ASSUME RecognisesNone PROVE InSync'
  BY <1>2, <1>g DEF RecognisesNone
<1> QED
  BY <1>1, <1>3, <1>4, <1>5, <1>6, <1>7, <1>8, <1>9, <1>a, <1>b, <1>c, <1>d,
     <1>e, <1>f, <1>g DEF Next, GetNext, Parse, Ended

-----------------------------------------------------------------------------
(* What is read fits, and each place knows what it relies on. *)

LEMMA RoomType ==
  Room \in Nat /\ Room > 0
<1>1. 2 * MAX_WRITE_SIZE \in Nat /\ 2 * MAX_WRITE_SIZE > 0
  BY Sizes
<1>2. MAX_WRITE_SIZE \in Nat /\ MAX_WRITE_SIZE > 0
  BY Sizes
<1>3. CASE cmd = "WRITE "
  BY <1>1, <1>3 DEF Room
<1>4. CASE cmd # "WRITE "
  BY <1>2, <1>4 DEF Room
<1> QED BY <1>3, <1>4

\* A step that begins a command, and one that leaves it as it is.
LEMMA FitsEmpty ==
  ASSUME args' = << >>
  PROVE  FitsBuffers'
<1>1. Len(<< >>) = 0 /\ DOMAIN << >> = {}
  OBVIOUS
<1>2. 0 <= 2 * MAX_WRITE_SIZE /\ 0 <= MAX_WRITE_SIZE
  BY Sizes
<1>3. Len(args') = 0 /\ DOMAIN args' = {}
  BY <1>1
<1> DEFINE room == IF cmd' = "WRITE " THEN 2 * MAX_WRITE_SIZE ELSE MAX_WRITE_SIZE
<1>4. 0 <= room
  BY <1>2
<1> HIDE DEF room
<1>6. Len(args') <= room
  BY <1>3, <1>4
<1>5. \A n \in DOMAIN args' : Len(args'[n]) < MAX_STRING_SIZE
  BY <1>3
<1> QED BY <1>5, <1>6 DEF FitsBuffers, room

LEMMA FitsSame ==
  ASSUME FitsBuffers, args' = args, cmd' = cmd
  PROVE  FitsBuffers'
BY DEF FitsBuffers

\* A string that ends had room in its buffer, and has room in the list.
LEMMA StringFits ==
  ASSUME IInv, NEW stop, StringEnds(stop)
  PROVE  /\ FitsBuffers'
         /\ Len(args') = Len(args) + 1 /\ Len(args) \in Nat
         /\ Len(args) < Room
<1> DEFINE string == SubSeq(text, start + 1, offset)
<1>1. offset - start \in 0 .. MAX_STRING_SIZE /\ Len(args) < Room
  BY DEF IInv, Placed, StringEnds
<1>2. offset \in Nat /\ start \in Nat
  <2>1. offset \in 0 .. Len(text) /\ start \in 0 .. Len(text)
    BY DEF IInv, TypeOK
  <2> QED BY <2>1
<1>3. offset - start # MAX_STRING_SIZE
  BY DEF StringEnds, Full
<1>4. start <= offset /\ offset - start < MAX_STRING_SIZE
  BY <1>1, <1>2, <1>3, Sizes
<1>5. string \in Seq(Char) /\ Len(string) < MAX_STRING_SIZE
  BY <1>4, StringType DEF IInv
<1>6. args' = Append(args, string) /\ cmd' = cmd
  BY DEF StringEnds, command
<1> HIDE DEF string
<1>7. args \in Seq(Seq(Char))
  BY DEF IInv, TypeOK
<1>8. /\ Len(args') = Len(args) + 1
      /\ \A n \in DOMAIN args' : args'[n] = IF n \in DOMAIN args THEN args[n] ELSE string
  BY <1>5, <1>6, <1>7, Appended
<1>9. Len(args) \in Nat
  BY <1>7
<1>a. \A n \in DOMAIN args : Len(args[n]) < MAX_STRING_SIZE
  BY DEF IInv, FitsBuffers
<1>b. \A n \in DOMAIN args' : Len(args'[n]) < MAX_STRING_SIZE
  BY <1>5, <1>8, <1>a
<1>c. Room' = Room
  BY <1>6 DEF Room
<1>d. Len(args') <= Room'
  BY <1>1, <1>8, <1>9, <1>c, RoomType
<1>e. FitsBuffers'
  BY <1>b, <1>d DEF FitsBuffers, Room
<1> QED BY <1>1, <1>8, <1>9, <1>e

LEMMA FitsStep ==
  ASSUME IInv, [Next]_vars
  PROVE  FitsBuffers'
<1>t. FitsBuffers
  BY DEF IInv
<1>1. ASSUME Begins PROVE FitsBuffers'
  BY <1>1, FitsEmpty DEF Begins
<1>2. ASSUME UNCHANGED <<command, args>> PROVE FitsBuffers'
  BY <1>t, <1>2, FitsSame DEF command
<1>3. ASSUME NEW stop, StringEnds(stop) PROVE FitsBuffers'
  BY <1>3, StringFits
<1>4. ASSUME GetNext PROVE FitsBuffers'
  BY <1>1, <1>2, <1>4 DEF GetNext, Recognises, RecognisesNone, Empty,
     EndOfCommands, EndOfWord, parsed
<1>5. ASSUME Parse PROVE FitsBuffers'
  BY <1>2, <1>3, <1>5 DEF Parse, OpenList, OpenPair, Open, StringGoesOn,
     StringFails, ParsePair, NextPair, ParseReadDelete, ParseList, Close,
     ReadDigit, ParseWait, ParseDelay, EndOfNumber, parsed
<1>6. ASSUME Cleanup \/ Ended \/ UNCHANGED vars PROVE FitsBuffers'
  BY <1>2, <1>6 DEF Cleanup, Ended, vars, parsed
<1> QED BY <1>4, <1>5, <1>6 DEF Next

LEMMA NothingRead ==
  ASSUME NEW n \in Nat
  PROVE  n - n \in 0 .. MAX_STRING_SIZE
<1>1. n - n = 0
  OBVIOUS
<1> QED BY <1>1, Sizes

LEMMA OneMoreRead ==
  ASSUME NEW n \in Nat, NEW m \in Nat, n - m \in 0 .. MAX_STRING_SIZE,
         n - m # MAX_STRING_SIZE
  PROVE  n + 1 - m \in 0 .. MAX_STRING_SIZE
BY Sizes

\* A string is started with no character and a place in the list.
LEMMA PlacedString ==
  ASSUME start' = offset', offset' \in Nat, Len(args') < Room',
         number' = 0, cmd' # "", at' = "string"
  PROVE  Placed'
<1>1. offset' - start' \in 0 .. MAX_STRING_SIZE
  BY NothingRead
<1> QED BY <1>1 DEF Placed

\* After a command nothing is relied on.
LEMMA PlacedNowhere ==
  ASSUME at' \in {"next", "cleanup", "cleanup twice", "done"}
  PROVE  Placed'
BY DEF Placed

\* Two arguments are a pair, and a pair that began finds room for its value.
LEMMA HalfPair ==
  ASSUME NEW n \in Nat, NEW m \in Nat, n < 2 * m, n % 2 = 0
  PROVE  n + 1 < 2 * m
OBVIOUS

LEMMA PlaceStep ==
  ASSUME IInv, [Next]_vars, offset' \in Nat
  PROVE  Placed'
<1>t. TypeOK /\ Placed /\ FitsBuffers
  BY DEF IInv
<1>1. ASSUME NEW w \in Words, Recognises(w) PROVE Placed'
  <2>1. args' = << >> /\ number' = 0 /\ cmd' # "" /\ at' \in {"number", "end", "list"}
    BY <1>1, WordType DEF Recognises, Begins, Continues, Then
  <2> QED BY <2>1 DEF Placed
<1>2. ASSUME Fails PROVE Placed'
  BY <1>t, <1>2, FailsType, PlacedNowhere
<1>3. ASSUME Empty \/ EndOfCommands PROVE Placed'
  <2>1. at' \in {"next", "cleanup", "done"}
    BY <1>3 DEF Empty, EndOfCommands, Returns, Continues
  <2> QED BY <2>1, PlacedNowhere
<1>4. ASSUME Succeeds PROVE Placed'
  <2>1. at' \in {"next", "done"}
    BY <1>4 DEF Succeeds, Returns
  <2> QED BY <2>1, PlacedNowhere
<1>5. ASSUME OpenList PROVE Placed'
  <2>1. /\ start' = offset' /\ cmd' = cmd /\ args' = args /\ number' = number
        /\ at = "list"
        /\ \/ Fails
           \/ at' = IF cmd = "WRITE " THEN "pair" ELSE "string"
    BY <1>5 DEF OpenList, Open, Continues, command
  <2>2. args = << >> /\ number = 0 /\ cmd # ""
    BY <1>t, <2>1 DEF Placed
  <2>3. CASE at' = "pair"
    BY <2>1, <2>2, <2>3 DEF Placed
  <2>4. CASE at' = "string"
    <3>1. Len(<< >>) = 0 /\ Room' = Room
      BY <2>1 DEF Room
    <3>2. Len(args') < Room'
      BY <2>1, <2>2, <3>1, RoomType
    <3> QED BY <2>1, <2>2, <2>4, <3>2, PlacedString
  <2> QED BY <1>2, <2>1, <2>3, <2>4
<1>6. ASSUME OpenPair PROVE Placed'
  <2>1. /\ start' = offset' /\ cmd' = cmd /\ args' = args /\ number' = number
        /\ at = "pair"
        /\ Fails \/ at' = "string"
    BY <1>6 DEF OpenPair, Open, Continues, command
  <2>2. args = << >> /\ number = 0 /\ cmd # ""
    BY <1>t, <2>1 DEF Placed
  <2>3. CASE at' = "string"
    <3>1. Len(<< >>) = 0 /\ Room' = Room
      BY <2>1 DEF Room
    <3>2. Len(args') < Room'
      BY <2>1, <2>2, <3>1, RoomType
    <3> QED BY <2>1, <2>2, <2>3, <3>2, PlacedString
  <2> QED BY <1>2, <2>1, <2>3
<1>7. ASSUME StringGoesOn PROVE Placed'
  <2>1. /\ Reads /\ cmd' = cmd /\ args' = args /\ number' = number /\ start' = start
        /\ at = "string" /\ at' = "string" /\ ch # EOF /\ ~ Full
    BY <1>7 DEF StringGoesOn, command, parsed
  <2>2. offset' = offset + 1
    BY <1>t, <2>1, ReadsOne
  <2>3. offset - start \in 0 .. MAX_STRING_SIZE /\ Len(args) < Room
        /\ number = 0 /\ cmd # ""
    BY <1>t, <2>1 DEF Placed
  <2>4. offset \in Nat /\ start \in Nat
    <3>1. offset \in 0 .. Len(text) /\ start \in 0 .. Len(text)
      BY <1>t DEF TypeOK
    <3> QED BY <3>1
  <2>5. offset + 1 - start \in 0 .. MAX_STRING_SIZE
    <3>1. offset - start # MAX_STRING_SIZE
      BY <2>1 DEF Full
    <3> QED BY <2>3, <2>4, <3>1, OneMoreRead
  <2>6. Room' = Room
    BY <2>1 DEF Room
  <2>9. offset' - start' \in 0 .. MAX_STRING_SIZE
    <3>1. offset' = offset + 1 /\ start' = start
      BY <2>1, <2>2
    <3>2. start' \in Nat
      BY <2>4, <3>1
    <3> QED BY <2>4, <2>5, <3>1, <3>2
  <2>7. Len(args') < Room'
    BY <2>1, <2>3, <2>6
  <2>8. number' = 0 /\ cmd' # "" /\ at' = "string"
    BY <2>1, <2>3
  <2> QED BY <2>7, <2>8, <2>9 DEF Placed
<1>8. ASSUME StringFails PROVE Placed'
  <2>1. at' \in {"cleanup", "cleanup twice"}
    BY <1>8 DEF StringFails, Returns
  <2> QED BY <2>1, PlacedNowhere
<1>9. ASSUME NEW stop, StringEnds(stop), at' = "string" => Len(args) + 1 < Room,
             at' \in {"string", "pairs", "close"}, at' = "pairs" => cmd = "WRITE "
      PROVE  Placed'
  <2>1. /\ start' = offset' /\ cmd' = cmd /\ number' = number /\ at = "string"
    BY <1>9 DEF StringEnds, command
  <2>6. ASSUME at' = "pairs" PROVE cmd' = "WRITE "
    BY <1>9, <2>1, <2>6
  <2>2. number = 0 /\ cmd # ""
    BY <1>t, <2>1 DEF Placed
  <2>3. Len(args') = Len(args) + 1
    BY <1>9, StringFits
  <2>4. CASE at' = "string"
    <3>2. Room' = Room
      BY <2>1 DEF Room
    <3>3. Len(args) + 1 < Room
      BY <1>9, <2>4
    <3>4. Len(args') < Room
      BY <2>3, <3>3
    <3>5. Room \in Nat /\ Room' \in Nat
      BY <3>2, RoomType
    <3>1. Len(args') < Room'
      BY <3>2, <3>4, <3>5
    <3> QED BY <2>1, <2>2, <2>4, <3>1, PlacedString
  <2>5. CASE at' # "string"
    BY <1>9, <2>1, <2>2, <2>5, <2>6 DEF Placed
  <2> QED BY <2>4, <2>5
<1>a. ASSUME ParsePair PROVE Placed'
  <2>1. PICK stop \in Stops : StringEnds(stop)
    BY <1>a DEF ParsePair
  <2>2. cmd = "WRITE " /\ at' = IF Len(args) % 2 = 0 THEN "string" ELSE "pairs"
    BY <1>a DEF ParsePair, Continues
  <2>3. Len(args) \in Nat /\ Len(args) < Room
    BY <2>1, StringFits
  <2>4. ASSUME at' = "string" PROVE Len(args) + 1 < Room
    <3>1. Len(args) % 2 = 0 /\ Room = 2 * MAX_WRITE_SIZE
      BY <2>2, <2>4 DEF Room
    <3> QED BY <2>3, <3>1, Sizes, HalfPair
  <2> QED BY <1>9, <2>1, <2>2, <2>4
<1>b. ASSUME NextPair PROVE Placed'
  <2>1. /\ start' = offset' /\ cmd' = cmd /\ args' = args /\ number' = number
        /\ at = "pairs"
        /\ \/ Fails
           \/ at' = "close"
           \/ at' = "string" /\ Len(args) < 2 * MAX_WRITE_SIZE
    BY <1>b DEF NextPair, Continues, command
  <2>2. number = 0 /\ cmd = "WRITE "
    BY <1>t, <2>1 DEF Placed
  <2>3. CASE at' = "close"
    BY <2>1, <2>2, <2>3 DEF Placed
  <2>4. CASE at' = "string" /\ Len(args) < 2 * MAX_WRITE_SIZE
    <3>1. Room = 2 * MAX_WRITE_SIZE /\ Room' = Room
      BY <2>1, <2>2 DEF Room
    <3>2. Len(args) < Room /\ Len(args) \in Nat /\ Room \in Nat
      <4>1. args \in Seq(Seq(Char))
        BY <1>t DEF TypeOK
      <4> QED BY <2>4, <3>1, <4>1, RoomType
    <3>3. Len(args') < Room'
      BY <2>1, <3>1, <3>2
    <3> QED BY <2>1, <2>2, <2>4, <3>3, PlacedString
  <2> QED BY <1>2, <2>1, <2>3, <2>4
<1>c. ASSUME NEW stop \in {",", "]"}, ParseReadDelete(stop) PROVE Placed'
  <2>1. /\ StringEnds(stop) /\ cmd # "WRITE "
        /\ \/ Fails
           \/ at' \in {"string", "close"} /\ Len(args) + 1 < MAX_WRITE_SIZE
    BY <1>c DEF ParseReadDelete, Continues
  <2>2. Room = MAX_WRITE_SIZE
    BY <2>1 DEF Room
  <2> QED BY <1>2, <1>9, <2>1, <2>2
<1>d. ASSUME NEW stop \in {",", "]"}, ParseList(stop) PROVE Placed'
  <2>1. StringEnds(stop) /\ (Fails \/ at' = "close")
    BY <1>d DEF ParseList, Continues
  <2> QED BY <1>2, <1>9, <2>1
<1>e. ASSUME ReadDigit PROVE Placed'
  <2>1. at = "number" /\ at' = "number" /\ cmd' = cmd /\ args' = args
    BY <1>e DEF ReadDigit, command
  <2> QED BY <1>t, <2>1 DEF Placed
<1>f. ASSUME EndOfWord \/ Close \/ ParseDelay PROVE Placed'
  BY <1>2, <1>4, <1>f DEF EndOfWord, Close, ParseDelay
<1>g. ASSUME ParseWait PROVE Placed'
  <2>1. ASSUME Returns(cmd, args, number', "cleanup") PROVE Placed'
    BY <2>1, PlacedNowhere DEF Returns
  <2> QED BY <1>2, <1>4, <1>g, <2>1 DEF ParseWait
<1>h. ASSUME Cleanup PROVE Placed'
  <2>1. at' \in {"next", "cleanup", "cleanup twice"}
    BY <1>h DEF Cleanup, Continues
  <2> QED BY <2>1, PlacedNowhere
<1>i. ASSUME UNCHANGED vars PROVE Placed'
  BY <1>t, <1>i DEF Placed, Room, vars, input, command, parsed
<1>j. ASSUME RecognisesNone PROVE Placed'
  BY <1>2, <1>j DEF RecognisesNone
<1> QED
  BY <1>1, <1>3, <1>5, <1>6, <1>7, <1>8, <1>a, <1>b, <1>c, <1>d, <1>e, <1>f,
     <1>g, <1>h, <1>i, <1>j DEF Next, GetNext, Parse, Ended

-----------------------------------------------------------------------------
(* The theorems. *)

LEMMA Begun ==
  ASSUME Init
  PROVE  IInv
<1>1. text \in Seq(Char) /\ program \in {"server", "client"}
  BY ReaderAssumption DEF Init
<1>2. 0 \in 0 .. Len(text)
  BY <1>1
<1>3. << >> \in Seq(Result)
  OBVIOUS
<1>4. TypeOK
  BY <1>1, <1>2, <1>3, Nothing DEF Init, TypeOK
<1>5. InSync
  BY DEF Init, InSync
<1>6. FitsBuffers
  <2>1. Len(<< >>) = 0 /\ DOMAIN << >> = {}
    OBVIOUS
  <2>2. 0 <= 2 * MAX_WRITE_SIZE /\ 0 <= MAX_WRITE_SIZE
    BY Sizes
  <2> QED BY <2>1, <2>2 DEF Init, FitsBuffers
<1>7. Placed
  BY DEF Init, Placed
<1> QED BY <1>4, <1>5, <1>6, <1>7 DEF IInv

\* The invariant is kept by every step of a reader.
LEMMA Kept ==
  ASSUME IInv, [Next]_vars
  PROVE  IInv'
<1>1. TypeOK'
  BY TypeStep
<1>2. offset' \in Nat
  <2>1. offset' \in 0 .. Len(text') /\ text' \in Seq(Char)
    BY <1>1 DEF TypeOK
  <2> QED BY <2>1
<1> QED BY <1>1, <1>2, SyncStep, FitsStep, PlaceStep DEF IInv

LEMMA Invariance == Spec => []IInv
<1>1. Init => IInv
  BY Begun
<1>2. IInv /\ [Next]_vars => IInv'
  BY Kept
<1> QED BY <1>1, <1>2, PTL DEF Spec

\* Whatever the text is, the position stays in it, a number stays below what
\* strtoul can say, and each result is a command with its arguments.
THEOREM TypeCorrect == Spec => []TypeOK
<1>1. IInv => TypeOK
  BY DEF IInv
<1> QED BY <1>1, Invariance, PTL

\* get_next starts at the start of a line after every command, whatever it was
\* and wherever it failed, but for what a DELAY of a client leaves.
THEOREM StartsInSync == Spec => []InSync
<1>1. IInv => InSync
  BY DEF IInv
<1> QED BY <1>1, Invariance, PTL

\* No command has more strings, nor longer ones, than keys[] and values[] have
\* room for.
THEOREM BuffersKept == Spec => []FitsBuffers
<1>1. IInv => FitsBuffers
  BY DEF IInv
<1> QED BY <1>1, Invariance, PTL

=============================================================================
