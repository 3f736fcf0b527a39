--------------------------- MODULE CommandReader ---------------------------
(***************************************************************************)
(* How text becomes commands: get_next, the parse_ functions and the loops *)
(* that call them, for the job files of the server and for the standard    *)
(* input of a client.  What matters is which characters each call consumes,*)
(* since the next call goes on from there.                                 *)
(*                                                                         *)
(* Sources: src/SOParte2/src/server/parser.c (the parser.c of the three    *)
(* exercises are the same text), src/SOParte2/src/client/parser.c, and the *)
(* loops in server/main.c and client/main.c.                               *)
(*                                                                         *)
(* A text is a sequence of characters, without NUL.  One step is one       *)
(* character read, except that get_next compares a whole word.             *)
(***************************************************************************)
EXTENDS Integers, SequencesExt

CONSTANTS
  Char,
  ServerTexts,      \* the contents a job file may have
  ClientTexts,      \* what the standard input of a client may be
  MAX_WRITE_SIZE,
  MAX_STRING_SIZE,
  UINT_MAX,
  EOF               \* what read() == 0 is to the loops below

Chars(string) == [n \in 1 .. Len(string) |-> SubSeq(string, n, n)]

ServerWords ==
  {"WRITE ", "READ ", "DELETE ", "WAIT ", "SHOW", "BACKUP", "HELP"}
ClientWords == {"SUBSCRIBE ", "UNSUBSCRIBE ", "DELAY ", "DISCONNECT"}

Digit == <<"0", "1", "2", "3", "4", "5", "6", "7", "8", "9">>

ASSUME ReaderAssumption ==
  /\ ServerTexts \cup ClientTexts \subseteq Seq(Char)
  /\ MAX_WRITE_SIZE \in Nat \ {0, 1}
  /\ MAX_STRING_SIZE \in Nat \ {0}
  /\ UINT_MAX \in Nat
  /\ EOF \notin Char \cup Range(Digit) \cup {"[", "(", ",", ")", "]", " ", "#", "\n"}
  /\ \A w \in ServerWords \cup ClientWords : Len(w) \in Nat \ {0}

VARIABLES
  program,   \* "server" or "client"; never changes
  text,      \* what it reads; never changes
  offset,    \* how much of it was read
  at,        \* the function, or the place in one, that reads next
  from,      \* where the current command began
  cmd,       \* the word that get_next recognised
  start,     \* where the string that is being read began
  args,      \* the strings that were parsed
  number,    \* the number that is being read, and no more than UINT_MAX + 1
  results    \* what each command turned out to be

input   == <<program, text>>
command == <<from, cmd>>
parsed  == <<start, args, number>>

vars == <<input, offset, at, command, parsed, results>>

Init ==
  /\ \/ program = "server" /\ text \in ServerTexts
     \/ program = "client" /\ text \in ClientTexts
  /\ offset = 0
  /\ at = "next"
  /\ from = 0
  /\ cmd = ""
  /\ start = 0
  /\ args = << >>
  /\ number = 0
  /\ results = << >>

-----------------------------------------------------------------------------

ch == IF offset < Len(text) THEN text[offset + 1] ELSE EOF

Upto(n) == offset' = IF offset + n < Len(text) THEN offset + n ELSE Len(text)

Reads == Upto(1) /\ UNCHANGED input

Continues(there) == at' = there /\ UNCHANGED results

Returns(cmd_, args_, delay, there) ==
  /\ results' = Append(results, [cmd |-> cmd_, args |-> args_, delay |-> delay])
  /\ at' = there

\* "Invalid command. See HELP for usage", after a cleanup.
Fails == Returns("INVALID", << >>, 0, "cleanup")

\* The command is executed; DISCONNECT leaves the loop of the client.
Succeeds ==
  Returns(cmd, args, number', IF cmd = "DISCONNECT" THEN "done" ELSE "next")

\* Slip: only the end of the line is looked for.
SlipNoEOF ==
  /\ at \in {"cleanup", "cleanup twice"}
  /\ Reads
  /\ Continues(IF ch # "\n" THEN at
               ELSE IF at = "cleanup" THEN "next" ELSE "cleanup")
  /\ UNCHANGED <<command, parsed>>

\* A pair that does not parse is cleaned up by parse_pair and by parse_write.
Cleanup ==
  /\ at \in {"cleanup", "cleanup twice"}
  /\ Reads
  /\ Continues(IF ch \notin {EOF, "\n"} THEN at
               ELSE IF at = "cleanup" THEN "next" ELSE "cleanup")
  /\ UNCHANGED <<command, parsed>>

-----------------------------------------------------------------------------
(* get_next *)

Words == IF program = "server" THEN ServerWords ELSE ClientWords

Matches(word) ==
  /\ offset + Len(word) <= Len(text)
  /\ SubSeq(text, offset + 1, offset + Len(word)) = Chars(word)

\* Where the parsing of a command goes on.
Then(word) ==
  CASE word \in {"WAIT ", "DELAY "}                        -> "number"
    [] word \in {"SHOW", "BACKUP", "HELP", "DISCONNECT"} -> "end"
    [] OTHER                                               -> "list"

Begins ==
  /\ at = "next"
  /\ offset < Len(text)
  /\ from' = offset
  /\ args' = << >>
  /\ number' = 0
  /\ UNCHANGED <<input, start>>

Recognises(word) ==
  /\ Begins
  /\ Matches(word)
  /\ offset' = offset + Len(word)
  /\ cmd' = word
  /\ Continues(Then(word))

\* The words with the first character of the text are compared from the
\* shortest to the longest, and reading the longest may pass the end of a line.
RecognisesNone ==
  LET tried == {w \in Words : Chars(w)[1] = ch}
      read  == {Len(w) : w \in tried} \cup {1}
  IN
  /\ Begins
  /\ ch \notin {"#", "\n"}
  /\ \A w \in Words : ~ Matches(w)
  /\ \E n \in read : (\A m \in read : m <= n) /\ Upto(n)
  /\ Fails
  /\ UNCHANGED cmd

Empty ==
  /\ Begins
  /\ ch \in {"#", "\n"}
  /\ Upto(1)
  /\ Returns("EMPTY", << >>, 0, IF ch = "#" THEN "cleanup" ELSE "next")
  /\ UNCHANGED cmd

\* EOC: a job file is closed, and a client asks again for ever.
EndOfCommands ==
  /\ at = "next"
  /\ offset = Len(text)
  /\ Continues(IF program = "server" THEN "done" ELSE "next")
  /\ UNCHANGED <<input, offset, command, parsed>>

\* Slip: the character after the word is read and not compared.
SlipAnyEnd ==
  /\ at = "end"
  /\ Reads
  /\ UNCHANGED <<command, parsed>>
  /\ Succeeds

\* The words without arguments end their line, or the text.
EndOfWord ==
  /\ at = "end"
  /\ Reads
  /\ UNCHANGED <<command, parsed>>
  /\ IF ch \in {"\n", EOF} THEN Succeeds ELSE Fails

-----------------------------------------------------------------------------
(* read_string, and the lists of pairs and of keys. *)

Open(here, bracket, there) ==
  /\ at = here
  /\ Reads
  /\ start' = offset'
  /\ IF ch = bracket THEN Continues(there) ELSE Fails
  /\ UNCHANGED <<command, args, number>>

OpenList == Open("list", "[", IF cmd = "WRITE " THEN "pair" ELSE "string")

OpenPair == Open("pair", "(", "string")

\* Slip: one character too many.
SlipLong == offset - start = MAX_STRING_SIZE + 1

Full == offset - start = MAX_STRING_SIZE

\* The characters that may end the string, where it stands.
Stops ==
  IF cmd = "WRITE " THEN {IF Len(args) % 2 = 0 THEN "," ELSE ")"}
                    ELSE {",", "]"}

\* A line that ends is not the end of a string.
StringGoesOn ==
  /\ at = "string"
  /\ ~ Full
  /\ ch \notin {EOF, " ", ",", ")", "]"}
  /\ Reads
  /\ UNCHANGED <<at, command, parsed, results>>

StringFails ==
  /\ at = "string"
  /\ \/ Full /\ UNCHANGED <<input, offset>>
     \/ ~ Full /\ ch \in {EOF, " ", ",", ")", "]"} \ Stops /\ Reads
  /\ Returns("INVALID", << >>, 0,
             IF cmd = "WRITE " THEN "cleanup twice" ELSE "cleanup")
  /\ UNCHANGED <<command, parsed>>

StringEnds(stop) ==
  /\ at = "string"
  /\ ~ Full
  /\ ch = stop
  /\ Reads
  /\ args' = Append(args, SubSeq(text, start + 1, offset))
  /\ start' = offset'
  /\ UNCHANGED <<command, number>>

ParsePair ==
  /\ cmd = "WRITE "
  /\ \E stop \in Stops : StringEnds(stop)
  /\ Continues(IF Len(args) % 2 = 0 THEN "string" ELSE "pairs")

\* parse_write after a pair: as many pairs as fit are one too many.
NextPair ==
  /\ at = "pairs"
  /\ Reads
  /\ start' = offset'
  /\ IF ch \in {"(", "]"} /\ Len(args) < 2 * MAX_WRITE_SIZE
     THEN Continues(IF ch = "(" THEN "string" ELSE "close")
     ELSE Fails
  /\ UNCHANGED <<command, args, number>>

\* Slip: as many keys as fit are read, and then one more.
SlipOneKeyMore(stop) ==
  /\ cmd \in {"READ ", "DELETE "}
  /\ StringEnds(stop)
  /\ IF Len(args) <= MAX_WRITE_SIZE
     THEN Continues(IF stop = "," THEN "string" ELSE "close")
     ELSE Fails

\* After a key; the test for too many keys comes before the "]" counts.
ParseReadDelete(stop) ==
  /\ cmd \in {"READ ", "DELETE "}
  /\ StringEnds(stop)
  /\ IF Len(args) + 1 < MAX_WRITE_SIZE
     THEN Continues(IF stop = "," THEN "string" ELSE "close")
     ELSE Fails

\* The client asks for one key at most.
ParseList(stop) ==
  /\ cmd \in {"SUBSCRIBE ", "UNSUBSCRIBE "}
  /\ StringEnds(stop)
  /\ IF stop = "]" THEN Continues("close") ELSE Fails

\* A list ends its line, and not the text.
Close ==
  /\ at = "close"
  /\ Reads
  /\ UNCHANGED <<command, parsed>>
  /\ IF ch = "\n" THEN Succeeds ELSE Fails

-----------------------------------------------------------------------------
(* read_uint, and the delays. *)

ReadDigit ==
  /\ at = "number"
  /\ Reads
  /\ \E n \in DOMAIN Digit :
       /\ Digit[n] = ch
       /\ number' = IF 10 * number + n - 1 <= UINT_MAX
                    THEN 10 * number + n - 1 ELSE UINT_MAX + 1
  /\ UNCHANGED <<at, command, start, args, results>>

\* At the end of the text buf has no terminator: strtoul goes on with what was
\* there before, and finds the number or one that begins with it.
EndOfNumber ==
  /\ at = "number"
  /\ ch \notin Range(Digit)
  /\ Reads
  /\ number' \in {number} \cup (IF ch = EOF THEN 10 * number .. UINT_MAX + 1 ELSE {})
  /\ UNCHANGED <<command, start, args>>

ParseWait ==
  /\ cmd = "WAIT "
  /\ EndOfNumber
  /\ \/ number' > UINT_MAX /\ Fails
     \/ number' <= UINT_MAX /\
          \/ ch \in {"\n", EOF} /\ Succeeds
          \/ ch = " " /\ Returns(cmd, args, number', "cleanup")
          \/ ch \notin {"\n", EOF, " "} /\ Fails

\* Slip: a number that is too big is taken.
SlipNoRange ==
  /\ cmd = "DELAY "
  /\ EndOfNumber
  /\ Succeeds

\* The character after the number is gone, and what follows it is left.
ParseDelay ==
  /\ cmd = "DELAY "
  /\ EndOfNumber
  /\ IF number' > UINT_MAX THEN Fails ELSE Succeeds

-----------------------------------------------------------------------------

GetNext ==
  \/ \E w \in Words : Recognises(w)
  \/ RecognisesNone \/ Empty \/ EndOfCommands \/ EndOfWord

Parse ==
  \/ OpenList \/ OpenPair \/ StringGoesOn \/ StringFails \/ ParsePair \/ NextPair
  \/ \E stop \in {",", "]"} : ParseReadDelete(stop) \/ ParseList(stop)
  \/ Close \/ ReadDigit \/ ParseWait \/ ParseDelay

Ended == at = "done" /\ UNCHANGED vars

Next == GetNext \/ Parse \/ Cleanup \/ Ended

\* One thread reads, and nothing makes it wait.
Spec == Init /\ [][Next]_vars

FairSpec == Spec /\ WF_vars(Next)

-----------------------------------------------------------------------------
(* Properties. *)

Result == [cmd : ServerWords \cup ClientWords \cup {"INVALID", "EMPTY"},
           args : Seq(Seq(Char)), delay : 0 .. UINT_MAX]

\* Every variable keeps its type, and the position stays in the text.
TypeOK ==
  /\ program \in {"server", "client"}
  /\ text \in Seq(Char)
  /\ {offset, from, start} \subseteq 0 .. Len(text)
  /\ at \in {"next", "end", "list", "pair", "string", "pairs", "close",
             "number", "cleanup", "cleanup twice", "done"}
  /\ cmd \in Words \cup {""}
  /\ args \in Seq(Seq(Char))
  /\ number \in 0 .. UINT_MAX + 1
  /\ results \in Seq(Result)

\* get_next always starts at the start of a line, whatever went wrong in the
\* lines before (cleanup, "Jumps file descriptor to next line",
\* client/parser.c:87); only after a DELAY the client may stand in its line.
InSync ==
  at = "next" =>
    \/ offset \in {0, Len(text)}
    \/ text[offset] = "\n"
    \/ results # << >> /\ Last(results).cmd = "DELAY "

\* What strcpy copies to keys[] and values[] fits, string by string, and so does
\* their number, in every state of the loops that fill them (parser.c:207, 250).
FitsBuffers ==
  /\ Len(args) <= IF cmd = "WRITE " THEN 2 * MAX_WRITE_SIZE ELSE MAX_WRITE_SIZE
  /\ \A n \in DOMAIN args : Len(args[n]) < MAX_STRING_SIZE

\* The reading ends: at the end of a job file, and at a DISCONNECT of a client
\* or, without one, in the loop that client/main.c:131 warns of.
ReachesEnd ==
  <>[](\/ at = "done"
       \/ program = "client" /\ at = "next" /\ offset = Len(text))

\* "Lê uma linha e retorna o comando correspondente": a command is read from
\* one line.
OneLine ==
  [][at # "next" /\ at' = "next" =>
       \A n \in from + 1 .. offset' - 1 : text[n] # "\n"]_vars

-----------------------------------------------------------------------------
(* The inductive invariant. *)

Room == IF cmd = "WRITE " THEN 2 * MAX_WRITE_SIZE ELSE MAX_WRITE_SIZE

\* What each place knows: before the list there is no argument, without read_uint
\* no number, pairs are written, and a string that is being read has room in its buffer and in keys[].
Placed ==
  /\ at \in {"list", "pair", "number"} => args = << >>
  /\ at \in {"end", "list", "pair", "string", "pairs", "close"} => number = 0
  /\ at \notin {"next", "cleanup", "cleanup twice", "done"} => cmd # ""
  /\ at = "pairs" => cmd = "WRITE "
  /\ at = "string" => offset - start \in 0 .. MAX_STRING_SIZE /\ Len(args) < Room

IInv == TypeOK /\ InSync /\ FitsBuffers /\ Placed

=============================================================================
