---------------------------- MODULE CommandLines ----------------------------
(***************************************************************************)
(* What the reading of commands promises: a line that is as it should be   *)
(* is one command, the one it says, when the reading gets to its start.  A *)
(* line that is not may give any result and take what follows it along.    *)
(***************************************************************************)
EXTENDS Integers, SequencesExt

CONSTANT
  Meaning      \* Meaning[p][line], the result of a line that is as it should
               \* be, for program p

VARIABLES
  program,     \* which of the two programs reads; never changes
  text,        \* what is read; never changes
  read,        \* how much of it the commands so far have taken
  results      \* their results

vars == <<program, text, read, results>>

Init == read = 0 /\ results = << >>

NextLine ==
  SubSeq(text, read + 1,
         Min({n \in read + 1 .. Len(text) : text[n] = "\n" \/ n = Len(text)}))

ReadLine ==
  /\ read < Len(text)
  /\ read' \in read + 1 .. Len(text)
  /\ Len(results') = Len(results) + 1
  /\ Front(results') = results
  /\ NextLine \in DOMAIN Meaning[program] =>
       /\ read' = read + Len(NextLine)
       /\ Last(results') = Meaning[program][NextLine]
  /\ UNCHANGED <<program, text>>

Spec == Init /\ [][ReadLine]_vars

=============================================================================
