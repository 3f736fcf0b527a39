----------------------------- MODULE AtomicKVS -----------------------------
(***************************************************************************)
(* What the key-value store promises to its job files: every command takes *)
(* effect at one instant, on a store that is just a map from keys to       *)
(* values, and the commands of one file take effect in the order of the    *)
(* file.  A command may print its answers in any order.                    *)
(*                                                                         *)
(* With ShowPromised = FALSE nothing is promised about what SHOW prints,   *)
(* which is all the unlocked SHOW of the Part 2 server can offer.          *)
(***************************************************************************)
EXTENDS Integers, Sequences, FiniteSets

CONSTANTS
  Key,           \* the keys
  NULL,          \* the value of a key that is not stored
  File,          \* the job files
  ShowPromised,  \* whether SHOW prints the store of one instant
  BackupsMayFail \* whether BACKUP may write no file at all

VARIABLES
  files,     \* files[f], the commands of job file f; never changes
  done,      \* done[f], how many of them took effect
  store,     \* store[k], the value of key k
  out,       \* out[f], what the commands of f printed
  backups    \* the backups taken: job file, number within it, contents

vars == <<files, done, store, out, backups>>

Init ==
  /\ done = [f \in File |-> 0]
  /\ store = [k \in Key |-> NULL]
  /\ out = [f \in File |-> << >>]
  /\ backups = {}

-----------------------------------------------------------------------------

Present == {k \in Key : store[k] # NULL}

Permutations(n) ==
  {p \in [1 .. n -> 1 .. n] : \A j, l \in 1 .. n : p[j] = p[l] => j = l}

\* s, in any order.
Arrangements(s) ==
  {[j \in DOMAIN s |-> s[p[j]]] : p \in Permutations(Len(s))}

\* The next command of f, being of the given kind, takes effect.
Takes(f, op) ==
  /\ done[f] < Len(files[f])
  /\ files[f][done[f] + 1].op = op
  /\ done' = [done EXCEPT ![f] = @ + 1]
  /\ UNCHANGED files

Pairs(f) == files[f][done[f] + 1].pairs

Answer(f, key, value) == [at |-> done[f] + 1, key |-> key, value |-> value]

Prints(f, answers) ==
  \E a \in Arrangements(answers) : out' = [out EXCEPT ![f] = @ \o a]

-----------------------------------------------------------------------------

\* The last pair that names a key gives its value.
Written(pairs, k) ==
  LET At == {j \in DOMAIN pairs : pairs[j].key = k}
  IN  pairs[CHOOSE j \in At : \A l \in At : l <= j].value

Write(f) ==
  /\ Takes(f, "WRITE")
  /\ store' = [k \in Key |->
                 IF \E j \in DOMAIN Pairs(f) : Pairs(f)[j].key = k
                 THEN Written(Pairs(f), k) ELSE store[k]]
  /\ UNCHANGED <<out, backups>>

Read(f) ==
  /\ Takes(f, "READ")
  /\ Prints(f, [j \in DOMAIN Pairs(f) |->
                  Answer(f, Pairs(f)[j].key, store[Pairs(f)[j].key])])
  /\ UNCHANGED <<store, backups>>

\* A key is reported missing once for every time it is not there to delete.
Missing(pairs, j) ==
  \/ store[pairs[j].key] = NULL
  \/ \E l \in 1 .. j - 1 : pairs[l].key = pairs[j].key

Delete(f) ==
  /\ Takes(f, "DELETE")
  /\ LET gone == {j \in DOMAIN Pairs(f) : Missing(Pairs(f), j)} IN
     \E at \in [1 .. Cardinality(gone) -> gone] :
       /\ \A j, l \in DOMAIN at : at[j] = at[l] => j = l
       /\ out' = [out EXCEPT ![f] =
                    @ \o [j \in DOMAIN at |->
                            Answer(f, Pairs(f)[at[j]].key, NULL)]]
  /\ store' = [k \in Key |->
                 IF \E j \in DOMAIN Pairs(f) : Pairs(f)[j].key = k
                 THEN NULL ELSE store[k]]
  /\ UNCHANGED backups

\* Some entries for the next command of f, whatever they say.
PrintsAnything(f) ==
  /\ out' = [out EXCEPT ![f] = out'[f]]
  /\ Len(out'[f]) >= Len(out[f])
  /\ \A n \in DOMAIN out'[f] :
       IF n <= Len(out[f]) THEN out'[f][n] = out[f][n]
                           ELSE out'[f][n].at = done[f] + 1

Show(f) ==
  /\ Takes(f, "SHOW")
  /\ IF ShowPromised
     THEN \E at \in [1 .. Cardinality(Present) -> Present] :
            /\ \A j, l \in DOMAIN at : at[j] = at[l] => j = l
            /\ out' = [out EXCEPT ![f] =
                         @ \o [j \in DOMAIN at |->
                                 Answer(f, at[j], store[at[j]])]]
     ELSE PrintsAnything(f)
  /\ UNCHANGED <<store, backups>>

\* The n-th BACKUP of f writes the store of its instant, if it writes a file.
Backup(f) ==
  /\ Takes(f, "BACKUP")
  /\ LET n == Cardinality({j \in 1 .. done[f] + 1 : files[f][j].op = "BACKUP"}) IN
     \/ backups' = backups \cup
          {[file |-> f, n |-> n, contents |-> {<<k, store[k]>> : k \in Present}]}
     \/ BackupsMayFail /\ UNCHANGED backups
  /\ UNCHANGED <<store, out>>

\* WAIT, HELP, empty lines, comments and commands that do not parse.
Skip(f) ==
  /\ \E op \in {"WAIT", "INVALID"} : Takes(f, op)
  /\ UNCHANGED <<store, out, backups>>

Next ==
  \E f \in File :
    Write(f) \/ Read(f) \/ Delete(f) \/ Show(f) \/ Backup(f) \/ Skip(f)

Spec == Init /\ [][Next]_vars

=============================================================================
