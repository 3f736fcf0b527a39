------------------------- MODULE KVStoreRefinement -------------------------
(***************************************************************************)
(* The engine implements AtomicKVS: a command on keys takes effect when it *)
(* gets its last lock, SHOW when it ends, BACKUP at fork.  From its effect *)
(* to its end a command on keys has pairs yet to apply: the abstract store *)
(* is the table with those applied, the abstract output what was printed   *)
(* with what they will print.  What a SHOW prints counts when it ends.     *)
(***************************************************************************)
EXTENDS KVStoreInvariant

\* The pairs of t that are not applied yet.
Pending(t) == IF pc[t] = "apply" THEN i[t] .. Len(Pairs(t)) ELSE {}

\* What k will be worth once t is through with it.
ChangedLater(t, k) ==
  Mutates(t) /\ \E j \in Pending(t) : Pairs(t)[j].key = k

LaterValue(t, k) ==
  IF Opcode(t) = "DELETE" THEN NULL
  ELSE LET At == {j \in Pending(t) : Pairs(t)[j].key = k}
       IN  Pairs(t)[CHOOSE j \in At : \A l \in At : l <= j].value

AbstractStore ==
  [k \in Key |->
     IF \E t \in Thread : ChangedLater(t, k)
     THEN LaterValue(CHOOSE t \in Thread : ChangedLater(t, k), k)
     ELSE read_pair(table, k)]

-----------------------------------------------------------------------------
(* What the thread has yet to print for a command that took effect. *)

EntryOf(t, key, value) ==
  [at |-> offset[file[t]], key |-> key, value |-> value]

ReadsLater(t) ==
  [j \in 1 .. Len(Pairs(t)) - i[t] + 1 |->
     LET k == Pairs(t)[i[t] + j - 1].key
     IN  EntryOf(t, k, read_pair(table, k))]

\* DELETE reports the keys that are missing now or were deleted just before.
Gone(t) ==
  {j \in Pending(t) :
     \/ read_pair(table, Pairs(t)[j].key) = NULL
     \/ \E l \in i[t] .. j - 1 : Pairs(t)[l].key = Pairs(t)[j].key}

\* The n-th smallest number of a set.
Nth(S, n) == CHOOSE j \in S : Cardinality({l \in S : l <= j}) = n

MissesLater(t) ==
  [n \in 1 .. Cardinality(Gone(t)) |->
     EntryOf(t, Pairs(t)[Nth(Gone(t), n)].key, NULL)]

PrintsLater(t) ==
  CASE pc[t] = "apply" /\ Opcode(t) = "READ"   -> ReadsLater(t)
    [] pc[t] = "apply" /\ Opcode(t) = "DELETE" -> MissesLater(t)
    [] OTHER                                   -> << >>

InShow == {"showlock", "showslot", "shownode"}

\* How many entries the commands before the current one of f printed.
Settled(f) ==
  CHOOSE n \in 0 .. Len(out[f]) :
    \A m \in DOMAIN out[f] : m <= n <=> out[f][m].at < offset[f]

OutOf(t) ==
  IF pc[t] \in InShow THEN SubSeq(out[file[t]], 1, Settled(file[t]))
                      ELSE out[file[t]] \o PrintsLater(t)

AbstractOut ==
  [f \in File |-> IF \E t \in Thread : file[t] = f
                  THEN OutOf(CHOOSE t \in Thread : file[t] = f)
                  ELSE out[f]]

-----------------------------------------------------------------------------

BeforeFork == {"backup", "wait", "rdlockall", "fork"}

\* The command was read from the file and has not taken effect.
NotYet(t) == pc[t] \in {"rdlock", "lock"} \cup InShow \cup BeforeFork

AbstractDone ==
  [f \in File |-> IF \E t \in Thread : file[t] = f /\ NotYet(t)
                  THEN offset[f] - 1 ELSE offset[f]]

\* The file that a child writes, whatever happens.
FileOf(c) == [file |-> c.file, n |-> c.n, contents |-> Contents(c.snapshot)]

AbstractBackups == backups \cup {FileOf(c) : c \in running}

Abstract == INSTANCE AtomicKVS WITH
  ShowPromised   <- UseRwlock,
  BackupsMayFail <- ForkMayFail,
  done           <- AbstractDone,
  store          <- AbstractStore,
  out            <- AbstractOut,
  backups        <- AbstractBackups

(***************************************************************************)
(* Every command of every job file is atomic, as the assignment of Part 1  *)
(* asks for: the concurrent engine has no behaviour, other than what the   *)
(* unlocked SHOW prints, that the sequential store of AtomicKVS lacks.     *)
(***************************************************************************)
RefinesAtomic == Abstract!Spec

-----------------------------------------------------------------------------
(* What the refinement rests on, besides the locks. *)

\* The command that t is at.
Current(t) == files[file[t]][offset[file[t]]]

IssuedOf(t) ==
  /\ pc[t] \notin Idle \cup {"command"} => offset[file[t]] > 0
  /\ pc[t] \in {"rdlock", "lock", "apply"} =>
       /\ Opcode(t) = Current(t).op
       /\ Pairs(t) = insertionSort(Current(t).pairs)
  /\ pc[t] \in InShow => Current(t).op = "SHOW"
  /\ pc[t] \in BeforeFork => Current(t).op = "BACKUP"

\* A thread does what its job file says next; a file not taken is not read.
Issued ==
  /\ \A t \in Thread : IssuedOf(t)
  /\ \A f \in File : f >= current_index => offset[f] = 0

\* How many of the first n commands of f are BACKUPs.
BackupsUpTo(f, n) == Cardinality({j \in 1 .. n : files[f][j].op = "BACKUP"})

\* total_backups counts the BACKUPs of the file that came to their fork.
CountedOf(t) ==
  file[t] # NoFile =>
    BackupsUpTo(file[t], offset[file[t]]) =
      total_backups[t] + (IF pc[t] \in BeforeFork THEN 1 ELSE 0)

Counted == \A t \in Thread : CountedOf(t)

\* What is printed is in the order of the commands.
Printed ==
  \A f \in File : \A m, n \in DOMAIN out[f] :
    /\ out[f][m].at <= offset[f]
    /\ m <= n => out[f][m].at <= out[f][n].at

\* The nodes that a SHOW with the lock has passed.
Passed(t, k) ==
  \/ hash(k) < i[t]
  \/ /\ pc[t] = "shownode" /\ hash(k) = i[t]
     /\ cursor[t] = NULL \/
          Position(table[i[t]], k) < Position(table[i[t]], cursor[t])

Shown(t) == {n \in DOMAIN out[file[t]] : out[file[t]][n].at = offset[file[t]]}

\* A SHOW with the lock has printed the nodes it passed, each of them once.
ShowsOf(t) ==
  UseRwlock /\ pc[t] \in InShow =>
    LET printed == out[file[t]] IN
    /\ pc[t] = "shownode" =>
         cursor[t] = NULL \/ InChain(table[i[t]], cursor[t])
    /\ \A n \in Shown(t) :
         /\ printed[n].key \in Key /\ printed[n].value # NULL
         /\ printed[n].value = read_pair(table, printed[n].key)
         /\ Passed(t, printed[n].key)
         /\ \A m \in Shown(t) : printed[m].key = printed[n].key => m = n
    /\ \A k \in Key :
         read_pair(table, k) # NULL /\ Passed(t, k) =>
           \E n \in Shown(t) : printed[n].key = k

ShowsRight == \A t \in Thread : ShowsOf(t)

=============================================================================
