--------------------------- MODULE SequentialKVS ---------------------------
(***************************************************************************)
(* The program of exercise 2, and of exercise 1 but for BACKUP: one        *)
(* process runs the job files of a directory one after the other, and      *)
(* forks a child for every BACKUP without ever waiting for one.            *)
(*                                                                         *)
(* Sources: src/SO-Parte1/grupo5-ex2/main.c, operations.c and kvs.c, and   *)
(* their counterparts in grupo5-ex1.                                       *)
(*                                                                         *)
(* One step is one command: only the children run beside the process, and  *)
(* they have its table as it was at the fork.                              *)
(***************************************************************************)
EXTENDS KVTable, SequencesExt

CONSTANTS
  File,          \* the entries of the directory whose name has ".job" in it
  JobSets,       \* the contents they may have
  ForkMayFail,   \* whether fork() may return -1
  NoFile         \* the job file between two calls of process_job_file

Op == {"WRITE", "READ", "DELETE", "SHOW", "WAIT", "BACKUP", "INVALID"}

Cmd == [op : Op, pairs : Seq([key : Key, value : Value \cup {NULL}])]

ASSUME SequentialAssumption ==
  /\ IsFiniteSet(File)
  /\ JobSets \subseteq [File -> Seq(Cmd)]
  /\ \A J \in JobSets, f \in File : \A n \in DOMAIN J[f] :
       J[f][n].op = "WRITE" =>
         \A j \in DOMAIN J[f][n].pairs : J[f][n].pairs[j].value \in Value
  /\ ForkMayFail \in BOOLEAN
  /\ NoFile \notin File

VARIABLES
  table,         \* kvs_table
  files,         \* the commands of each job file; never changes
  entries,       \* what readdir has not returned
  file,          \* the job file of process_job_file
  offset,        \* offset[f], commands read so far from file f
  out,           \* out[f], what was written to the .out file of f
  num_backups,   \* backups of the job file so far
  running,       \* the children writing a backup, with their snapshot
  backups,       \* the .bck files
  main           \* whether main still scans the directory

scan == <<entries, main>>
vars == <<table, files, scan, file, offset, out, num_backups, running, backups>>

Init ==
  /\ table = create_hash_table
  /\ files \in JobSets
  /\ entries = File
  /\ file = NoFile
  /\ offset = [f \in File |-> 0]
  /\ out = [f \in File |-> << >>]
  /\ num_backups = 0
  /\ running = {}
  /\ backups = {}
  /\ main = "scan"

-----------------------------------------------------------------------------
(* process_job_directory *)

\* readdir returns the entries in an order of its own.
NextEntry(f) ==
  /\ file = NoFile
  /\ f \in entries
  /\ entries' = entries \ {f}
  /\ file' = f
  /\ num_backups' = 0
  /\ UNCHANGED <<table, files, offset, out, running, backups, main>>

\* main frees the table, which nobody reads any more, and returns, whatever
\* children there are.
Terminate ==
  /\ main = "scan"
  /\ file = NoFile
  /\ entries = {}
  /\ main' = "exit"
  /\ UNCHANGED <<table, files, entries, file, offset, out, num_backups, running,
                 backups>>

-----------------------------------------------------------------------------
(* process_job_file, and the commands of operations.c. *)

Reads(op) ==
  /\ file # NoFile
  /\ offset[file] < Len(files[file])
  /\ files[file][offset[file] + 1].op = op
  /\ offset' = [offset EXCEPT ![file] = @ + 1]
  /\ UNCHANGED <<files, scan, file>>

pairs == files[file][offset[file] + 1].pairs

Prints(answers) ==
  out' = [out EXCEPT ![file] =
            @ \o [j \in DOMAIN answers |-> [at |-> offset[file] + 1,
                                            key |-> answers[j].key,
                                            value |-> answers[j].value]]]

\* What a loop over the pairs does to one of them.
Apply(op, ht, p) ==
  IF op = "WRITE" THEN write_pair(ht, p.key, p.value) ELSE delete_pair(ht, p.key)

\* The table after each pair of a loop.
Tables(op, ps) ==
  LET ht[n \in 0 .. Len(ps)] ==
        IF n = 0 THEN table ELSE Apply(op, ht[n - 1], ps[n])
  IN  ht

\* Slip: the pairs are written from the last to the first.
SlipBackwards ==
  /\ Reads("WRITE")
  /\ table' = Tables("WRITE", Reverse(pairs))[Len(pairs)]
  /\ UNCHANGED <<out, num_backups, running, backups>>

kvs_write ==
  /\ Reads("WRITE")
  /\ table' = Tables("WRITE", pairs)[Len(pairs)]
  /\ UNCHANGED <<out, num_backups, running, backups>>

Answer(key, value) == [key |-> key, value |-> value]

\* Slip: the key is printed for the value.
SlipPrintsKey ==
  /\ Reads("READ")
  /\ Prints([j \in DOMAIN pairs |-> Answer(pairs[j].key, pairs[j].key)])
  /\ UNCHANGED <<table, num_backups, running, backups>>

\* KVSERROR is the NULL of a key that is not there.
kvs_read ==
  /\ Reads("READ")
  /\ Prints([j \in DOMAIN pairs |-> Answer(pairs[j].key, read_pair(table, pairs[j].key))])
  /\ UNCHANGED <<table, num_backups, running, backups>>

\* What the loop has printed after each pair: KVSMISSING, also for a key that the
\* command has just deleted.
Misses(ps) ==
  LET ht == Tables("DELETE", ps)
      missed[n \in 0 .. Len(ps)] ==
        IF n = 0 THEN << >>
        ELSE IF read_pair(ht[n - 1], ps[n].key) = NULL
             THEN Append(missed[n - 1], Answer(ps[n].key, NULL))
             ELSE missed[n - 1]
  IN  missed

kvs_delete ==
  /\ Reads("DELETE")
  /\ table' = Tables("DELETE", pairs)[Len(pairs)]
  /\ Prints(Misses(pairs)[Len(pairs)])
  /\ UNCHANGED <<num_backups, running, backups>>

\* The chains from slot 0 up, each from its head.
Nodes(ht) == FlattenSeq([n \in 1 .. TABLE_SIZE |-> ht[n - 1]])

kvs_show ==
  /\ Reads("SHOW")
  /\ Prints(Nodes(table))
  /\ UNCHANGED <<table, num_backups, running, backups>>

\* Sleeps, prints the help or complains.
Skip ==
  /\ Reads("WAIT") \/ Reads("INVALID")
  /\ UNCHANGED <<table, out, num_backups, running, backups>>

\* active_backups is compared with max_backups, and nothing comes of it.
Fork ==
  /\ Reads("BACKUP")
  /\ num_backups' = num_backups + 1
  /\ running' = running \cup {[file |-> file, n |-> num_backups', snapshot |-> table]}
  /\ UNCHANGED <<table, out, backups>>

\* The branch of the parent, for a pid of -1.
ForkFails ==
  /\ ForkMayFail
  /\ Reads("BACKUP")
  /\ num_backups' = num_backups + 1
  /\ UNCHANGED <<table, out, running, backups>>

\* Slip: the last command of the file is the end of it.
SlipStopsEarly ==
  /\ file # NoFile
  /\ offset[file] + 1 >= Len(files[file])
  /\ file' = NoFile
  /\ UNCHANGED <<table, files, scan, offset, out, num_backups, running, backups>>

EndOfFile ==
  /\ file # NoFile
  /\ offset[file] = Len(files[file])
  /\ file' = NoFile
  /\ UNCHANGED <<table, files, scan, offset, out, num_backups, running, backups>>

Contents(ht) == {<<node.key, node.value>> : node \in Range(Nodes(ht))}

BackupOf(c) == [file |-> c.file, n |-> c.n, contents |-> Contents(c.snapshot)]

\* A child writes its .bck file and exits; nobody waits for it.
kvs_backup(c) ==
  /\ running' = running \ {c}
  /\ backups' = backups \cup {BackupOf(c)}
  /\ UNCHANGED <<table, files, scan, file, offset, out, num_backups>>

-----------------------------------------------------------------------------

Process ==
  \/ \E f \in File : NextEntry(f)
  \/ kvs_write \/ kvs_read \/ kvs_delete \/ kvs_show \/ Skip
  \/ Fork \/ ForkFails \/ EndOfFile \/ Terminate

Child == \E c \in running : kvs_backup(c)

Ended == main = "exit" /\ running = {} /\ UNCHANGED vars

Next == Process \/ Child \/ Ended

\* The process and its children run on, also when their parent has returned.
Spec == Init /\ [][Next]_vars /\ WF_vars(Process) /\ WF_vars(Child)

-----------------------------------------------------------------------------
(* Properties. *)

Entry == [at : Nat, key : Key, value : Value \cup {NULL}]

\* Every variable has the values its declaration in the code gives it.
TypeOK ==
  /\ table \in Table
  /\ files \in [File -> Seq(Cmd)]
  /\ entries \subseteq File
  /\ file \in File \cup {NoFile}
  /\ offset \in [File -> Nat]
  /\ out \in [File -> Seq(Entry)]
  /\ num_backups \in Nat
  /\ running \subseteq [file : File, n : Nat, snapshot : Table]
  /\ backups \subseteq [file : File, n : Nat, contents : SUBSET (Key \X Value)]
  /\ main \in {"scan", "exit"}

\* What the table holds, whatever its chains are.
store == [k \in Key |-> read_pair(table, k)]

\* A backup counts from the fork of its child.
AllBackups == backups \cup {BackupOf(c) : c \in running}

Abstract == INSTANCE AtomicKVS WITH
  ShowPromised   <- TRUE,
  BackupsMayFail <- ForkMayFail,
  done           <- offset,
  backups        <- AllBackups

\* Every loop over the pairs of a command amounts to the command at once: the
\* last pair of a WRITE wins, a DELETE reports a key it has just deleted, SHOW
\* prints every pair once, and the n-th backup of a file holds the store of its
\* command, however late its child writes it (operations.c:42-124).
RefinesAtomic == Abstract!Spec

\* Every job file is run to its end and every child that was forked writes its
\* file, though main ends before them (main.c:107, "impede que o filho continue
\* a trabalhar").
EverythingWritten ==
  <>[](/\ main = "exit"
       /\ running = {}
       /\ \A f \in File : offset[f] = Len(files[f]))

-----------------------------------------------------------------------------
(* The inductive invariant. *)

\* No chain has a key twice, and each key is in the chain that hash() names.
OnceEach(ht) ==
  \A s \in Slot : \A m, n \in DOMAIN ht[s] :
    /\ hash(ht[s][m].key) = s
    /\ ht[s][m].key = ht[s][n].key => m = n

\* So in the table and in the copies that the children have.
ChainsWellFormed ==
  OnceEach(table) /\ \A c \in running : OnceEach(c.snapshot)

\* How many of the first n commands of f are BACKUPs.
BackupsUpTo(f, n) == Cardinality({j \in 1 .. n : files[f][j].op = "BACKUP"})

\* num_backups counts the BACKUPs of the file so far; a file that the scan has
\* not come to is not read.
Counted ==
  /\ file # NoFile => num_backups = BackupsUpTo(file, offset[file])
  /\ \A f \in entries : f # file /\ offset[f] = 0

IInv == TypeOK /\ files \in JobSets /\ ChainsWellFormed /\ Counted

=============================================================================
