------------------------------ MODULE KVStore ------------------------------
(***************************************************************************)
(* The storage engine at work: the threads that main creates take the job  *)
(* files of a directory from a shared list (thread_process_files), run     *)
(* their commands (process_job_file) on the shared hash table under its    *)
(* reader-writer locks (operations.c), and fork one child per BACKUP.      *)
(*                                                                         *)
(* Sources: src/SOParte2/src/server/main.c and operations.c, the server of *)
(* Part 2, and src/SO-Parte1/grupo5-ex3/, the engine of Part 1.  They      *)
(* differ in two places, the constants UseRwlock and ServesClients.        *)
(*                                                                         *)
(* One step is one lock operation, one access to the table or one system   *)
(* call, with the thread-local work around it.                             *)
(***************************************************************************)
EXTENDS KVTable, RWLock

CONSTANTS
  count,          \* data->count, the number of job files found
  JobSets,        \* the contents the job files may have
  MaxBackups,     \* max_backups, a command line argument
  UseRwlock,      \* whether SHOW locks: TRUE in Part 1, FALSE in Part 2
  ServesClients,  \* whether main also joins the session managers: Part 2
  ForkMayFail,    \* whether fork() may return -1
  FREED,          \* a pointer to a node that was freed
  GARBAGE,        \* what is read through such a pointer
  NoFile          \* the job file of a thread that processes none

File == 0 .. count - 1

KeyOps == {"WRITE", "READ", "DELETE"}
Op     == KeyOps \cup {"SHOW", "WAIT", "BACKUP", "INVALID"}

Pair == [key : Key, value : Value \cup {NULL}]

\* A parsed command; only WRITE gives its keys values.
Cmd == [op : Op, pairs : Seq(Pair)]

ASSUME StoreAssumption ==
  /\ count \in Nat
  /\ JobSets \subseteq [File -> Seq(Cmd)]
  /\ \A J \in JobSets, f \in File : \A n \in DOMAIN J[f] :
       /\ J[f][n].op \in KeyOps => J[f][n].pairs # << >>
       /\ J[f][n].op = "WRITE" =>
            \A j \in DOMAIN J[f][n].pairs : J[f][n].pairs[j].value \in Value
  /\ MaxBackups \in Int
  /\ {UseRwlock, ServesClients, ForkMayFail} \subseteq BOOLEAN
  /\ FREED \notin Key \cup {NULL}
  /\ GARBAGE \notin Value \cup {NULL}
  /\ NoFile \notin Nat

VARIABLES
  table,           \* kvs_table
  rwlock,          \* data->rwlock, the lock of the whole table
  rwlock_array,    \* data->rwlock_array, one lock per chain
  files,           \* the commands of each job file; never changes
  offset,          \* offset[f], commands read so far from file f
  out,             \* out[f], what was written to the .out file of f
  current_index,   \* data->current_index, the next job file to take
  file_mutex,      \* who holds data->file_mutex
  backup_mutex,    \* who holds data->backup_mutex
  active_backups,  \* data->active_backups
  running,         \* the children writing a backup, with their snapshot
  zombies,         \* how many children exited and were not waited for
  backups,         \* the .bck files
  pc,              \* where each thread is
  file,            \* the job file it processes
  args,            \* its current command, arguments sorted
  i,               \* its loop counter
  hashed,          \* the chains whose locks it holds for its command
  cursor,          \* keyNode of kvs_show: a key, NULL or FREED
  total_backups,   \* backups taken so far for its job file
  main,            \* where the main thread is
  crashed          \* whether the process died of an invalid access

locks   == <<rwlock, rwlock_array>>
jobs    == <<files, offset, current_index, file_mutex>>
backing == <<backup_mutex, active_backups, running, zombies, backups>>
local   == <<file, args, i, hashed, cursor, total_backups>>
process == <<main, crashed>>

vars == <<table, locks, out, jobs, backing, pc, local, process>>

NoCmd == [op |-> "INVALID", pairs |-> << >>]

Init ==
  /\ table = create_hash_table
  /\ rwlock = Unlocked
  /\ rwlock_array = [s \in Slot |-> Unlocked]
  /\ files \in JobSets
  /\ offset = [f \in File |-> 0]
  /\ out = [f \in File |-> << >>]
  /\ current_index = 0
  /\ file_mutex = NoThread
  /\ backup_mutex = NoThread
  /\ active_backups = 0
  /\ running = {}
  /\ zombies = 0
  /\ backups = {}
  /\ pc = [t \in Thread |-> "fetch"]
  /\ file = [t \in Thread |-> NoFile]
  /\ args = [t \in Thread |-> NoCmd]
  /\ i = [t \in Thread |-> 0]
  /\ hashed = [t \in Thread |-> {}]
  /\ cursor = [t \in Thread |-> NULL]
  /\ total_backups = [t \in Thread |-> 0]
  /\ main = "join"
  /\ crashed = FALSE

GoTo(t, label) == pc' = [pc EXCEPT ![t] = label]

-----------------------------------------------------------------------------
(* thread_process_files: the list of job files. *)

\* The definitions named Slip... are what a plausible bug would make of the
\* action that follows them; each must break a property.
SlipReadsPastEnd(t) ==
  /\ pc[t] = "fetch"
  /\ file_mutex = NoThread
  /\ file_mutex' = t
  /\ GoTo(t, IF current_index > count THEN "nofile" ELSE "take")
  /\ UNCHANGED <<table, locks, out, files, offset, current_index, backing,
                 local, process>>

LockFiles(t) ==
  /\ pc[t] = "fetch"
  /\ file_mutex = NoThread
  /\ file_mutex' = t
  /\ GoTo(t, IF current_index >= count THEN "nofile" ELSE "take")
  /\ UNCHANGED <<table, locks, out, files, offset, current_index, backing,
                 local, process>>

SlipKeepsMutex(t) ==
  /\ pc[t] = "nofile"
  /\ GoTo(t, "done")
  /\ UNCHANGED <<table, locks, out, jobs, backing, local, process>>

NoMoreFiles(t) ==
  /\ pc[t] = "nofile"
  /\ file_mutex' = NoThread
  /\ GoTo(t, "done")
  /\ UNCHANGED <<table, locks, out, files, offset, current_index, backing,
                 local, process>>

SlipKeepsIndex(t) ==
  /\ pc[t] = "take"
  /\ file' = [file EXCEPT ![t] = current_index]
  /\ file_mutex' = NoThread
  /\ total_backups' = [total_backups EXCEPT ![t] = 0]
  /\ GoTo(t, "command")
  /\ UNCHANGED <<table, locks, out, files, offset, current_index, backing,
                 args, i, hashed, cursor, process>>

\* input_file = data->files[data->current_index++], then process_job_file.
TakeFile(t) ==
  /\ pc[t] = "take"
  /\ file' = [file EXCEPT ![t] = current_index]
  /\ current_index' = current_index + 1
  /\ file_mutex' = NoThread
  /\ total_backups' = [total_backups EXCEPT ![t] = 0]
  /\ GoTo(t, "command")
  /\ UNCHANGED <<table, locks, out, files, offset, backing, args, i, hashed,
                 cursor, process>>

-----------------------------------------------------------------------------
(* process_job_file: the command loop. *)

AtCommand(t, ops) ==
  /\ pc[t] = "command"
  /\ offset[file[t]] < Len(files[file[t]])
  /\ files[file[t]][offset[file[t]] + 1].op \in ops

Command(t) == files[file[t]][offset[file[t]] + 1]

ReadsCommand(t) == offset' = [offset EXCEPT ![file[t]] = @ + 1]

SlipUnsorted(t) ==
  /\ AtCommand(t, KeyOps)
  /\ ReadsCommand(t)
  /\ args' = [args EXCEPT ![t] = Command(t)]
  /\ i' = [i EXCEPT ![t] = 1]
  /\ hashed' = [hashed EXCEPT ![t] = {}]
  /\ GoTo(t, IF Command(t).op = "READ" THEN "lock" ELSE "rdlock")
  /\ UNCHANGED <<table, locks, out, files, current_index, file_mutex, backing,
                 file, cursor, total_backups, process>>

SlipForgetsTable(t) ==
  /\ AtCommand(t, KeyOps)
  /\ ReadsCommand(t)
  /\ args' = [args EXCEPT ![t] = [op |-> Command(t).op,
                                  pairs |-> insertionSort(Command(t).pairs)]]
  /\ i' = [i EXCEPT ![t] = 1]
  /\ hashed' = [hashed EXCEPT ![t] = {}]
  /\ GoTo(t, "lock")
  /\ UNCHANGED <<table, locks, out, files, current_index, file_mutex, backing,
                 file, cursor, total_backups, process>>

\* The arguments of the three commands on keys are sorted first.
StartKeyCommand(t) ==
  /\ AtCommand(t, KeyOps)
  /\ ReadsCommand(t)
  /\ args' = [args EXCEPT ![t] = [op |-> Command(t).op,
                                  pairs |-> insertionSort(Command(t).pairs)]]
  /\ i' = [i EXCEPT ![t] = 1]
  /\ hashed' = [hashed EXCEPT ![t] = {}]
  /\ GoTo(t, IF Command(t).op = "READ" THEN "lock" ELSE "rdlock")
  /\ UNCHANGED <<table, locks, out, files, current_index, file_mutex, backing,
                 file, cursor, total_backups, process>>

StartShow(t) ==
  /\ AtCommand(t, {"SHOW"})
  /\ ReadsCommand(t)
  /\ args' = [args EXCEPT ![t] = Command(t)]
  /\ i' = [i EXCEPT ![t] = 0]
  /\ GoTo(t, IF UseRwlock THEN "showlock" ELSE "showslot")
  /\ UNCHANGED <<table, locks, out, files, current_index, file_mutex, backing,
                 file, hashed, cursor, total_backups, process>>

StartBackup(t) ==
  /\ AtCommand(t, {"BACKUP"})
  /\ ReadsCommand(t)
  /\ args' = [args EXCEPT ![t] = Command(t)]
  /\ i' = [i EXCEPT ![t] = 0]
  /\ GoTo(t, "backup")
  /\ UNCHANGED <<table, locks, out, files, current_index, file_mutex, backing,
                 file, hashed, cursor, total_backups, process>>

\* WAIT sleeps; a command that does not parse is reported and skipped.
SkipCommand(t) ==
  /\ AtCommand(t, {"WAIT", "INVALID"})
  /\ ReadsCommand(t)
  /\ UNCHANGED <<table, locks, out, files, current_index, file_mutex, backing,
                 pc, local, process>>

SlipDropsLast(t) ==
  /\ pc[t] = "command"
  /\ offset[file[t]] >= Len(files[file[t]]) - 1
  /\ file' = [file EXCEPT ![t] = NoFile]
  /\ GoTo(t, "fetch")
  /\ UNCHANGED <<table, locks, out, jobs, backing, args, i, hashed, cursor,
                 total_backups, process>>

EndOfFile(t) ==
  /\ pc[t] = "command"
  /\ offset[file[t]] = Len(files[file[t]])
  /\ file' = [file EXCEPT ![t] = NoFile]
  /\ GoTo(t, "fetch")
  /\ UNCHANGED <<table, locks, out, jobs, backing, args, i, hashed, cursor,
                 total_backups, process>>

-----------------------------------------------------------------------------
(* kvs_write, kvs_read and kvs_delete: locks, pairs, unlocks. *)

Pairs(t)   == args[t].pairs
Opcode(t)     == args[t].op
PairKey(t) == Pairs(t)[i[t]].key
Mutates(t) == Opcode(t) \in {"WRITE", "DELETE"}

\* The end of one turn of a loop over the pairs: the next pair, or the label
\* after the loop.
NextPair(t, after) ==
  IF i[t] = Len(Pairs(t))
  THEN /\ i' = [i EXCEPT ![t] = 1]
       /\ GoTo(t, after)
  ELSE /\ i' = [i EXCEPT ![t] = @ + 1]
       /\ UNCHANGED pc

\* WRITE and DELETE keep SHOW out.
RdLockTable(t) ==
  /\ pc[t] = "rdlock"
  /\ CanRead(rwlock)
  /\ rwlock' = ReadLocked(rwlock, t)
  /\ GoTo(t, "lock")
  /\ UNCHANGED <<table, rwlock_array, out, jobs, backing, local, process>>

SlipSharesDelete(t) ==
  LET s == hash(PairKey(t)) IN
  /\ pc[t] = "lock"
  /\ s \notin hashed[t]
  /\ IF Opcode(t) = "WRITE"
     THEN /\ CanWrite(rwlock_array[s])
          /\ rwlock_array' = [rwlock_array EXCEPT ![s] = WriteLocked(@, t)]
     ELSE /\ CanRead(rwlock_array[s])
          /\ rwlock_array' = [rwlock_array EXCEPT ![s] = ReadLocked(@, t)]
  /\ hashed' = [hashed EXCEPT ![t] = @ \cup {s}]
  /\ NextPair(t, "apply")
  /\ UNCHANGED <<table, rwlock, out, jobs, backing, file, args, cursor,
                 total_backups, process>>

LockSlot(t) ==
  LET s == hash(PairKey(t)) IN
  /\ pc[t] = "lock"
  /\ s \notin hashed[t]
  /\ IF Mutates(t)
     THEN /\ CanWrite(rwlock_array[s])
          /\ rwlock_array' = [rwlock_array EXCEPT ![s] = WriteLocked(@, t)]
     ELSE /\ CanRead(rwlock_array[s])
          /\ rwlock_array' = [rwlock_array EXCEPT ![s] = ReadLocked(@, t)]
  /\ hashed' = [hashed EXCEPT ![t] = @ \cup {s}]
  /\ NextPair(t, "apply")
  /\ UNCHANGED <<table, rwlock, out, jobs, backing, file, args, cursor,
                 total_backups, process>>

\* The lock of this chain was taken for an earlier key.
SkipSlot(t) ==
  /\ pc[t] = "lock"
  /\ hash(PairKey(t)) \in hashed[t]
  /\ NextPair(t, "apply")
  /\ UNCHANGED <<table, locks, out, jobs, backing, file, args, hashed, cursor,
                 total_backups, process>>

Applies(t, op) == pc[t] = "apply" /\ Opcode(t) = op

Prints(t, key, value) ==
  out' = [out EXCEPT ![file[t]] =
            Append(@, [at |-> offset[file[t]], key |-> key, value |-> value])]

WritePair(t) ==
  /\ Applies(t, "WRITE")
  /\ table' = write_pair(table, PairKey(t), Pairs(t)[i[t]].value)
  /\ NextPair(t, "unlock")
  /\ UNCHANGED <<locks, out, jobs, backing, file, args, hashed, cursor,
                 total_backups, process>>

\* Prints the value, or KVSERROR for NULL.
ReadPair(t) ==
  /\ Applies(t, "READ")
  /\ Prints(t, PairKey(t), read_pair(table, PairKey(t)))
  /\ NextPair(t, "unlock")
  /\ UNCHANGED <<table, locks, jobs, backing, file, args, hashed, cursor,
                 total_backups, process>>

\* Frees the node, under the eyes of any SHOW that stands on it, or prints
\* KVSMISSING.
DeletePair(t) ==
  /\ Applies(t, "DELETE")
  /\ IF read_pair(table, PairKey(t)) # NULL
     THEN /\ table' = delete_pair(table, PairKey(t))
          /\ cursor' = [u \in Thread |-> IF cursor[u] = PairKey(t)
                                         THEN FREED ELSE cursor[u]]
          /\ UNCHANGED out
     ELSE /\ Prints(t, PairKey(t), NULL)
          /\ UNCHANGED <<table, cursor>>
  /\ NextPair(t, "unlock")
  /\ UNCHANGED <<locks, jobs, backing, file, args, hashed, total_backups,
                 process>>

\* The locks of the chains are released in ascending order of the chains.
UnlockSlot(t) ==
  LET s == CHOOSE s \in hashed[t] : \A r \in hashed[t] : s <= r IN
  /\ pc[t] = "unlock"
  /\ rwlock_array' = [rwlock_array EXCEPT ![s] = Released(@, t)]
  /\ hashed' = [hashed EXCEPT ![t] = @ \ {s}]
  /\ IF hashed[t] = {s}
     THEN GoTo(t, IF Mutates(t) THEN "rdunlock" ELSE "command")
     ELSE UNCHANGED pc
  /\ UNCHANGED <<table, rwlock, out, jobs, backing, file, args, i, cursor,
                 total_backups, process>>

UnlockTable(t) ==
  /\ pc[t] = "rdunlock"
  /\ rwlock' = Released(rwlock, t)
  /\ GoTo(t, "command")
  /\ UNCHANGED <<table, rwlock_array, out, jobs, backing, local, process>>

-----------------------------------------------------------------------------
(* kvs_show: every chain from its head to its end. *)

ShowLock(t) ==
  /\ pc[t] = "showlock"
  /\ CanWrite(rwlock)
  /\ rwlock' = WriteLocked(rwlock, t)
  /\ GoTo(t, "showslot")
  /\ UNCHANGED <<table, rwlock_array, out, jobs, backing, local, process>>

ShowSlot(t) ==
  /\ pc[t] = "showslot"
  /\ i[t] < TABLE_SIZE
  /\ cursor' = [cursor EXCEPT ![t] = HeadOf(table[i[t]])]
  /\ GoTo(t, "shownode")
  /\ UNCHANGED <<table, locks, out, jobs, backing, file, args, i, hashed,
                 total_backups, process>>

ShowNode(t) ==
  /\ pc[t] = "shownode"
  /\ cursor[t] \in Key
  /\ Prints(t, cursor[t], read_pair(table, cursor[t]))
  /\ cursor' = [cursor EXCEPT ![t] = NextOf(table[hash(cursor[t])], cursor[t])]
  /\ UNCHANGED <<table, locks, jobs, backing, pc, file, args, i, hashed,
                 total_backups, process>>

ShowNextSlot(t) ==
  /\ pc[t] = "shownode"
  /\ cursor[t] = NULL
  /\ i' = [i EXCEPT ![t] = @ + 1]
  /\ GoTo(t, "showslot")
  /\ UNCHANGED <<table, locks, out, jobs, backing, file, args, hashed, cursor,
                 total_backups, process>>

ShowEnd(t) ==
  /\ pc[t] = "showslot"
  /\ i[t] = TABLE_SIZE
  /\ rwlock' = IF UseRwlock THEN Released(rwlock, t) ELSE rwlock
  /\ GoTo(t, "command")
  /\ UNCHANGED <<table, rwlock_array, out, jobs, backing, local, process>>

(***************************************************************************)
(* Without the lock, the node a SHOW stands on may be freed, or its value  *)
(* be replaced while it is printed.  The outcomes of these data races are  *)
(* choices: the process dies, or garbage is printed.  The memory of a      *)
(* freed node may have become any other node, so the walk goes on anywhere.*)
(***************************************************************************)
Races(t) ==
  \E u \in Thread \ {t} :
    pc[u] = "apply" /\ Mutates(u) /\ PairKey(u) = cursor[t]

ShowTorn(t) ==
  /\ pc[t] = "shownode"
  /\ cursor[t] \in Key
  /\ Races(t)
  /\ Prints(t, cursor[t], GARBAGE)
  /\ cursor' = [cursor EXCEPT ![t] = NextOf(table[hash(cursor[t])], cursor[t])]
  /\ UNCHANGED <<table, locks, jobs, backing, pc, file, args, i, hashed,
                 total_backups, process>>

ShowFreed(t) ==
  /\ pc[t] = "shownode"
  /\ cursor[t] = FREED
  /\ Prints(t, GARBAGE, GARBAGE)
  /\ \E k \in Key \cup {NULL} :
       /\ k \in Key => InChain(table[hash(k)], k)
       /\ cursor' = [cursor EXCEPT ![t] = k]
  /\ UNCHANGED <<table, locks, jobs, backing, pc, file, args, i, hashed,
                 total_backups, process>>

ShowCrash(t) ==
  /\ pc[t] = "shownode"
  /\ cursor[t] = FREED \/ Races(t)
  /\ crashed' = TRUE
  /\ UNCHANGED <<table, locks, out, jobs, backing, pc, local, main>>

-----------------------------------------------------------------------------
(* BACKUP: one child process per backup, at most max_backups at a time. *)

SlipOneTooMany(t) ==
  /\ pc[t] = "backup"
  /\ backup_mutex = NoThread
  /\ backup_mutex' = t
  /\ GoTo(t, IF active_backups > MaxBackups THEN "wait" ELSE "rdlockall")
  /\ UNCHANGED <<table, locks, out, jobs, active_backups, running, zombies,
                 backups, local, process>>

LockBackups(t) ==
  /\ pc[t] = "backup"
  /\ backup_mutex = NoThread
  /\ backup_mutex' = t
  /\ GoTo(t, IF active_backups >= MaxBackups THEN "wait" ELSE "rdlockall")
  /\ UNCHANGED <<table, locks, out, jobs, active_backups, running, zombies,
                 backups, local, process>>

SlipReapUncounted(t) ==
  /\ pc[t] = "wait"
  /\ zombies > 0
  /\ zombies' = zombies - 1
  /\ GoTo(t, "rdlockall")
  /\ UNCHANGED <<table, locks, out, jobs, backup_mutex, active_backups, running,
                 backups, local, process>>

\* wait(NULL) > 0: some child, of whatever thread, has exited.
WaitChild(t) ==
  /\ pc[t] = "wait"
  /\ zombies > 0
  /\ zombies' = zombies - 1
  /\ active_backups' = active_backups - 1
  /\ GoTo(t, "rdlockall")
  /\ UNCHANGED <<table, locks, out, jobs, backup_mutex, running, backups,
                 local, process>>

SlipDoesNotWait(t) ==
  /\ pc[t] = "wait"
  /\ zombies = 0
  /\ GoTo(t, "rdlockall")
  /\ UNCHANGED <<table, locks, out, jobs, backing, local, process>>

SlipWaitsOn(t) ==
  /\ pc[t] = "wait"
  /\ zombies = 0
  /\ running = {}
  /\ UNCHANGED vars

\* wait(NULL) = -1: there is no child to wait for.
WaitNone(t) ==
  /\ pc[t] = "wait"
  /\ zombies = 0
  /\ running = {}
  /\ GoTo(t, "rdlockall")
  /\ UNCHANGED <<table, locks, out, jobs, backing, local, process>>

SlipLocksFirstOnly(t) ==
  /\ pc[t] = "rdlockall"
  /\ CanRead(rwlock_array[0])
  /\ rwlock_array' = [rwlock_array EXCEPT ![0] = ReadLocked(@, t)]
  /\ i' = [i EXCEPT ![t] = 0]
  /\ GoTo(t, "fork")
  /\ UNCHANGED <<table, rwlock, out, jobs, backing, file, args, hashed, cursor,
                 total_backups, process>>

RdLockSlot(t) ==
  /\ pc[t] = "rdlockall"
  /\ CanRead(rwlock_array[i[t]])
  /\ rwlock_array' = [rwlock_array EXCEPT ![i[t]] = ReadLocked(@, t)]
  /\ IF i[t] = TABLE_SIZE - 1
     THEN /\ i' = [i EXCEPT ![t] = 0]
          /\ GoTo(t, "fork")
     ELSE /\ i' = [i EXCEPT ![t] = @ + 1]
          /\ UNCHANGED pc
  /\ UNCHANGED <<table, rwlock, out, jobs, backing, file, args, hashed, cursor,
                 total_backups, process>>

SlipUncounted(t) ==
  /\ pc[t] = "fork"
  /\ total_backups' = [total_backups EXCEPT ![t] = @ + 1]
  /\ running' = running \cup {[file |-> file[t], n |-> total_backups[t] + 1,
                               snapshot |-> table]}
  /\ GoTo(t, "unlockall")
  /\ UNCHANGED <<table, locks, out, jobs, backup_mutex, active_backups, zombies,
                 backups, file, args, i, hashed, cursor, process>>

\* The child has a copy of the table; its number and file name are settled.
Fork(t) ==
  /\ pc[t] = "fork"
  /\ total_backups' = [total_backups EXCEPT ![t] = @ + 1]
  /\ running' = running \cup {[file |-> file[t], n |-> total_backups[t] + 1,
                               snapshot |-> table]}
  /\ active_backups' = active_backups + 1
  /\ GoTo(t, "unlockall")
  /\ UNCHANGED <<table, locks, out, jobs, backup_mutex, zombies, backups, file,
                 args, i, hashed, cursor, process>>

\* fork() = -1 is not zero either, so it is counted like a child.
ForkFails(t) ==
  /\ pc[t] = "fork"
  /\ ForkMayFail
  /\ total_backups' = [total_backups EXCEPT ![t] = @ + 1]
  /\ active_backups' = active_backups + 1
  /\ GoTo(t, "unlockall")
  /\ UNCHANGED <<table, locks, out, jobs, backup_mutex, running, zombies,
                 backups, file, args, i, hashed, cursor, process>>

UnlockAllSlots(t) ==
  /\ pc[t] = "unlockall"
  /\ rwlock_array' = [rwlock_array EXCEPT ![i[t]] = Released(@, t)]
  /\ IF i[t] = TABLE_SIZE - 1
     THEN /\ i' = [i EXCEPT ![t] = 0]
          /\ GoTo(t, "unlockbackups")
     ELSE /\ i' = [i EXCEPT ![t] = @ + 1]
          /\ UNCHANGED pc
  /\ UNCHANGED <<table, rwlock, out, jobs, backing, file, args, hashed, cursor,
                 total_backups, process>>

UnlockBackups(t) ==
  /\ pc[t] = "unlockbackups"
  /\ backup_mutex' = NoThread
  /\ GoTo(t, "command")
  /\ UNCHANGED <<table, locks, out, jobs, active_backups, running, zombies,
                 backups, local, process>>

Contents(ht) ==
  {<<k, read_pair(ht, k)>> : k \in {k \in Key : read_pair(ht, k) # NULL}}

\* kvs_backup in a child: it writes the .bck file from its copy and exits.
ChildBackup(c) ==
  /\ backups' = backups \cup
       {[file |-> c.file, n |-> c.n, contents |-> Contents(c.snapshot)]}
  /\ running' = running \ {c}
  /\ zombies' = zombies + 1
  /\ UNCHANGED <<table, locks, out, jobs, backup_mutex, active_backups, pc,
                 local, process>>

-----------------------------------------------------------------------------
(* main: joins the threads, then waits for the children. *)

SlipJoinsManagers ==
  /\ main = "join"
  /\ \A t \in Thread : pc[t] = "done"
  /\ main' = "managers"
  /\ UNCHANGED <<table, locks, out, jobs, backing, pc, local, crashed>>

MainJoin ==
  /\ main = "join"
  /\ \A t \in Thread : pc[t] = "done"
  /\ main' = IF ServesClients THEN "managers" ELSE "reap"
  /\ UNCHANGED <<table, locks, out, jobs, backing, pc, local, crashed>>

MainReap ==
  /\ main = "reap"
  /\ active_backups > 0
  /\ zombies > 0
  /\ zombies' = zombies - 1
  /\ active_backups' = active_backups - 1
  /\ UNCHANGED <<table, locks, out, jobs, backup_mutex, running, backups, pc,
                 local, process>>

\* wait(NULL) = -1 leaves the loop where it was.
MainSpin ==
  /\ main = "reap"
  /\ active_backups > 0
  /\ zombies = 0
  /\ running = {}
  /\ UNCHANGED vars

MainExit ==
  /\ main = "reap"
  /\ active_backups <= 0
  /\ main' = "exit"
  /\ UNCHANGED <<table, locks, out, jobs, backing, pc, local, crashed>>

-----------------------------------------------------------------------------

TakesFiles(t) == LockFiles(t) \/ NoMoreFiles(t) \/ TakeFile(t)

Starts(t) ==
  \/ StartKeyCommand(t) \/ StartShow(t) \/ StartBackup(t)
  \/ SkipCommand(t) \/ EndOfFile(t)

KeyCommand(t) ==
  \/ RdLockTable(t) \/ LockSlot(t) \/ SkipSlot(t)
  \/ WritePair(t) \/ ReadPair(t) \/ DeletePair(t)
  \/ UnlockSlot(t) \/ UnlockTable(t)

Shows(t) ==
  \/ ShowLock(t) \/ ShowSlot(t) \/ ShowNode(t) \/ ShowNextSlot(t) \/ ShowEnd(t)
  \/ ShowTorn(t) \/ ShowFreed(t) \/ ShowCrash(t)

BacksUp(t) ==
  \/ LockBackups(t) \/ WaitChild(t) \/ WaitNone(t) \/ RdLockSlot(t)
  \/ Fork(t) \/ ForkFails(t) \/ UnlockAllSlots(t) \/ UnlockBackups(t)

\* A thread runs until its process dies.
ThreadStep(t) ==
  /\ ~crashed
  /\ TakesFiles(t) \/ Starts(t) \/ KeyCommand(t) \/ Shows(t) \/ BacksUp(t)

MainStep == ~crashed /\ (MainJoin \/ MainReap \/ MainSpin \/ MainExit)

ChildStep == \E c \in running : ChildBackup(c)

\* main has returned, waits for the managers for ever, or died.
Terminated ==
  /\ main \in {"exit", "managers"} \/ crashed
  /\ running = {}
  /\ UNCHANGED vars

Next == (\E t \in Thread : ThreadStep(t)) \/ MainStep \/ ChildStep \/ Terminated

(***************************************************************************)
(* The scheduler runs every thread and process that can go on.  A lock is  *)
(* granted to a thread that waits while it stays free: the job files are   *)
(* finite, so no stream of readers keeps a writer out for ever.            *)
(***************************************************************************)
Fairness ==
  /\ \A t \in Thread : WF_vars(ThreadStep(t))
  /\ WF_vars(MainStep)
  /\ WF_vars(ChildStep)

Spec == Init /\ [][Next]_vars

FairSpec == Spec /\ Fairness

-----------------------------------------------------------------------------
(* Type invariant. *)

Entry == [at : Nat, key : Key \cup {GARBAGE},
          value : Value \cup {NULL, GARBAGE}]

Label == {"fetch", "nofile", "take", "done", "command", "rdlock", "lock",
          "apply", "unlock", "rdunlock", "showlock", "showslot", "shownode",
          "backup", "wait", "rdlockall", "fork", "unlockall", "unlockbackups"}

Child  == [file : File, n : Nat, snapshot : Table]
BckFile == [file : File, n : Nat, contents : SUBSET (Key \X Value)]

\* Every variable has the values its declaration in the code gives it.
TypeOK ==
  /\ table \in Table
  /\ rwlock \in RWLocks
  /\ rwlock_array \in [Slot -> RWLocks]
  /\ files \in [File -> Seq(Cmd)]
  /\ offset \in [File -> Nat]
  /\ out \in [File -> Seq(Entry)]
  /\ current_index \in Nat
  /\ file_mutex \in Owner
  /\ backup_mutex \in Owner
  /\ active_backups \in Int
  /\ running \subseteq Child
  /\ zombies \in Nat
  /\ backups \subseteq BckFile
  /\ pc \in [Thread -> Label]
  /\ file \in [Thread -> File \cup {NoFile}]
  /\ args \in [Thread -> Cmd]
  /\ i \in [Thread -> Nat]
  /\ hashed \in [Thread -> SUBSET Slot]
  /\ cursor \in [Thread -> Key \cup {NULL, FREED}]
  /\ total_backups \in [Thread -> Nat]
  /\ main \in {"join", "managers", "reap", "exit"}
  /\ crashed \in BOOLEAN

-----------------------------------------------------------------------------
(* Safety. *)

\* What a thread is about to do to the table: the chains it changes, and the
\* chains it only reads.
ChangedBy(t) ==
  IF pc[t] = "apply" /\ Mutates(t) THEN {hash(PairKey(t))} ELSE {}

ReadBy(t) ==
  CASE pc[t] = "apply" /\ ~Mutates(t)              -> {hash(PairKey(t))}
    [] pc[t] = "fork"                              -> Slot
    [] pc[t] \in {"showslot", "shownode"}
         /\ UseRwlock /\ i[t] < TABLE_SIZE         -> {i[t]}
    [] OTHER                                       -> {}

(***************************************************************************)
(* The locks of operations.c do their work: no thread changes a chain      *)
(* while another changes it, reads it, prints it for SHOW or copies the    *)
(* table to a child.  The SHOW of Part 2 takes no lock and is left out.    *)
(***************************************************************************)
NoConflictingAccess ==
  \A t, u \in Thread :
    t # u => ChangedBy(t) \cap (ChangedBy(u) \cup ReadBy(u)) = {}

\* A chain holds a key once, and only keys that hash to it: otherwise
\* read_pair would return a stale value and delete_pair leave a copy behind.
ChainsWellFormed ==
  \A s \in Slot : \A m, n \in DOMAIN table[s] :
    /\ hash(table[s][m].key) = s
    /\ table[s][m].key = table[s][n].key => m = n

\* thread_process_files hands a job file to one thread, and never one past
\* the end of the list.
FilesHandedOutOnce ==
  /\ current_index <= count
  /\ \A t \in Thread : file[t] # NoFile =>
       /\ file[t] < current_index
       /\ \A u \in Thread \ {t} : file[u] # file[t]

\* BACKUP keeps its promise to the command line: no more than max_backups
\* children write at a time (one, when the limit is not positive).
BackupLimit ==
  Cardinality(running) <= IF MaxBackups > 0 THEN MaxBackups ELSE 1

\* The counter that throttles BACKUP and tells main when to stop is exact,
\* as long as fork does not fail: a child is counted from its fork until it
\* is waited for.
BackupsAccounted == active_backups = Cardinality(running) + zombies

(***************************************************************************)
(* Threads that hold chain locks ask for higher ones only, so the waits of *)
(* kvs_write, kvs_read, kvs_delete and BACKUP cannot form a cycle.  The    *)
(* commands lock in the order of the sorted keys: this needs keys whose    *)
(* order is the order of their chains, the lowercase keys kvs.h asks for.  *)
(***************************************************************************)
HeldBy(t) == {s \in Slot : Holds(rwlock_array[s], t)}

AscendingLocks ==
  \A t \in Thread :
    /\ pc[t] = "lock" /\ hash(PairKey(t)) \notin hashed[t] =>
         \A s \in HeldBy(t) : s < hash(PairKey(t))
    /\ pc[t] = "rdlockall" => \A s \in HeldBy(t) : s < i[t]
    /\ pc[t] = "showlock" => HeldBy(t) = {}
    /\ pc[t] \in {"rdlock", "fetch", "backup"} => HeldBy(t) = {}

(***************************************************************************)
(* What a thread waits for: a mutex, a lock, or a child that still runs.   *)
(* WantedSlot is the chain whose lock a thread asks for next.              *)
(***************************************************************************)
WantedSlot(t) == IF pc[t] = "lock" THEN hash(PairKey(t)) ELSE i[t]

WaitsForSlot(t) ==
  \/ /\ pc[t] = "lock"
     /\ WantedSlot(t) \notin hashed[t]
     /\ IF Mutates(t) THEN ~CanWrite(rwlock_array[WantedSlot(t)])
                      ELSE ~CanRead(rwlock_array[WantedSlot(t)])
  \/ pc[t] = "rdlockall" /\ ~CanRead(rwlock_array[WantedSlot(t)])

Waits(t) ==
  \/ pc[t] = "fetch" /\ file_mutex # NoThread
  \/ pc[t] = "rdlock" /\ ~CanRead(rwlock)
  \/ pc[t] = "showlock" /\ ~CanWrite(rwlock)
  \/ pc[t] = "backup" /\ backup_mutex # NoThread
  \/ pc[t] = "wait" /\ zombies = 0 /\ running # {}
  \/ WaitsForSlot(t)

(***************************************************************************)
(* The threads never all wait on each other: when some thread waits, a     *)
(* thread or a child has a step to take.  Five kinds of waits meet here:   *)
(* the two mutexes, the lock of the table, the chain locks that commands   *)
(* and BACKUP take one by one, and wait() under the mutex of the backups.  *)
(***************************************************************************)
SomeoneGoesOn ==
  (\E t \in Thread : Waits(t)) =>
    running # {} \/ \E u \in Thread : pc[u] # "done" /\ ~Waits(u)

\* What is left of BackupsAccounted when fork may fail: the counter never
\* runs below the children there are, so BACKUP throttles too early, not late.
BackupsNotUndercounted == active_backups >= Cardinality(running) + zombies

(***************************************************************************)
(* kvs.h:27 says that rwlock protects SHOW: while a SHOW walks the table,  *)
(* no other thread is changing it.  It is so in Part 1, not in Part 2.     *)
(***************************************************************************)
ShowProtected ==
  \A t, u \in Thread :
    t # u /\ pc[t] \in {"showslot", "shownode"} => ChangedBy(u) = {}

-----------------------------------------------------------------------------
(* Liveness. *)

\* The number of BACKUP commands of a job file.
BackupsOf(f) == Cardinality({n \in DOMAIN files[f] : files[f][n].op = "BACKUP"})

(***************************************************************************)
(* main's pthread_join returns: every job file is processed to its end and *)
(* its backups are written, unless a racing SHOW kills the process.        *)
(***************************************************************************)
AllFilesProcessed ==
  <>(\/ crashed
     \/ /\ main # "join"
        /\ \A f \in File :
             /\ offset[f] = Len(files[f])
             /\ {b.n : b \in {c \in backups : c.file = f}} = 1 .. BackupsOf(f))

\* No thread waits for ever for a lock, a mutex or a child that is not there.
ThreadsFinish == <>(crashed \/ \A t \in Thread : pc[t] = "done")

\* Once the threads are joined and the children are gone, main returns, unless
\* it counts a child that is not there because fork failed (main.c:283).
Overcounted == active_backups > Cardinality(running) + zombies

MainTerminates == <>(main = "exit" \/ Overcounted)

=============================================================================
