-------------------------- MODULE KVStoreInvariant --------------------------
(***************************************************************************)
(* The inductive invariant of KVStore: where a thread is tells which locks *)
(* it holds, and a lock has no holder that is not there.  The safety       *)
(* properties of KVStore that rest on the locks follow from it.            *)
(***************************************************************************)
EXTENDS KVStore

Idle == {"fetch", "nofile", "take", "done"}

\* Inside kvs_write, kvs_read or kvs_delete, once the locking loop began.
Locking == {"lock", "apply", "unlock"}

(***************************************************************************)
(* The control of one thread: loop counters are within the loops, and a    *)
(* thread that needs a job file or a command has one.                      *)
(***************************************************************************)
ControlOf(t) ==
  /\ pc[t] \in Idle <=> file[t] = NoFile
  /\ pc[t] \in {"nofile", "take"} <=> file_mutex = t
  /\ pc[t] = "take" => current_index < count
  /\ pc[t] \in Locking \cup {"rdlock"} => Opcode(t) \in KeyOps
  /\ pc[t] \in {"rdlock", "lock", "apply"} => i[t] \in DOMAIN Pairs(t)
  /\ pc[t] \in {"rdlock", "rdunlock"} => Mutates(t)
  /\ pc[t] = "rdlock" => i[t] = 1 /\ hashed[t] = {}
  /\ pc[t] = "showslot" => i[t] <= TABLE_SIZE
  /\ pc[t] = "showlock" => i[t] = 0 /\ UseRwlock
  /\ pc[t] = "shownode" => i[t] < TABLE_SIZE
  /\ pc[t] \in {"backup", "wait"} => i[t] = 0
  /\ pc[t] \in {"rdlockall", "fork", "unlockall"} => i[t] < TABLE_SIZE
  /\ pc[t] = "fork" => i[t] = 0

\* Only WRITE stores what it is given, and it is given values.
ArgumentsOf(t) ==
  pc[t] \in Locking \cup {"rdlock"} /\ Opcode(t) = "WRITE" =>
    \A j \in DOMAIN Pairs(t) : Pairs(t)[j].value \in Value

\* The chains whose locks the keys before the loop counter asked for are held.
HashedOf(t) ==
  /\ pc[t] = "lock" =>
       \A j \in 1 .. i[t] - 1 : hash(Pairs(t)[j].key) \in hashed[t]
  /\ pc[t] = "apply" =>
       \A j \in DOMAIN Pairs(t) : hash(Pairs(t)[j].key) \in hashed[t]
  /\ pc[t] = "unlock" => hashed[t] # {}

Control ==
  /\ \A t \in Thread : ControlOf(t) /\ ArgumentsOf(t) /\ HashedOf(t)
  /\ \A f \in File : offset[f] <= Len(files[f])
  /\ files \in JobSets

-----------------------------------------------------------------------------

\* The chain locks a thread holds for writing, and for reading.
WriteHeld(t) ==
  IF pc[t] \in Locking /\ Mutates(t) THEN hashed[t] ELSE {}

ReadHeld(t) ==
  CASE pc[t] \in Locking /\ ~Mutates(t) -> hashed[t]
    [] pc[t] = "rdlockall"              -> 0 .. i[t] - 1
    [] pc[t] = "fork"                   -> Slot
    [] pc[t] = "unlockall"              -> i[t] .. TABLE_SIZE - 1
    [] OTHER                            -> {}

\* The lock of the table: WRITE and DELETE hold it for reading, SHOW for
\* writing if it locks at all.
TableReader(t) == (pc[t] \in Locking /\ Mutates(t)) \/ pc[t] = "rdunlock"
TableWriter(t) == UseRwlock /\ pc[t] \in {"showslot", "shownode"}

Exclusive(lock) == lock.readers # {} => lock.writer = NoThread

LockHolders ==
  /\ Exclusive(rwlock)
  /\ \A s \in Slot : Exclusive(rwlock_array[s])
  /\ \A t \in Thread :
       /\ t \in rwlock.readers <=> TableReader(t)
       /\ t = rwlock.writer <=> TableWriter(t)
       /\ \A s \in Slot :
            /\ t \in rwlock_array[s].readers <=> s \in ReadHeld(t)
            /\ t = rwlock_array[s].writer <=> s \in WriteHeld(t)

\* The invariant the proofs of the locking properties rest on.
IInv == TypeOK /\ Control /\ LockHolders

-----------------------------------------------------------------------------
(* What the other safety properties rest on, besides IInv. *)

\* The arguments of a command on keys are in order, and the chains it has
\* locked are those of the pairs before its loop counter.
OrderedOf(t) ==
  /\ pc[t] \in Locking \cup {"rdlock"} =>
       \A m, n \in DOMAIN Pairs(t) :
         m <= n => Pairs(t)[m].key <= Pairs(t)[n].key
  /\ pc[t] = "lock" =>
       \A s \in hashed[t] : \E j \in 1 .. i[t] - 1 : s = hash(Pairs(t)[j].key)

Ordered == \A t \in Thread : OrderedOf(t)

\* Keys in order have their chains in order.
HashMonotone == \A k, l \in Key : k <= l => hash(k) <= hash(l)

(***************************************************************************)
(* The children of BACKUP.                                                 *)
(***************************************************************************)
BackingUp == {"wait", "rdlockall", "fork", "unlockall", "unlockbackups"}

\* One thread at a time is between the lock and the unlock of the mutex.
Turns == \A t \in Thread : pc[t] \in BackingUp <=> backup_mutex = t

\* The number a thread gives its next child is above those of its job file.
Numbered ==
  \A c \in running :
    /\ c.file < current_index
    /\ \A t \in Thread : c.file = file[t] => c.n <= total_backups[t]

Limit == IF MaxBackups > 0 THEN MaxBackups ELSE 1

Unreaped == Cardinality(running) + zombies

\* The children that were not waited for are counted and within the limit, and
\* below it for the thread that is about to fork.
Within ==
  /\ IsFiniteSet(running)
  /\ Unreaped <= active_backups
  /\ Unreaped <= Limit
  /\ \A t \in Thread : pc[t] \in {"rdlockall", "fork"} => Unreaped < Limit

Children == Turns /\ Numbered /\ Within

=============================================================================
