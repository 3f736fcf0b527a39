--------------------------- MODULE KVStore_proofs ---------------------------
(***************************************************************************)
(* Proofs about KVStore for any number of threads, job files and backups,  *)
(* any table size, and both programs.  The invariant is inductive as a     *)
(* whole; its three parts are preserved by one lemma per group of actions. *)
(***************************************************************************)
EXTENDS KVStoreInvariant, KVTable_proofs, TLAPS

-----------------------------------------------------------------------------
(* Type correctness. *)

\* A thread that has a command on keys to work on has one to work on now.
LEMMA CurrentPair ==
  ASSUME IInv, NEW t \in Thread, pc[t] \in {"lock", "apply"}
  PROVE  /\ file[t] \in File
         /\ i[t] \in Nat
         /\ Pairs(t)[i[t]] \in Pair
         /\ PairKey(t) \in Key
         /\ hash(PairKey(t)) \in Slot
         /\ Opcode(t) = "WRITE" => Pairs(t)[i[t]].value \in Value
<1>1. file[t] \in File /\ i[t] \in DOMAIN Pairs(t)
  BY DEF IInv, TypeOK, Control, ControlOf, Idle, Locking
<1>2. Pairs(t) \in Seq(Pair) /\ i[t] \in Nat
  BY DEF IInv, TypeOK, Cmd, Pairs
<1>3. Pairs(t)[i[t]] \in Pair
  BY <1>1, <1>2
<1>4. PairKey(t) \in Key
  BY <1>3 DEF Pair, PairKey
<1>5. Opcode(t) = "WRITE" => Pairs(t)[i[t]].value \in Value
  BY <1>1 DEF IInv, Control, ArgumentsOf, Locking
<1> QED BY <1>1, <1>2, <1>3, <1>4, <1>5, HashType

LEMMA NextPairType ==
  ASSUME TypeOK, NEW t \in Thread, NEW after \in Label, NextPair(t, after)
  PROVE  i' \in [Thread -> Nat] /\ pc' \in [Thread -> Label]
<1>1. i \in [Thread -> Nat] /\ pc \in [Thread -> Label]
  BY DEF TypeOK
<1>2. CASE i[t] = Len(Pairs(t))
  BY <1>1, <1>2 DEF NextPair, GoTo
<1>3. CASE i[t] # Len(Pairs(t))
  <2>1. i' = [i EXCEPT ![t] = @ + 1] /\ pc' = pc
    BY <1>3 DEF NextPair
  <2>2. i[t] + 1 \in Nat
    BY <1>1
  <2> QED BY <1>1, <2>1, <2>2
<1> QED BY <1>2, <1>3

LEMMA PrintsType ==
  ASSUME TypeOK, NEW t \in Thread, file[t] \in File,
         NEW key \in Key \cup {GARBAGE},
         NEW value \in Value \cup {NULL, GARBAGE},
         Prints(t, key, value)
  PROVE  out' \in [File -> Seq(Entry)]
<1> DEFINE e == [at |-> offset[file[t]], key |-> key, value |-> value]
<1>1. e \in Entry
  BY DEF TypeOK, Entry
<1>2. Append(out[file[t]], e) \in Seq(Entry)
  BY <1>1 DEF TypeOK
<1> QED BY <1>2 DEF TypeOK, Prints

LEMMA TypeTakesFiles ==
  ASSUME IInv, NEW t \in Thread, TakesFiles(t)
  PROVE  TypeOK'
<1> USE DEF IInv, locks, jobs, backing, local, process, GoTo, Label
<1>1. CASE LockFiles(t)
  BY <1>1 DEF LockFiles, TypeOK, Owner
<1>2. CASE NoMoreFiles(t)
  BY <1>2 DEF NoMoreFiles, TypeOK, Owner
<1>3. CASE TakeFile(t)
  <2>1. current_index \in File
    BY <1>3, StoreAssumption DEF TakeFile, TypeOK, Control, ControlOf, File
  <2> QED BY <1>3, <2>1 DEF TakeFile, TypeOK, Owner
<1> QED BY <1>1, <1>2, <1>3 DEF TakesFiles

LEMMA TypeStarts ==
  ASSUME IInv, NEW t \in Thread, Starts(t)
  PROVE  TypeOK'
<1> USE DEF IInv, locks, jobs, backing, local, process, GoTo, Label
<1>1. ASSUME pc[t] = "command"
      PROVE  /\ file[t] \in File
             /\ offset[file[t]] \in Nat
             /\ files[file[t]] \in Seq(Cmd)
  BY <1>1 DEF TypeOK, Control, ControlOf, Idle
<1>2. ASSUME NEW ops, AtCommand(t, ops)
      PROVE  Command(t) \in Cmd /\ Command(t).op \in ops
  BY <1>1, <1>2 DEF AtCommand, Command
<1>3. ASSUME pc[t] = "command", ReadsCommand(t)
      PROVE  offset' \in [File -> Nat]
  BY <1>1, <1>3 DEF ReadsCommand, TypeOK
<1>4. CASE StartKeyCommand(t)
  <2>1. Command(t) \in Cmd /\ pc[t] = "command"
    BY <1>2, <1>4 DEF StartKeyCommand, AtCommand
  <2>2. insertionSort(Command(t).pairs) \in Seq(Pair)
    <3>1. Command(t).pairs \in Seq(Pair) /\ \A p \in Pair : p.key \in Nat
      BY <2>1, TableAssumption DEF Cmd, Pair
    <3> QED BY <3>1, SortType
  <2>3. [op |-> Command(t).op, pairs |-> insertionSort(Command(t).pairs)] \in Cmd
    BY <2>1, <2>2 DEF Cmd
  <2>4. args' \in [Thread -> Cmd]
    BY <1>4, <2>3 DEF StartKeyCommand, TypeOK
  <2>5. offset' \in [File -> Nat]
    BY <1>3, <1>4, <2>1 DEF StartKeyCommand
  <2> QED BY <1>4, <2>4, <2>5 DEF StartKeyCommand, TypeOK
<1>5. CASE StartShow(t)
  <2>1. args' \in [Thread -> Cmd]
    BY <1>2, <1>5 DEF StartShow, TypeOK
  <2>2. offset' \in [File -> Nat]
    BY <1>3, <1>5 DEF StartShow, AtCommand
  <2> QED BY <1>5, <2>1, <2>2 DEF StartShow, TypeOK
<1>6. CASE StartBackup(t)
  <2>1. args' \in [Thread -> Cmd]
    BY <1>2, <1>6 DEF StartBackup, TypeOK
  <2>2. offset' \in [File -> Nat]
    BY <1>3, <1>6 DEF StartBackup, AtCommand
  <2> QED BY <1>6, <2>1, <2>2 DEF StartBackup, TypeOK
<1>7. CASE SkipCommand(t)
  <2>1. offset' \in [File -> Nat]
    BY <1>3, <1>7 DEF SkipCommand, AtCommand
  <2> QED BY <1>7, <2>1 DEF SkipCommand, TypeOK
<1>8. CASE EndOfFile(t)
  BY <1>8 DEF EndOfFile, TypeOK
<1> QED BY <1>4, <1>5, <1>6, <1>7, <1>8 DEF Starts

LEMMA TypeLocking ==
  ASSUME IInv, NEW t \in Thread,
         \/ RdLockTable(t) \/ LockSlot(t) \/ SkipSlot(t)
         \/ UnlockSlot(t) \/ UnlockTable(t)
  PROVE  TypeOK'
<1> USE DEF IInv, locks, jobs, backing, local, process, GoTo
<1> "apply" \in Label /\ "lock" \in Label /\ "rdunlock" \in Label
      /\ "command" \in Label
  BY DEF Label
<1>1. ASSUME NEW lock \in RWLocks
      PROVE  /\ ReadLocked(lock, t) \in RWLocks
             /\ WriteLocked(lock, t) \in RWLocks
             /\ Released(lock, t) \in RWLocks
  BY DEF RWLocks, ReadLocked, WriteLocked, Released, Owner
<1>2. CASE RdLockTable(t)
  BY <1>1, <1>2 DEF RdLockTable, TypeOK
<1>3. CASE LockSlot(t)
  <2> DEFINE s == hash(PairKey(t))
  <2>1. s \in Slot
    BY <1>3, CurrentPair DEF LockSlot
  <2>2. i' \in [Thread -> Nat] /\ pc' \in [Thread -> Label]
    BY <1>3, NextPairType DEF LockSlot
  <2>3. hashed' \in [Thread -> SUBSET Slot]
    BY <1>3, <2>1 DEF LockSlot, TypeOK
  <2>4. rwlock_array' \in [Slot -> RWLocks]
    <3>1. rwlock_array[s] \in RWLocks
      BY <2>1 DEF TypeOK
    <3>2. \E lock \in RWLocks : rwlock_array' = [rwlock_array EXCEPT ![s] = lock]
      BY <1>1, <1>3, <3>1 DEF LockSlot
    <3> QED BY <3>2 DEF TypeOK
  <2> QED BY <1>3, <2>2, <2>3, <2>4 DEF LockSlot, TypeOK
<1>4. CASE SkipSlot(t)
  <2>1. i' \in [Thread -> Nat] /\ pc' \in [Thread -> Label]
    BY <1>4, NextPairType DEF SkipSlot
  <2> QED BY <1>4, <2>1 DEF SkipSlot, TypeOK
<1>5. CASE UnlockSlot(t)
  <2> DEFINE s == CHOOSE s \in hashed[t] : \A r \in hashed[t] : s <= r
  <2>1. hashed' \in [Thread -> SUBSET Slot]
    BY <1>5 DEF UnlockSlot, TypeOK
  <2>2. rwlock_array' \in [Slot -> RWLocks]
    <3>1. rwlock_array' = [rwlock_array EXCEPT ![s] = Released(@, t)]
      BY <1>5 DEF UnlockSlot
    <3> QED BY <1>1, <3>1 DEF TypeOK
  <2>3. pc' \in [Thread -> Label]
    BY <1>5 DEF UnlockSlot, TypeOK
  <2> QED BY <1>5, <2>1, <2>2, <2>3 DEF UnlockSlot, TypeOK
<1>6. CASE UnlockTable(t)
  BY <1>1, <1>6 DEF UnlockTable, TypeOK
<1> QED BY <1>2, <1>3, <1>4, <1>5, <1>6

LEMMA TypePairs ==
  ASSUME IInv, NEW t \in Thread, WritePair(t) \/ ReadPair(t) \/ DeletePair(t)
  PROVE  TypeOK'
<1> USE DEF IInv, locks, jobs, backing, local, process
<1>1. /\ file[t] \in File
      /\ PairKey(t) \in Key
      /\ Opcode(t) = "WRITE" => Pairs(t)[i[t]].value \in Value
  BY CurrentPair DEF WritePair, ReadPair, DeletePair, Applies
<1>2. i' \in [Thread -> Nat] /\ pc' \in [Thread -> Label]
  <2>1. "unlock" \in Label /\ NextPair(t, "unlock")
    BY DEF WritePair, ReadPair, DeletePair, Label
  <2> QED BY <2>1, NextPairType
<1>3. CASE WritePair(t)
  <2>1. table' \in Table
    BY <1>1, <1>3, WriteType DEF WritePair, Applies, TypeOK
  <2> QED BY <1>2, <1>3, <2>1 DEF WritePair, TypeOK
<1>4. CASE ReadPair(t)
  <2>1. read_pair(table, PairKey(t)) \in Value \cup {NULL, GARBAGE}
    BY <1>1, ReadType DEF TypeOK
  <2>2. out' \in [File -> Seq(Entry)]
    BY <1>1, <1>4, <2>1, PrintsType DEF ReadPair
  <2> QED BY <1>2, <1>4, <2>2 DEF ReadPair, TypeOK
<1>5. CASE DeletePair(t)
  <2>1. CASE read_pair(table, PairKey(t)) # NULL
    <3>1. table' \in Table
      BY <1>1, <1>5, <2>1, DeleteType DEF DeletePair, TypeOK
    <3>2. cursor' \in [Thread -> Key \cup {NULL, FREED}]
      BY <1>5, <2>1 DEF DeletePair, TypeOK
    <3> QED BY <1>2, <1>5, <2>1, <3>1, <3>2 DEF DeletePair, TypeOK
  <2>2. CASE read_pair(table, PairKey(t)) = NULL
    <3>1. out' \in [File -> Seq(Entry)]
      BY <1>1, <1>5, <2>2, PrintsType DEF DeletePair
    <3> QED BY <1>2, <1>5, <2>2, <3>1 DEF DeletePair, TypeOK
  <2> QED BY <2>1, <2>2
<1> QED BY <1>3, <1>4, <1>5

LEMMA TypeShows ==
  ASSUME IInv, NEW t \in Thread, Shows(t)
  PROVE  TypeOK'
<1> USE DEF IInv, locks, jobs, backing, local, process, GoTo
<1> "showslot" \in Label /\ "shownode" \in Label /\ "command" \in Label
  BY DEF Label
<1>1. ASSUME NEW lock \in RWLocks
      PROVE  WriteLocked(lock, t) \in RWLocks /\ Released(lock, t) \in RWLocks
  BY DEF RWLocks, WriteLocked, Released, Owner
<1>2. CASE ShowLock(t)
  BY <1>1, <1>2 DEF ShowLock, TypeOK
<1>3. CASE ShowSlot(t)
  <2>1. HeadOf(table[i[t]]) \in Key \cup {NULL}
    <3>1. i[t] \in Slot
      BY <1>3, TableAssumption DEF ShowSlot, TypeOK, Slot
    <3>2. table[i[t]] \in Chain
      BY <3>1 DEF TypeOK, Table
    <3> QED BY <3>2, NodeAtType DEF HeadOf
  <2>2. cursor' \in [Thread -> Key \cup {NULL, FREED}]
    BY <1>3, <2>1 DEF ShowSlot, TypeOK
  <2> QED BY <1>3, <2>2 DEF ShowSlot, TypeOK
<1>4. ASSUME pc[t] = "shownode"
      PROVE  file[t] \in File
  BY <1>4 DEF TypeOK, Control, ControlOf, Idle
<1>5. ASSUME cursor[t] \in Key
      PROVE  NextOf(table[hash(cursor[t])], cursor[t]) \in Key \cup {NULL}
  <2>1. table[hash(cursor[t])] \in Chain
    BY <1>5, HashType DEF TypeOK, Table
  <2> QED BY <2>1, NodeAtType DEF NextOf
<1>6. CASE ShowNode(t) \/ ShowTorn(t)
  <2>1. cursor[t] \in Key /\ pc[t] = "shownode"
    BY <1>6 DEF ShowNode, ShowTorn
  <2>2. cursor' \in [Thread -> Key \cup {NULL, FREED}]
    BY <1>5, <1>6, <2>1 DEF ShowNode, ShowTorn, TypeOK
  <2>3. PICK value \in Value \cup {NULL, GARBAGE} : Prints(t, cursor[t], value)
    BY <1>6, <2>1, ReadType DEF ShowNode, ShowTorn, TypeOK
  <2>4. out' \in [File -> Seq(Entry)]
    BY <1>4, <2>1, <2>3, PrintsType
  <2> QED BY <1>6, <2>2, <2>4 DEF ShowNode, ShowTorn, TypeOK
<1>7. CASE ShowNextSlot(t)
  BY <1>7 DEF ShowNextSlot, TypeOK
<1>8. CASE ShowEnd(t)
  BY <1>1, <1>8 DEF ShowEnd, TypeOK
<1>9. CASE ShowFreed(t)
  <2>1. out' \in [File -> Seq(Entry)]
    BY <1>4, <1>9, PrintsType DEF ShowFreed
  <2>2. cursor' \in [Thread -> Key \cup {NULL, FREED}]
    BY <1>9 DEF ShowFreed, TypeOK
  <2> QED BY <1>9, <2>1, <2>2 DEF ShowFreed, TypeOK
<1>10. CASE ShowCrash(t)
  BY <1>10 DEF ShowCrash, TypeOK
<1> QED
  BY <1>2, <1>3, <1>6, <1>7, <1>8, <1>9, <1>10 DEF Shows

LEMMA ContentsType ==
  ASSUME NEW ht \in Table
  PROVE  Contents(ht) \in SUBSET (Key \X Value)
<1> SUFFICES ASSUME NEW k \in Key, read_pair(ht, k) # NULL
             PROVE  <<k, read_pair(ht, k)>> \in Key \X Value
  BY DEF Contents
<1> QED BY ReadType

LEMMA TypeBacksUp ==
  ASSUME IInv, NEW t \in Thread, BacksUp(t)
  PROVE  TypeOK'
<1> USE DEF IInv, locks, jobs, backing, local, process, GoTo
<1>1. \A l \in {"wait", "rdlockall", "fork", "unlockall", "unlockbackups",
                "command"} : l \in Label
  BY DEF Label
<1>2. ASSUME NEW lock \in RWLocks
      PROVE  ReadLocked(lock, t) \in RWLocks /\ Released(lock, t) \in RWLocks
  BY DEF RWLocks, ReadLocked, Released, Owner
<1>3. CASE LockBackups(t)
  BY <1>1, <1>3 DEF LockBackups, TypeOK, Owner
<1>4. CASE WaitChild(t)
  BY <1>1, <1>4 DEF WaitChild, TypeOK
<1>5. CASE WaitNone(t)
  BY <1>1, <1>5 DEF WaitNone, TypeOK
<1>6. CASE RdLockSlot(t)
  <2>1. i' \in [Thread -> Nat] /\ pc' \in [Thread -> Label]
    <3>0. i \in [Thread -> Nat] /\ pc \in [Thread -> Label]
      BY DEF TypeOK
    <3>1. CASE i[t] = TABLE_SIZE - 1
      <4>1. /\ i' = [i EXCEPT ![t] = 0]
            /\ pc' = [pc EXCEPT ![t] = "fork"]
        BY <1>6, <3>1 DEF RdLockSlot
      <4> QED BY <1>1, <3>0, <4>1
    <3>2. CASE i[t] # TABLE_SIZE - 1
      <4>1. i' = [i EXCEPT ![t] = @ + 1] /\ pc' = pc /\ i[t] + 1 \in Nat
        BY <1>6, <3>0, <3>2 DEF RdLockSlot
      <4> QED BY <3>0, <4>1
    <3> QED BY <3>1, <3>2
  <2>2. rwlock_array' \in [Slot -> RWLocks]
    BY <1>2, <1>6 DEF RdLockSlot, TypeOK
  <2> QED BY <1>6, <2>1, <2>2 DEF RdLockSlot, TypeOK
<1>7. CASE Fork(t)
  <2>1. file[t] \in File
    BY <1>7 DEF Fork, TypeOK, Control, ControlOf, Idle
  <2>2. running' \subseteq Child
    BY <1>7, <2>1 DEF Fork, TypeOK, Child
  <2> QED BY <1>1, <1>7, <2>2 DEF Fork, TypeOK
<1>8. CASE ForkFails(t)
  BY <1>1, <1>8 DEF ForkFails, TypeOK
<1>9. CASE UnlockAllSlots(t)
  <2>1. i' \in [Thread -> Nat] /\ pc' \in [Thread -> Label]
    <3>0. i \in [Thread -> Nat] /\ pc \in [Thread -> Label]
      BY DEF TypeOK
    <3>1. CASE i[t] = TABLE_SIZE - 1
      <4>1. /\ i' = [i EXCEPT ![t] = 0]
            /\ pc' = [pc EXCEPT ![t] = "unlockbackups"]
        BY <1>9, <3>1 DEF UnlockAllSlots
      <4> QED BY <1>1, <3>0, <4>1
    <3>2. CASE i[t] # TABLE_SIZE - 1
      <4>1. i' = [i EXCEPT ![t] = @ + 1] /\ pc' = pc /\ i[t] + 1 \in Nat
        BY <1>9, <3>0, <3>2 DEF UnlockAllSlots
      <4> QED BY <3>0, <4>1
    <3> QED BY <3>1, <3>2
  <2>2. rwlock_array' \in [Slot -> RWLocks]
    BY <1>2, <1>9 DEF UnlockAllSlots, TypeOK
  <2> QED BY <1>9, <2>1, <2>2 DEF UnlockAllSlots, TypeOK
<1>10. CASE UnlockBackups(t)
  BY <1>1, <1>10 DEF UnlockBackups, TypeOK, Owner
<1> QED
  BY <1>3, <1>4, <1>5, <1>6, <1>7, <1>8, <1>9, <1>10 DEF BacksUp

LEMMA TypeProcesses ==
  ASSUME IInv, MainStep \/ ChildStep
  PROVE  TypeOK'
<1> USE DEF IInv, locks, jobs, backing, local, process
<1>1. CASE MainStep
  BY <1>1 DEF MainStep, MainJoin, MainReap, MainSpin, MainExit, TypeOK, vars
<1>2. CASE ChildStep
  <2>1. PICK c \in running : ChildBackup(c)
    BY <1>2 DEF ChildStep
  <2>2. c \in Child
    BY DEF TypeOK
  <2>3. Contents(c.snapshot) \in SUBSET (Key \X Value)
    BY <2>2, ContentsType DEF Child
  <2>4. [file |-> c.file, n |-> c.n, contents |-> Contents(c.snapshot)] \in BckFile
    BY <2>2, <2>3 DEF Child, BckFile
  <2> QED BY <2>1, <2>4 DEF ChildBackup, TypeOK
<1> QED BY <1>1, <1>2

LEMMA TypeStep == IInv /\ [Next]_vars => TypeOK'
<1> SUFFICES ASSUME IInv, [Next]_vars PROVE TypeOK'
  OBVIOUS
<1>1. ASSUME NEW t \in Thread, ThreadStep(t) PROVE TypeOK'
  BY <1>1, TypeTakesFiles, TypeStarts, TypeLocking, TypePairs, TypeShows,
     TypeBacksUp DEF ThreadStep, KeyCommand
<1>2. CASE UNCHANGED vars
  BY <1>2 DEF IInv, TypeOK, vars, locks, jobs, backing, local, process
<1> QED BY <1>1, <1>2, TypeProcesses DEF Next, Terminated

-----------------------------------------------------------------------------
(* Control. *)

ThreadControl(u) == ControlOf(u) /\ ArgumentsOf(u) /\ HashedOf(u)

\* A thread is where it was if nothing of its own changed, nor what it
\* knows of the list of job files.
LEMMA ControlFrame ==
  ASSUME IInv, NEW u \in Thread,
         pc'[u] = pc[u], file'[u] = file[u], args'[u] = args[u],
         i'[u] = i[u], hashed'[u] = hashed[u],
         file_mutex' = u <=> file_mutex = u,
         pc[u] = "take" => current_index' = current_index
  PROVE  ThreadControl(u)'
<1>1. ControlOf(u) /\ ArgumentsOf(u) /\ HashedOf(u)
  BY DEF IInv, Control
<1>2. ControlOf(u)'
  BY <1>1 DEF ControlOf, Opcode, Pairs, Mutates
<1>3. ArgumentsOf(u)'
  BY <1>1 DEF ArgumentsOf, Opcode, Pairs
<1>4. HashedOf(u)'
  BY <1>1 DEF HashedOf, Pairs
<1> QED BY <1>2, <1>3, <1>4 DEF ThreadControl

\* What a thread's own step leaves alone of another thread.
OthersKept(t) ==
  \A u \in Thread \ {t} :
    /\ pc'[u] = pc[u] /\ file'[u] = file[u] /\ args'[u] = args[u]
    /\ i'[u] = i[u] /\ hashed'[u] = hashed[u]
    /\ file_mutex' = u <=> file_mutex = u
    /\ pc[u] = "take" => current_index' = current_index

LEMMA ControlOfStep ==
  ASSUME IInv, NEW t \in Thread, OthersKept(t), ThreadControl(t)',
         files' = files, \A f \in File : (offset[f] <= Len(files[f]))'
  PROVE  Control'
<1>1. \A u \in Thread \ {t} : ThreadControl(u)'
  BY ControlFrame DEF OthersKept
<1>2. \A u \in Thread : ThreadControl(u)'
  BY <1>1
<1> QED BY <1>2 DEF Control, ThreadControl, IInv

LEMMA ControlTakesFiles ==
  ASSUME IInv, NEW t \in Thread, TakesFiles(t)
  PROVE  Control'
<1> USE DEF IInv, locks, jobs, backing, local, process, GoTo
<1>1. files' = files /\ offset' = offset
  BY DEF TakesFiles, LockFiles, NoMoreFiles, TakeFile
<1>2. \A f \in File : (offset[f] <= Len(files[f]))'
  BY <1>1 DEF Control
<1>3. ControlOf(t)
  BY DEF Control
<1>4. CASE LockFiles(t)
  <2>1. OthersKept(t)
    BY <1>4, NoThreadAssumption DEF LockFiles, OthersKept, TypeOK
  <2>2. ThreadControl(t)'
    BY <1>3, <1>4, StoreAssumption DEF LockFiles, ThreadControl, ControlOf, ArgumentsOf, HashedOf,
       Idle, Locking, TypeOK, Opcode, Pairs
  <2> QED BY <1>1, <1>2, <2>1, <2>2, ControlOfStep
<1>5. CASE NoMoreFiles(t)
  <2>1. OthersKept(t)
    BY <1>3, <1>5, NoThreadAssumption DEF NoMoreFiles, OthersKept, TypeOK, ControlOf
  <2>2. ThreadControl(t)'
    BY <1>3, <1>5, NoThreadAssumption DEF NoMoreFiles, ThreadControl, ControlOf, ArgumentsOf, HashedOf,
       Idle, Locking, TypeOK
  <2> QED BY <1>1, <1>2, <2>1, <2>2, ControlOfStep
<1>6. CASE TakeFile(t)
  <2>1. \A u \in Thread : pc[u] \in {"nofile", "take"} <=> file_mutex = u
    BY DEF Control, ControlOf
  <2>2. OthersKept(t)
    BY <2>1, <1>6, NoThreadAssumption DEF TakeFile, OthersKept, TypeOK
  <2>3. ThreadControl(t)'
    BY <1>3, <1>6, NoThreadAssumption, StoreAssumption
       DEF TakeFile, ThreadControl, ControlOf, ArgumentsOf, HashedOf, Idle,
           Locking, TypeOK
  <2> QED BY <1>1, <1>2, <2>2, <2>3, ControlOfStep
<1> QED BY <1>4, <1>5, <1>6 DEF TakesFiles

\* A step that moves nothing but one thread, which stays in its job file.
LEMMA OthersOf ==
  ASSUME IInv, NEW t \in Thread, file_mutex' = file_mutex,
         current_index' = current_index,
         \A u \in Thread \ {t} :
           /\ pc'[u] = pc[u] /\ file'[u] = file[u] /\ args'[u] = args[u]
           /\ i'[u] = i[u] /\ hashed'[u] = hashed[u]
  PROVE  OthersKept(t)
BY DEF OthersKept

LEMMA OffsetKept ==
  ASSUME IInv, files' = files, offset' = offset
  PROVE  \A f \in File : (offset[f] <= Len(files[f]))'
BY DEF IInv, Control

LEMMA CommandRead ==
  ASSUME IInv, NEW t \in Thread, NEW ops, AtCommand(t, ops)
  PROVE  /\ file[t] \in File /\ file[t] # NoFile
         /\ Command(t) \in Cmd
         /\ Command(t).op \in ops
         /\ Command(t).op \in KeyOps => Command(t).pairs # << >>
         /\ Command(t).op = "WRITE" =>
              \A j \in DOMAIN Command(t).pairs :
                Command(t).pairs[j].value \in Value
         /\ ReadsCommand(t) /\ files' = files =>
              \A f \in File : (offset[f] <= Len(files[f]))'
<1> USE DEF IInv
<1>1. file[t] \in File /\ file[t] # NoFile
  BY DEF AtCommand, TypeOK, Control, ControlOf, Idle
<1>2. /\ files \in JobSets
      /\ offset[file[t]] \in Nat
      /\ files[file[t]] \in Seq(Cmd)
      /\ offset[file[t]] < Len(files[file[t]])
  BY <1>1 DEF AtCommand, TypeOK, Control
<1> DEFINE n == offset[file[t]] + 1
<1>3. n \in DOMAIN files[file[t]] /\ Command(t) = files[file[t]][n]
  BY <1>2 DEF Command
<1> HIDE DEF n
<1>4. Command(t) \in Cmd /\ Command(t).op \in ops
  BY <1>2, <1>3 DEF AtCommand, Command
<1>5. /\ Command(t).op \in KeyOps => Command(t).pairs # << >>
      /\ Command(t).op = "WRITE" =>
           \A j \in DOMAIN Command(t).pairs : Command(t).pairs[j].value \in Value
  BY <1>1, <1>2, <1>3, StoreAssumption
<1>6. ASSUME ReadsCommand(t), files' = files, NEW f \in File
      PROVE  (offset[f] <= Len(files[f]))'
  <2>1. CASE f = file[t]
    BY <1>1, <1>2, <1>6, <2>1 DEF ReadsCommand, TypeOK
  <2>2. CASE f # file[t]
    BY <1>6, <2>2 DEF ReadsCommand, TypeOK, Control
  <2> QED BY <2>1, <2>2
<1> QED BY <1>1, <1>4, <1>5, <1>6

LEMMA ControlStarts ==
  ASSUME IInv, NEW t \in Thread, Starts(t)
  PROVE  Control'
<1> USE DEF locks, jobs, backing, local, process, GoTo
<1>1. OthersKept(t)
  <2>1. file_mutex' = file_mutex /\ current_index' = current_index
    BY DEF Starts, StartKeyCommand, StartShow, StartBackup, SkipCommand,
           EndOfFile
  <2>2. \A u \in Thread \ {t} :
           /\ pc'[u] = pc[u] /\ file'[u] = file[u] /\ args'[u] = args[u]
           /\ i'[u] = i[u] /\ hashed'[u] = hashed[u]
    BY DEF IInv, TypeOK, Starts, StartKeyCommand, StartShow, StartBackup,
           SkipCommand, EndOfFile
  <2> QED BY <2>1, <2>2, OthersOf
<1>2. ControlOf(t)
  BY DEF IInv, Control
<1>3. CASE StartKeyCommand(t)
  <2>1. AtCommand(t, KeyOps) /\ pc[t] = "command" /\ ReadsCommand(t)
    BY <1>3 DEF StartKeyCommand, AtCommand
  <2> DEFINE sorted == insertionSort(Command(t).pairs)
  <2>2. Command(t).pairs \in Seq(Pair) /\ Command(t).op \in KeyOps
    BY <2>1, CommandRead DEF Cmd
  <2>3. /\ sorted \in Seq(Pair)
        /\ DOMAIN sorted = DOMAIN Command(t).pairs
        /\ \A r \in DOMAIN Command(t).pairs :
             \E n \in DOMAIN Command(t).pairs : sorted[r] = Command(t).pairs[n]
    <3>1. \A p \in Pair : p.key \in Nat
      BY TableAssumption DEF Pair
    <3> QED BY <2>2, <3>1, SortType
  <2> HIDE DEF sorted
  <2>4. 1 \in DOMAIN sorted
    <3>1. Command(t).pairs # << >>
      BY <2>1, <2>2, CommandRead
    <3>2. 1 \in DOMAIN Command(t).pairs
      BY <2>2, <3>1
    <3> QED BY <2>3, <3>2
  <2>5. Command(t).op = "WRITE" => \A j \in DOMAIN sorted : sorted[j].value \in Value
    BY <2>1, <2>3, CommandRead
  <2>6. /\ args'[t] = [op |-> Command(t).op, pairs |-> sorted]
        /\ i'[t] = 1
        /\ hashed'[t] = {}
        /\ pc'[t] = IF Command(t).op = "READ" THEN "lock" ELSE "rdlock"
        /\ file' = file /\ file_mutex' = file_mutex
    BY <1>3 DEF IInv, TypeOK, StartKeyCommand, sorted
  <2>7. ThreadControl(t)'
    <3>1. /\ Opcode(t)' = Command(t).op /\ Pairs(t)' = sorted
          /\ Mutates(t)' <=> Command(t).op \in {"WRITE", "DELETE"}
      BY <2>6 DEF Opcode, Pairs, Mutates
    <3>2. pc'[t] \in {"lock", "rdlock"} /\ (pc'[t] = "rdlock" => Mutates(t)')
      BY <2>2, <2>6, <3>1 DEF KeyOps
    <3>3. ControlOf(t)'
      BY <1>2, <2>1, <2>2, <2>4, <2>6, <3>1, <3>2
         DEF ControlOf, Idle, Locking
    <3>4. ArgumentsOf(t)'
      BY <2>5, <3>1 DEF ArgumentsOf
    <3>5. HashedOf(t)'
      BY <2>6, <3>2 DEF HashedOf
    <3> QED BY <3>3, <3>4, <3>5 DEF ThreadControl
  <2>8. files' = files /\ \A f \in File : (offset[f] <= Len(files[f]))'
    BY <1>3, <2>1, CommandRead DEF StartKeyCommand
  <2> QED BY <1>1, <2>7, <2>8, ControlOfStep
<1>4. CASE StartShow(t) \/ StartBackup(t)
  <2>1. AtCommand(t, {"SHOW", "BACKUP"}) /\ pc[t] = "command" /\ ReadsCommand(t)
    BY <1>4 DEF StartShow, StartBackup, AtCommand
  <2>2. /\ i'[t] = 0
        /\ pc'[t] \in {"showlock", "showslot", "backup"}
        /\ pc'[t] = "showlock" => UseRwlock
        /\ file' = file /\ file_mutex' = file_mutex
    BY <1>4 DEF IInv, TypeOK, StartShow, StartBackup
  <2>3. ThreadControl(t)'
    BY <1>2, <2>1, <2>2, TableAssumption
       DEF ThreadControl, ControlOf, ArgumentsOf, HashedOf, Idle, Locking
  <2>4. files' = files /\ \A f \in File : (offset[f] <= Len(files[f]))'
    BY <1>4, <2>1, CommandRead DEF StartShow, StartBackup
  <2> QED BY <1>1, <2>3, <2>4, ControlOfStep
<1>5. CASE SkipCommand(t)
  <2>1. AtCommand(t, {"WAIT", "INVALID"}) /\ ReadsCommand(t)
    BY <1>5 DEF SkipCommand
  <2>2. ThreadControl(t)'
    BY <1>5, ControlFrame DEF SkipCommand
  <2>3. files' = files /\ \A f \in File : (offset[f] <= Len(files[f]))'
    BY <1>5, <2>1, CommandRead DEF SkipCommand
  <2> QED BY <1>1, <2>2, <2>3, ControlOfStep
<1>6. CASE EndOfFile(t)
  <2>1. /\ pc[t] = "command" /\ pc'[t] = "fetch" /\ file'[t] = NoFile
        /\ file_mutex' = file_mutex
    BY <1>6 DEF IInv, TypeOK, EndOfFile
  <2>2. ThreadControl(t)'
    BY <1>2, <2>1
       DEF ThreadControl, ControlOf, ArgumentsOf, HashedOf, Idle, Locking
  <2>3. files' = files /\ offset' = offset
    BY <1>6 DEF EndOfFile
  <2> QED BY <1>1, <2>2, <2>3, OffsetKept, ControlOfStep
<1> QED BY <1>3, <1>4, <1>5, <1>6 DEF Starts

\* The loop over the pairs stays within them, and goes on from the first one.
LEMMA NextPairMoves ==
  ASSUME IInv, NEW t \in Thread, i[t] \in DOMAIN Pairs(t),
         NEW after \in Label, NextPair(t, after)
  PROVE  \/ /\ i[t] = Len(Pairs(t)) /\ i'[t] = 1 /\ pc'[t] = after
            /\ 1 \in DOMAIN Pairs(t)
         \/ /\ i'[t] = i[t] + 1 /\ pc'[t] = pc[t]
            /\ i[t] + 1 \in DOMAIN Pairs(t)
<1>1. /\ i \in [Thread -> Nat] /\ pc \in [Thread -> Label]
      /\ Pairs(t) \in Seq(Pair)
  BY DEF IInv, TypeOK, Cmd, Pairs
<1>2. CASE i[t] = Len(Pairs(t))
  BY <1>1, <1>2 DEF NextPair, GoTo
<1>3. CASE i[t] # Len(Pairs(t))
  <2>1. i' = [i EXCEPT ![t] = @ + 1] /\ pc' = pc
    BY <1>3 DEF NextPair
  <2> QED BY <1>1, <1>3, <2>1
<1> QED BY <1>2, <1>3

LEMMA ControlKeyCommand ==
  ASSUME IInv, NEW t \in Thread, KeyCommand(t)
  PROVE  Control'
<1> USE DEF locks, jobs, backing, local, process, GoTo
<1>1. /\ files' = files /\ offset' = offset /\ file' = file /\ args' = args
      /\ file_mutex' = file_mutex /\ current_index' = current_index
  BY DEF KeyCommand, RdLockTable, LockSlot, SkipSlot, WritePair, ReadPair,
         DeletePair, UnlockSlot, UnlockTable
<1>2. OthersKept(t)
  <2>1. \A u \in Thread \ {t} :
           /\ pc'[u] = pc[u] /\ file'[u] = file[u] /\ args'[u] = args[u]
           /\ i'[u] = i[u] /\ hashed'[u] = hashed[u]
    BY <1>1 DEF IInv, TypeOK, KeyCommand, RdLockTable, LockSlot, SkipSlot,
           WritePair, ReadPair, DeletePair, UnlockSlot, UnlockTable, NextPair
  <2> QED BY <1>1, <2>1, OthersOf
<1>3. ControlOf(t) /\ ArgumentsOf(t) /\ HashedOf(t)
  BY DEF IInv, Control
<1>4. Pairs(t)' = Pairs(t) /\ Opcode(t)' = Opcode(t) /\ (Mutates(t)' <=> Mutates(t))
  BY <1>1 DEF Pairs, Opcode, Mutates
<1>5. ASSUME ThreadControl(t)' PROVE Control'
  BY <1>1, <1>2, <1>5, OffsetKept, ControlOfStep
<1>6. /\ "apply" \in Label /\ "unlock" \in Label
      /\ i \in [Thread -> Nat] /\ pc \in [Thread -> Label]
      /\ hashed \in [Thread -> SUBSET Slot] /\ i[t] \in Nat
  BY DEF Label, IInv, TypeOK
<1>7. CASE RdLockTable(t)
  <2>1. pc[t] = "rdlock" /\ pc'[t] = "lock" /\ i' = i /\ hashed' = hashed
    BY <1>6, <1>7 DEF RdLockTable
  <2> QED BY <1>1, <1>3, <1>4, <1>5, <2>1
          DEF ThreadControl, ControlOf, ArgumentsOf, HashedOf, Idle, Locking
<1>8. CASE LockSlot(t) \/ SkipSlot(t)
  <2>1. /\ pc[t] = "lock" /\ i[t] \in DOMAIN Pairs(t) /\ NextPair(t, "apply")
        /\ hash(Pairs(t)[i[t]].key) \in hashed'[t]
        /\ hashed[t] \subseteq hashed'[t]
    BY <1>3, <1>6, <1>8 DEF LockSlot, SkipSlot, ControlOf, PairKey
  <2>2. /\ pc'[t] = "lock" => i'[t] = i[t] + 1 /\ i[t] + 1 \in DOMAIN Pairs(t)
        /\ pc'[t] = "apply" => i[t] = Len(Pairs(t)) /\ i'[t] = 1
                                 /\ 1 \in DOMAIN Pairs(t)
        /\ pc'[t] \in {"lock", "apply"}
    BY <1>6, <2>1, NextPairMoves
  <2>3. HashedOf(t)'
    <3>1. \A j \in 1 .. i[t] : hash(Pairs(t)[j].key) \in hashed'[t]
      BY <1>3, <1>6, <2>1 DEF HashedOf
    <3>2. DOMAIN Pairs(t) = 1 .. Len(Pairs(t))
      BY DEF IInv, TypeOK, Cmd, Pairs
    <3> QED BY <1>4, <1>6, <2>2, <3>1, <3>2 DEF HashedOf
  <2> QED BY <1>1, <1>3, <1>4, <1>5, <2>1, <2>2, <2>3
          DEF ThreadControl, ControlOf, ArgumentsOf, Idle, Locking
<1>9. CASE WritePair(t) \/ ReadPair(t) \/ DeletePair(t)
  <2>1. /\ pc[t] = "apply" /\ i[t] \in DOMAIN Pairs(t) /\ NextPair(t, "unlock")
        /\ hashed' = hashed
    BY <1>3, <1>9 DEF WritePair, ReadPair, DeletePair, Applies, ControlOf
  <2>2. /\ pc'[t] = "apply" => i'[t] \in DOMAIN Pairs(t)
        /\ pc'[t] \in {"apply", "unlock"}
    BY <1>6, <2>1, NextPairMoves
  <2>3. hashed[t] # {}
    BY <1>3, <2>1 DEF HashedOf
  <2> QED BY <1>1, <1>3, <1>4, <1>5, <2>1, <2>2, <2>3
          DEF ThreadControl, ControlOf, ArgumentsOf, HashedOf, Idle, Locking
<1>10. CASE UnlockSlot(t)
  <2> DEFINE s == CHOOSE s \in hashed[t] : \A r \in hashed[t] : s <= r
  <2>1. /\ pc[t] = "unlock" /\ i' = i
        /\ hashed'[t] = hashed[t] \ {s}
        /\ pc'[t] = IF hashed[t] = {s}
                    THEN IF Mutates(t) THEN "rdunlock" ELSE "command"
                    ELSE "unlock"
    BY <1>6, <1>10 DEF UnlockSlot
  <2> HIDE DEF s
  <2>2. hashed[t] # {} /\ (hashed[t] # {s} => hashed'[t] # {})
    BY <1>3, <2>1 DEF HashedOf
  <2> QED BY <1>1, <1>3, <1>4, <1>5, <2>1, <2>2
          DEF ThreadControl, ControlOf, ArgumentsOf, HashedOf, Idle, Locking
<1>11. CASE UnlockTable(t)
  <2>1. pc[t] = "rdunlock" /\ pc'[t] = "command" /\ i' = i /\ hashed' = hashed
    BY <1>6, <1>11 DEF UnlockTable
  <2> QED BY <1>1, <1>3, <1>4, <1>5, <2>1
          DEF ThreadControl, ControlOf, ArgumentsOf, HashedOf, Idle, Locking
<1> QED BY <1>7, <1>8, <1>9, <1>10, <1>11 DEF KeyCommand

LEMMA ControlShows ==
  ASSUME IInv, NEW t \in Thread, Shows(t)
  PROVE  Control'
<1> USE DEF locks, jobs, backing, local, process, GoTo
<1>1. /\ files' = files /\ offset' = offset /\ file' = file /\ args' = args
      /\ file_mutex' = file_mutex /\ current_index' = current_index
      /\ hashed' = hashed
  BY DEF Shows, ShowLock, ShowSlot, ShowNode, ShowNextSlot, ShowEnd, ShowTorn,
         ShowFreed, ShowCrash
<1>2. OthersKept(t)
  <2>1. \A u \in Thread \ {t} : pc'[u] = pc[u] /\ i'[u] = i[u]
    BY DEF IInv, TypeOK, Shows, ShowLock, ShowSlot, ShowNode, ShowNextSlot,
           ShowEnd, ShowTorn, ShowFreed, ShowCrash
  <2> QED BY <1>1, <2>1, OthersOf
<1>3. ControlOf(t)
  BY DEF IInv, Control
<1>4. /\ pc[t] \in {"showlock", "showslot", "shownode"}
      /\ pc'[t] \in {"showslot", "shownode", "command"}
      /\ pc'[t] = "showslot" => i'[t] <= TABLE_SIZE
      /\ pc'[t] = "shownode" => i'[t] < TABLE_SIZE
  <2>1. i[t] \in Nat /\ TABLE_SIZE \in Nat \ {0}
    BY TableAssumption DEF IInv, TypeOK
  <2>2. CASE ShowLock(t) \/ ShowSlot(t) \/ ShowEnd(t)
    BY <1>3, <2>1, <2>2 DEF IInv, TypeOK, ControlOf, ShowLock, ShowSlot, ShowEnd
  <2>3. CASE ShowNextSlot(t)
    BY <1>3, <2>1, <2>3 DEF IInv, TypeOK, ControlOf, ShowNextSlot
  <2>4. CASE ShowNode(t) \/ ShowTorn(t) \/ ShowFreed(t) \/ ShowCrash(t)
    BY <1>3, <2>1, <2>4 DEF ControlOf, ShowNode, ShowTorn, ShowFreed, ShowCrash
  <2> QED BY <2>2, <2>3, <2>4 DEF Shows
<1>5. ThreadControl(t)'
  BY <1>1, <1>3, <1>4
     DEF ThreadControl, ControlOf, ArgumentsOf, HashedOf, Idle, Locking
<1> QED BY <1>1, <1>2, <1>5, OffsetKept, ControlOfStep

LEMMA ControlBacksUp ==
  ASSUME IInv, NEW t \in Thread, BacksUp(t)
  PROVE  Control'
<1> USE DEF locks, jobs, backing, local, process, GoTo
<1>1. /\ files' = files /\ offset' = offset /\ file' = file /\ args' = args
      /\ file_mutex' = file_mutex /\ current_index' = current_index
      /\ hashed' = hashed
  BY DEF BacksUp, LockBackups, WaitChild, WaitNone, RdLockSlot, Fork,
         ForkFails, UnlockAllSlots, UnlockBackups
<1>2. OthersKept(t)
  <2>1. \A u \in Thread \ {t} : pc'[u] = pc[u] /\ i'[u] = i[u]
    BY DEF IInv, TypeOK, BacksUp, LockBackups, WaitChild, WaitNone,
           RdLockSlot, Fork, ForkFails, UnlockAllSlots, UnlockBackups
  <2> QED BY <1>1, <2>1, OthersOf
<1>3. ControlOf(t)
  BY DEF IInv, Control
<1> DEFINE Labels == {"backup", "wait", "rdlockall", "fork", "unlockall",
                      "unlockbackups"}
<1>4. /\ pc[t] \in Labels
      /\ pc'[t] \in Labels \cup {"command"}
      /\ pc'[t] \in {"backup", "wait", "fork"} => i'[t] = 0
      /\ pc'[t] \in {"rdlockall", "fork", "unlockall"} => i'[t] < TABLE_SIZE
  <2>1. i[t] \in Nat /\ TABLE_SIZE \in Nat \ {0}
    BY TableAssumption DEF IInv, TypeOK
  <2>2. i \in [Thread -> Nat] /\ pc \in [Thread -> Label]
    BY DEF IInv, TypeOK
  <2>3. CASE LockBackups(t) \/ WaitChild(t) \/ WaitNone(t) \/ UnlockBackups(t)
    BY <1>3, <2>1, <2>2, <2>3
       DEF ControlOf, LockBackups, WaitChild, WaitNone, UnlockBackups
  <2>4. CASE Fork(t) \/ ForkFails(t)
    BY <1>3, <2>1, <2>2, <2>4 DEF ControlOf, Fork, ForkFails
  <2>5. CASE RdLockSlot(t)
    <3>1. pc[t] = "rdlockall" /\ i[t] < TABLE_SIZE
      BY <1>3, <2>5 DEF RdLockSlot, ControlOf
    <3>2. CASE i[t] = TABLE_SIZE - 1
      BY <2>1, <2>2, <2>5, <3>1, <3>2 DEF RdLockSlot
    <3>3. CASE i[t] # TABLE_SIZE - 1
      <4>1. i'[t] = i[t] + 1 /\ pc'[t] = "rdlockall"
        BY <2>2, <2>5, <3>1, <3>3 DEF RdLockSlot
      <4> QED BY <2>1, <3>1, <3>3, <4>1
    <3> QED BY <3>2, <3>3
  <2>6. CASE UnlockAllSlots(t)
    <3>1. pc[t] = "unlockall" /\ i[t] < TABLE_SIZE
      BY <1>3, <2>6 DEF UnlockAllSlots, ControlOf
    <3>2. CASE i[t] = TABLE_SIZE - 1
      BY <2>1, <2>2, <2>6, <3>1, <3>2 DEF UnlockAllSlots
    <3>3. CASE i[t] # TABLE_SIZE - 1
      <4>1. i'[t] = i[t] + 1 /\ pc'[t] = "unlockall"
        BY <2>2, <2>6, <3>1, <3>3 DEF UnlockAllSlots
      <4> QED BY <2>1, <3>1, <3>3, <4>1
    <3> QED BY <3>2, <3>3
  <2> QED BY <2>3, <2>4, <2>5, <2>6 DEF BacksUp
<1>5. ThreadControl(t)'
  BY <1>1, <1>3, <1>4
     DEF ThreadControl, ControlOf, ArgumentsOf, HashedOf, Idle, Locking
<1> QED BY <1>1, <1>2, <1>5, OffsetKept, ControlOfStep

LEMMA ControlStep == IInv /\ [Next]_vars => Control'
<1> SUFFICES ASSUME IInv, [Next]_vars PROVE Control'
  OBVIOUS
<1>1. ASSUME NEW t \in Thread, ThreadStep(t) PROVE Control'
  BY <1>1, ControlTakesFiles, ControlStarts, ControlKeyCommand, ControlShows,
     ControlBacksUp DEF ThreadStep
<1>2. CASE UNCHANGED <<jobs, pc, local>>
  <2>1. \A u \in Thread : ThreadControl(u)'
    BY <1>2, ControlFrame DEF jobs, local
  <2> QED BY <1>2, <2>1, OffsetKept DEF Control, ThreadControl, IInv, jobs
<1>3. MainStep \/ ChildStep \/ Terminated \/ UNCHANGED vars
        => UNCHANGED <<jobs, pc, local>>
  BY DEF MainStep, MainJoin, MainReap, MainSpin, MainExit, ChildStep,
         ChildBackup, Terminated, vars
<1> QED BY <1>1, <1>2, <1>3 DEF Next

-----------------------------------------------------------------------------
(* The holders of the locks. *)

\* What the thread holds is told by its control.
LEMMA HeldFrame ==
  ASSUME NEW u \in Thread,
         pc'[u] = pc[u], args'[u] = args[u], i'[u] = i[u],
         hashed'[u] = hashed[u]
  PROVE  /\ ReadHeld(u)' = ReadHeld(u) /\ WriteHeld(u)' = WriteHeld(u)
         /\ TableReader(u)' <=> TableReader(u)
         /\ TableWriter(u)' <=> TableWriter(u)
BY DEF ReadHeld, WriteHeld, TableReader, TableWriter, Mutates, Opcode

\* The chain locks the other threads hold do not change.
OthersHold(t) ==
  \A u \in Thread \ {t} :
    ReadHeld(u)' = ReadHeld(u) /\ WriteHeld(u)' = WriteHeld(u)

\* The lock of the table has the same holders.
TableHeldAlike ==
  /\ rwlock' = rwlock
  /\ \A u \in Thread :
       /\ TableReader(u)' <=> TableReader(u)
       /\ TableWriter(u)' <=> TableWriter(u)

\* The chain locks have the same holders.
SlotsHeldAlike ==
  /\ rwlock_array' = rwlock_array
  /\ \A u \in Thread : ReadHeld(u)' = ReadHeld(u) /\ WriteHeld(u)' = WriteHeld(u)

SlotHolders ==
  /\ \A s \in Slot : Exclusive(rwlock_array[s])
  /\ \A t \in Thread, s \in Slot :
       /\ t \in rwlock_array[s].readers <=> s \in ReadHeld(t)
       /\ t = rwlock_array[s].writer <=> s \in WriteHeld(t)

TableHolders ==
  /\ Exclusive(rwlock)
  /\ \A t \in Thread : /\ t \in rwlock.readers <=> TableReader(t)
                       /\ t = rwlock.writer <=> TableWriter(t)

LEMMA HoldersSplit == LockHolders <=> SlotHolders /\ TableHolders
BY DEF LockHolders, SlotHolders, TableHolders

LEMMA HoldersSplitNext ==
  ASSUME SlotHolders', TableHolders'
  PROVE  LockHolders'
<1>1. Exclusive(rwlock)' /\ \A s \in Slot : Exclusive(rwlock_array[s])'
  BY DEF SlotHolders, TableHolders
<1>2. ASSUME NEW t \in Thread
      PROVE  /\ (t \in rwlock.readers <=> TableReader(t))'
             /\ (t = rwlock.writer <=> TableWriter(t))'
             /\ \A s \in Slot :
                  /\ (t \in rwlock_array[s].readers <=> s \in ReadHeld(t))'
                  /\ (t = rwlock_array[s].writer <=> s \in WriteHeld(t))'
  BY DEF SlotHolders, TableHolders
<1> QED BY <1>1, <1>2 DEF LockHolders

LEMMA TableAlike ==
  ASSUME TableHolders, TableHeldAlike
  PROVE  TableHolders'
<1>1. Exclusive(rwlock)'
  BY DEF TableHolders, TableHeldAlike, Exclusive
<1>2. ASSUME NEW t \in Thread
      PROVE  /\ (t \in rwlock.readers <=> TableReader(t))'
             /\ (t = rwlock.writer <=> TableWriter(t))'
  BY DEF TableHolders, TableHeldAlike
<1> QED BY <1>1, <1>2 DEF TableHolders

LEMMA SlotsAlike ==
  ASSUME SlotHolders, SlotsHeldAlike
  PROVE  SlotHolders'
<1>1. \A s \in Slot : Exclusive(rwlock_array[s])'
  BY DEF SlotHolders, SlotsHeldAlike, Exclusive
<1>2. ASSUME NEW t \in Thread, NEW s \in Slot
      PROVE  /\ (t \in rwlock_array[s].readers <=> s \in ReadHeld(t))'
             /\ (t = rwlock_array[s].writer <=> s \in WriteHeld(t))'
  BY DEF SlotHolders, SlotsHeldAlike
<1> QED BY <1>1, <1>2 DEF SlotHolders

\* A reader enters a chain no writer holds.
LEMMA SlotReadTaken ==
  ASSUME IInv, NEW t \in Thread, NEW s \in Slot, OthersHold(t),
         CanRead(rwlock_array[s]),
         rwlock_array' = [rwlock_array EXCEPT ![s] = ReadLocked(@, t)],
         WriteHeld(t)' = WriteHeld(t), ReadHeld(t)' = ReadHeld(t) \cup {s}
  PROVE  SlotHolders'
<1>1. SlotHolders /\ rwlock_array \in [Slot -> RWLocks]
  BY HoldersSplit DEF IInv, TypeOK
<1>2. /\ rwlock_array'[s].readers = rwlock_array[s].readers \cup {t}
      /\ rwlock_array'[s].writer = NoThread
      /\ rwlock_array[s].writer = NoThread
  BY <1>1 DEF ReadLocked, CanRead, RWLocks
<1>3. \A r \in Slot \ {s} : rwlock_array'[r] = rwlock_array[r]
  BY <1>1
<1>4. \A r \in Slot : Exclusive(rwlock_array[r])'
  BY <1>1, <1>2, <1>3 DEF Exclusive, SlotHolders
<1>5. ASSUME NEW u \in Thread, NEW r \in Slot
      PROVE  /\ (u \in rwlock_array[r].readers <=> r \in ReadHeld(u))'
             /\ (u = rwlock_array[r].writer <=> r \in WriteHeld(u))'
  BY <1>1, <1>2, <1>3 DEF SlotHolders, OthersHold
<1> QED BY <1>4, <1>5 DEF SlotHolders

\* A writer enters a chain nobody holds.
LEMMA SlotWriteTaken ==
  ASSUME IInv, NEW t \in Thread, NEW s \in Slot, OthersHold(t),
         CanWrite(rwlock_array[s]),
         rwlock_array' = [rwlock_array EXCEPT ![s] = WriteLocked(@, t)],
         WriteHeld(t)' = WriteHeld(t) \cup {s}, ReadHeld(t)' = ReadHeld(t)
  PROVE  SlotHolders'
<1>1. SlotHolders /\ rwlock_array \in [Slot -> RWLocks]
  BY HoldersSplit DEF IInv, TypeOK
<1>2. /\ rwlock_array'[s].readers = {}
      /\ rwlock_array'[s].writer = t
      /\ rwlock_array[s].readers = {}
      /\ rwlock_array[s].writer = NoThread
  BY <1>1 DEF WriteLocked, CanWrite, RWLocks
<1>3. \A r \in Slot \ {s} : rwlock_array'[r] = rwlock_array[r]
  BY <1>1
<1>4. \A r \in Slot : Exclusive(rwlock_array[r])'
  BY <1>1, <1>2, <1>3 DEF Exclusive, SlotHolders
<1>5. ASSUME NEW u \in Thread, NEW r \in Slot
      PROVE  /\ (u \in rwlock_array[r].readers <=> r \in ReadHeld(u))'
             /\ (u = rwlock_array[r].writer <=> r \in WriteHeld(u))'
  BY <1>1, <1>2, <1>3, NoThreadAssumption DEF SlotHolders, OthersHold
<1> QED BY <1>4, <1>5 DEF SlotHolders

\* A holder leaves a chain, whichever way it held it.
LEMMA SlotReleased ==
  ASSUME IInv, NEW t \in Thread, NEW s \in Slot, OthersHold(t),
         rwlock_array' = [rwlock_array EXCEPT ![s] = Released(@, t)],
         s \in ReadHeld(t) \cup WriteHeld(t),
         WriteHeld(t)' = WriteHeld(t) \ {s}, ReadHeld(t)' = ReadHeld(t) \ {s}
  PROVE  SlotHolders'
<1>1. SlotHolders /\ rwlock_array \in [Slot -> RWLocks]
  BY HoldersSplit DEF IInv, TypeOK
<1>2. \A r \in Slot \ {s} : rwlock_array'[r] = rwlock_array[r]
  BY <1>1
<1>3. CASE rwlock_array[s].writer = t
  <2>1. /\ rwlock_array'[s].readers = rwlock_array[s].readers
        /\ rwlock_array[s].readers = {}
        /\ rwlock_array'[s].writer = NoThread
    BY <1>1, <1>3, NoThreadAssumption DEF Released, RWLocks, SlotHolders, Exclusive
  <2>2. \A r \in Slot : Exclusive(rwlock_array[r])'
    BY <1>1, <1>2, <2>1 DEF Exclusive, SlotHolders
  <2>3. ASSUME NEW u \in Thread, NEW r \in Slot
        PROVE  /\ (u \in rwlock_array[r].readers <=> r \in ReadHeld(u))'
               /\ (u = rwlock_array[r].writer <=> r \in WriteHeld(u))'
    BY <1>1, <1>2, <1>3, <2>1, NoThreadAssumption DEF SlotHolders, OthersHold
  <2> QED BY <2>2, <2>3 DEF SlotHolders
<1>4. CASE rwlock_array[s].writer # t
  <2>1. /\ rwlock_array'[s].readers = rwlock_array[s].readers \ {t}
        /\ rwlock_array'[s].writer = rwlock_array[s].writer
    BY <1>1, <1>4 DEF Released, RWLocks
  <2>2. \A r \in Slot : Exclusive(rwlock_array[r])'
    BY <1>1, <1>2, <2>1 DEF Exclusive, SlotHolders
  <2>3. ASSUME NEW u \in Thread, NEW r \in Slot
        PROVE  /\ (u \in rwlock_array[r].readers <=> r \in ReadHeld(u))'
               /\ (u = rwlock_array[r].writer <=> r \in WriteHeld(u))'
    BY <1>1, <1>2, <1>4, <2>1 DEF SlotHolders, OthersHold
  <2> QED BY <2>2, <2>3 DEF SlotHolders
<1> QED BY <1>3, <1>4

\* The holders of the table's lock among the other threads do not change.
OthersHoldTable(t) ==
  \A u \in Thread \ {t} :
    /\ TableReader(u)' <=> TableReader(u)
    /\ TableWriter(u)' <=> TableWriter(u)

LEMMA OthersHeld ==
  ASSUME NEW t \in Thread,
         \A u \in Thread \ {t} :
           /\ pc'[u] = pc[u] /\ args'[u] = args[u]
           /\ i'[u] = i[u] /\ hashed'[u] = hashed[u]
  PROVE  OthersHold(t) /\ OthersHoldTable(t)
BY HeldFrame DEF OthersHold, OthersHoldTable

\* WRITE and DELETE enter the table when no SHOW is in it.
LEMMA TableReadTaken ==
  ASSUME IInv, NEW t \in Thread, OthersHoldTable(t),
         CanRead(rwlock), rwlock' = ReadLocked(rwlock, t),
         TableReader(t)', TableWriter(t)' <=> TableWriter(t)
  PROVE  TableHolders'
<1>1. TableHolders /\ rwlock \in RWLocks
  BY HoldersSplit DEF IInv, TypeOK
<1>2. /\ rwlock'.readers = rwlock.readers \cup {t}
      /\ rwlock'.writer = rwlock.writer
      /\ rwlock.writer = NoThread
  BY <1>1 DEF ReadLocked, CanRead, RWLocks
<1>3. Exclusive(rwlock)'
  BY <1>2 DEF Exclusive
<1>4. ASSUME NEW u \in Thread
      PROVE  /\ (u \in rwlock.readers <=> TableReader(u))'
             /\ (u = rwlock.writer <=> TableWriter(u))'
  BY <1>1, <1>2 DEF TableHolders, OthersHoldTable
<1> QED BY <1>3, <1>4 DEF TableHolders

\* A SHOW enters the table when nobody is in it.
LEMMA TableWriteTaken ==
  ASSUME IInv, NEW t \in Thread, OthersHoldTable(t),
         CanWrite(rwlock), rwlock' = WriteLocked(rwlock, t),
         TableWriter(t)', TableReader(t)' <=> TableReader(t)
  PROVE  TableHolders'
<1>1. TableHolders /\ rwlock \in RWLocks
  BY HoldersSplit DEF IInv, TypeOK
<1>2. /\ rwlock'.readers = rwlock.readers /\ rwlock.readers = {}
      /\ rwlock'.writer = t /\ rwlock.writer = NoThread
  BY <1>1 DEF WriteLocked, CanWrite, RWLocks
<1>3. Exclusive(rwlock)'
  BY <1>2 DEF Exclusive
<1>4. ASSUME NEW u \in Thread
      PROVE  /\ (u \in rwlock.readers <=> TableReader(u))'
             /\ (u = rwlock.writer <=> TableWriter(u))'
  BY <1>1, <1>2, NoThreadAssumption DEF TableHolders, OthersHoldTable
<1> QED BY <1>3, <1>4 DEF TableHolders

\* Whoever leaves the table was in it.
LEMMA TableReleased ==
  ASSUME IInv, NEW t \in Thread, OthersHoldTable(t),
         rwlock' = Released(rwlock, t),
         ~TableReader(t)', ~TableWriter(t)', TableReader(t) \/ TableWriter(t)
  PROVE  TableHolders'
<1>1. TableHolders /\ rwlock \in RWLocks
  BY HoldersSplit DEF IInv, TypeOK
<1>2. CASE rwlock.writer = t
  <2>1. /\ rwlock'.readers = rwlock.readers /\ rwlock.readers = {}
        /\ rwlock'.writer = NoThread
    BY <1>1, <1>2, NoThreadAssumption
       DEF Released, RWLocks, TableHolders, Exclusive
  <2>2. Exclusive(rwlock)'
    BY <2>1 DEF Exclusive
  <2>3. ASSUME NEW u \in Thread
        PROVE  /\ (u \in rwlock.readers <=> TableReader(u))'
               /\ (u = rwlock.writer <=> TableWriter(u))'
    BY <1>1, <1>2, <2>1, NoThreadAssumption DEF TableHolders, OthersHoldTable
  <2> QED BY <2>2, <2>3 DEF TableHolders
<1>3. CASE rwlock.writer # t
  <2>1. /\ rwlock'.readers = rwlock.readers \ {t}
        /\ rwlock'.writer = rwlock.writer
    BY <1>1, <1>3 DEF Released, RWLocks
  <2>2. Exclusive(rwlock)'
    BY <1>1, <2>1 DEF Exclusive, TableHolders
  <2>3. ASSUME NEW u \in Thread
        PROVE  /\ (u \in rwlock.readers <=> TableReader(u))'
               /\ (u = rwlock.writer <=> TableWriter(u))'
    BY <1>1, <1>3, <2>1 DEF TableHolders, OthersHoldTable
  <2> QED BY <2>2, <2>3 DEF TableHolders
<1> QED BY <1>2, <1>3

\* A step that touches no lock and moves a thread between places that hold
\* the same locks.
LEMMA HoldersUntouched ==
  ASSUME IInv, NEW t \in Thread, OthersHold(t), OthersHoldTable(t),
         UNCHANGED locks,
         ReadHeld(t)' = ReadHeld(t), WriteHeld(t)' = WriteHeld(t),
         TableReader(t)' <=> TableReader(t), TableWriter(t)' <=> TableWriter(t)
  PROVE  LockHolders'
<1>1. SlotHolders /\ TableHolders
  BY HoldersSplit DEF IInv
<1>2. SlotsHeldAlike
  BY DEF SlotsHeldAlike, OthersHold, locks
<1>3. TableHeldAlike
  BY DEF TableHeldAlike, OthersHoldTable, locks
<1> QED BY <1>1, <1>2, <1>3, SlotsAlike, TableAlike, HoldersSplitNext

\* A step on the lock of the table alone, and one on the chain locks alone.
LEMMA HoldersOfTable ==
  ASSUME IInv, NEW t \in Thread, OthersHold(t), rwlock_array' = rwlock_array,
         ReadHeld(t)' = ReadHeld(t), WriteHeld(t)' = WriteHeld(t),
         TableHolders'
  PROVE  LockHolders'
<1>1. SlotHolders
  BY HoldersSplit DEF IInv
<1>2. SlotsHeldAlike
  BY DEF SlotsHeldAlike, OthersHold
<1> QED BY <1>1, <1>2, SlotsAlike, HoldersSplitNext

LEMMA HoldersOfSlots ==
  ASSUME IInv, NEW t \in Thread, OthersHoldTable(t), rwlock' = rwlock,
         TableReader(t)' <=> TableReader(t), TableWriter(t)' <=> TableWriter(t),
         SlotHolders'
  PROVE  LockHolders'
<1>1. TableHolders
  BY HoldersSplit DEF IInv
<1>2. TableHeldAlike
  BY DEF TableHeldAlike, OthersHoldTable
<1> QED BY <1>1, <1>2, TableAlike, HoldersSplitNext

LEMMA HoldersTakesFiles ==
  ASSUME IInv, NEW t \in Thread, TakesFiles(t)
  PROVE  LockHolders'
<1> USE DEF locks, jobs, backing, local, process, GoTo
<1>1. /\ UNCHANGED locks
      /\ \A u \in Thread \ {t} :
           /\ pc'[u] = pc[u] /\ args'[u] = args[u]
           /\ i'[u] = i[u] /\ hashed'[u] = hashed[u]
  BY DEF IInv, TypeOK, TakesFiles, LockFiles, NoMoreFiles, TakeFile
<1>2. /\ pc[t] \in {"fetch", "nofile", "take"}
      /\ pc'[t] \in {"nofile", "take", "done", "command"}
  BY DEF IInv, TypeOK, TakesFiles, LockFiles, NoMoreFiles, TakeFile
<1>3. /\ ReadHeld(t)' = ReadHeld(t) /\ WriteHeld(t)' = WriteHeld(t)
      /\ TableReader(t)' <=> TableReader(t)
      /\ TableWriter(t)' <=> TableWriter(t)
  BY <1>2 DEF ReadHeld, WriteHeld, TableReader, TableWriter, Locking
<1> QED BY <1>1, <1>3, OthersHeld, HoldersUntouched

LEMMA HoldersStarts ==
  ASSUME IInv, NEW t \in Thread, Starts(t)
  PROVE  LockHolders'
<1> USE DEF locks, jobs, backing, local, process, GoTo
<1>1. /\ UNCHANGED locks
      /\ \A u \in Thread \ {t} :
           /\ pc'[u] = pc[u] /\ args'[u] = args[u]
           /\ i'[u] = i[u] /\ hashed'[u] = hashed[u]
  BY DEF IInv, TypeOK, Starts, StartKeyCommand, StartShow, StartBackup,
         SkipCommand, EndOfFile
<1>2. /\ pc[t] = "command"
      /\ pc'[t] \in {"command", "lock", "rdlock", "showlock", "showslot",
                     "backup", "fetch"}
      /\ pc'[t] = "lock" => hashed'[t] = {}
      /\ pc'[t] = "lock" => args'[t].op = "READ"
      /\ pc'[t] = "showslot" => ~UseRwlock
  BY DEF IInv, TypeOK, Starts, StartKeyCommand, StartShow, StartBackup,
         SkipCommand, EndOfFile, AtCommand
<1>3. /\ ReadHeld(t)' = ReadHeld(t) /\ WriteHeld(t)' = WriteHeld(t)
      /\ TableReader(t)' <=> TableReader(t)
      /\ TableWriter(t)' <=> TableWriter(t)
  BY <1>2 DEF ReadHeld, WriteHeld, TableReader, TableWriter, Locking, Mutates,
              Opcode
<1> QED BY <1>1, <1>3, OthersHeld, HoldersUntouched

LEMMA HoldersShows ==
  ASSUME IInv, NEW t \in Thread, Shows(t)
  PROVE  LockHolders'
<1> USE DEF locks, jobs, backing, local, process, GoTo
<1>1. /\ rwlock_array' = rwlock_array
      /\ \A u \in Thread \ {t} :
           /\ pc'[u] = pc[u] /\ args'[u] = args[u]
           /\ i'[u] = i[u] /\ hashed'[u] = hashed[u]
  BY DEF IInv, TypeOK, Shows, ShowLock, ShowSlot, ShowNode, ShowNextSlot,
         ShowEnd, ShowTorn, ShowFreed, ShowCrash
<1>2. OthersHold(t) /\ OthersHoldTable(t)
  BY <1>1, OthersHeld
<1>3. /\ pc[t] \in {"showlock", "showslot", "shownode"}
      /\ pc'[t] \in {"showslot", "shownode", "command"}
  BY DEF IInv, TypeOK, Shows, ShowLock, ShowSlot, ShowNode, ShowNextSlot,
         ShowEnd, ShowTorn, ShowFreed, ShowCrash
<1>4. /\ ReadHeld(t)' = ReadHeld(t) /\ WriteHeld(t)' = WriteHeld(t)
      /\ ~TableReader(t)' /\ ~TableReader(t)
  BY <1>3 DEF ReadHeld, WriteHeld, TableReader, Locking
<1>5. CASE ShowLock(t)
  <2>1. /\ pc'[t] = "showslot" /\ pc[t] = "showlock"
        /\ CanWrite(rwlock) /\ rwlock' = WriteLocked(rwlock, t)
    BY <1>5 DEF IInv, TypeOK, ShowLock
  <2>2. UseRwlock
    BY <2>1 DEF IInv, Control, ControlOf
  <2>3. TableHolders'
    BY <1>2, <1>4, <2>1, <2>2, TableWriteTaken DEF TableWriter
  <2> QED BY <1>1, <1>2, <1>4, <2>3, HoldersOfTable
<1>6. CASE ShowEnd(t)
  <2>1. pc'[t] = "command" /\ pc[t] = "showslot"
    BY <1>6 DEF IInv, TypeOK, ShowEnd
  <2>2. ~TableWriter(t)'
    BY <2>1 DEF TableWriter
  <2>3. CASE UseRwlock
    <3>1. rwlock' = Released(rwlock, t) /\ TableWriter(t)
      BY <1>6, <2>1, <2>3 DEF ShowEnd, TableWriter
    <3>2. TableHolders'
      BY <1>2, <1>4, <2>2, <3>1, TableReleased
    <3> QED BY <1>1, <1>2, <1>4, <3>2, HoldersOfTable
  <2>4. CASE ~UseRwlock
    <3>1. UNCHANGED locks /\ ~TableWriter(t)
      BY <1>1, <1>6, <2>4 DEF ShowEnd, TableWriter
    <3> QED BY <1>2, <1>4, <2>2, <3>1, HoldersUntouched
  <2> QED BY <2>3, <2>4
<1>7. CASE \/ ShowSlot(t) \/ ShowNode(t) \/ ShowNextSlot(t)
           \/ ShowTorn(t) \/ ShowFreed(t) \/ ShowCrash(t)
  <2>1. /\ UNCHANGED locks
        /\ pc[t] \in {"showslot", "shownode"}
        /\ pc'[t] \in {"showslot", "shownode"}
    BY <1>7 DEF IInv, TypeOK, ShowSlot, ShowNode, ShowNextSlot, ShowTorn,
                ShowFreed, ShowCrash
  <2>2. TableWriter(t)' <=> TableWriter(t)
    BY <2>1 DEF TableWriter
  <2> QED BY <1>2, <1>4, <2>1, <2>2, HoldersUntouched
<1> QED BY <1>5, <1>6, <1>7 DEF Shows

LEMMA HoldersBacksUp ==
  ASSUME IInv, NEW t \in Thread, BacksUp(t)
  PROVE  LockHolders'
<1> USE DEF locks, jobs, backing, local, process, GoTo
<1>1. /\ rwlock' = rwlock
      /\ \A u \in Thread \ {t} :
           /\ pc'[u] = pc[u] /\ args'[u] = args[u]
           /\ i'[u] = i[u] /\ hashed'[u] = hashed[u]
  BY DEF IInv, TypeOK, BacksUp, LockBackups, WaitChild, WaitNone,
         RdLockSlot, Fork, ForkFails, UnlockAllSlots, UnlockBackups
<1>2. OthersHold(t) /\ OthersHoldTable(t)
  BY <1>1, OthersHeld
<1> DEFINE Labels == {"backup", "wait", "rdlockall", "fork", "unlockall",
                      "unlockbackups"}
<1>3. pc[t] \in Labels /\ pc'[t] \in Labels \cup {"command"}
  BY DEF IInv, TypeOK, BacksUp, LockBackups, WaitChild, WaitNone,
         RdLockSlot, Fork, ForkFails, UnlockAllSlots, UnlockBackups
<1>4. /\ WriteHeld(t)' = {} /\ WriteHeld(t) = {}
      /\ TableReader(t)' <=> TableReader(t)
      /\ TableWriter(t)' <=> TableWriter(t)
  BY <1>3 DEF WriteHeld, TableReader, TableWriter, Locking
<1>5. /\ i \in [Thread -> Nat] /\ i[t] \in Nat /\ pc \in [Thread -> Label]
      /\ TABLE_SIZE \in Nat \ {0}
      /\ ControlOf(t)
  BY TableAssumption DEF IInv, TypeOK, Control
<1>6. ASSUME UNCHANGED locks, ReadHeld(t)' = ReadHeld(t) PROVE LockHolders'
  BY <1>2, <1>4, <1>6, HoldersUntouched
<1>7. CASE LockBackups(t) \/ WaitChild(t) \/ WaitNone(t) \/ UnlockBackups(t)
  <2>1. /\ UNCHANGED locks
        /\ pc[t] \in {"backup", "wait", "unlockbackups"}
        /\ pc'[t] \in {"wait", "rdlockall", "command"}
        /\ pc'[t] = "rdlockall" => i'[t] = 0
    BY <1>5, <1>7 DEF LockBackups, WaitChild, WaitNone, UnlockBackups, ControlOf
  <2>2. ReadHeld(t) = {} /\ ReadHeld(t)' = {}
    BY <2>1 DEF ReadHeld, Locking
  <2> QED BY <1>6, <2>1, <2>2
<1>8. CASE Fork(t) \/ ForkFails(t)
  <2>1. /\ UNCHANGED locks
        /\ pc[t] = "fork" /\ pc'[t] = "unlockall" /\ i'[t] = 0
    BY <1>5, <1>8 DEF Fork, ForkFails, ControlOf
  <2>2. ReadHeld(t) = Slot /\ ReadHeld(t)' = Slot
    BY <2>1 DEF ReadHeld, Locking, Slot
  <2> QED BY <1>6, <2>1, <2>2
<1>9. CASE RdLockSlot(t)
  <2>1. /\ pc[t] = "rdlockall" /\ i[t] \in Slot /\ CanRead(rwlock_array[i[t]])
        /\ rwlock_array' = [rwlock_array EXCEPT ![i[t]] = ReadLocked(@, t)]
    BY <1>5, <1>9 DEF RdLockSlot, ControlOf, Slot
  <2>2. ReadHeld(t) = 0 .. i[t] - 1
    BY <2>1 DEF ReadHeld, Locking
  <2>3. ReadHeld(t)' = ReadHeld(t) \cup {i[t]}
    <3>1. CASE i[t] = TABLE_SIZE - 1
      <4>1. pc'[t] = "fork"
        BY <1>5, <1>9, <3>1 DEF RdLockSlot
      <4>2. ReadHeld(t)' = Slot
        BY <4>1 DEF ReadHeld, Locking
      <4> QED BY <1>5, <2>2, <3>1, <4>2 DEF Slot
    <3>2. CASE i[t] # TABLE_SIZE - 1
      <4>1. pc'[t] = "rdlockall" /\ i'[t] = i[t] + 1
        BY <1>5, <1>9, <2>1, <3>2 DEF RdLockSlot
      <4>2. ReadHeld(t)' = 0 .. i'[t] - 1
        BY <4>1 DEF ReadHeld, Locking
      <4> QED BY <1>5, <2>2, <4>1, <4>2
    <3> QED BY <3>1, <3>2
  <2>4. SlotHolders'
    BY <1>2, <1>4, <2>1, <2>3, SlotReadTaken
  <2> QED BY <1>1, <1>2, <1>4, <2>4, HoldersOfSlots
<1>10. CASE UnlockAllSlots(t)
  <2>1. /\ pc[t] = "unlockall" /\ i[t] \in Slot
        /\ rwlock_array' = [rwlock_array EXCEPT ![i[t]] = Released(@, t)]
    BY <1>5, <1>10 DEF UnlockAllSlots, ControlOf, Slot
  <2>2. ReadHeld(t) = i[t] .. TABLE_SIZE - 1
    BY <2>1 DEF ReadHeld, Locking
  <2>3. ReadHeld(t)' = ReadHeld(t) \ {i[t]}
    <3>1. CASE i[t] = TABLE_SIZE - 1
      <4>1. pc'[t] = "unlockbackups"
        BY <1>5, <1>10, <3>1 DEF UnlockAllSlots
      <4>2. ReadHeld(t)' = {}
        BY <4>1 DEF ReadHeld, Locking
      <4> QED BY <1>5, <2>2, <3>1, <4>2
    <3>2. CASE i[t] # TABLE_SIZE - 1
      <4>1. pc'[t] = "unlockall" /\ i'[t] = i[t] + 1
        BY <1>5, <1>10, <2>1, <3>2 DEF UnlockAllSlots
      <4>2. ReadHeld(t)' = i'[t] .. TABLE_SIZE - 1
        BY <4>1 DEF ReadHeld, Locking
      <4> QED BY <1>5, <2>2, <4>1, <4>2
    <3> QED BY <3>1, <3>2
  <2>4. i[t] \in ReadHeld(t)
    BY <1>5, <2>1, <2>2 DEF Slot
  <2>5. SlotHolders'
    BY <1>2, <1>4, <2>1, <2>3, <2>4, SlotReleased
  <2> QED BY <1>1, <1>2, <1>4, <2>5, HoldersOfSlots
<1> QED BY <1>7, <1>8, <1>9, <1>10 DEF BacksUp

\* The chain an unlocking thread releases next is one it holds.
LEMMA LowestHeld ==
  ASSUME IInv, NEW t \in Thread, pc[t] = "unlock"
  PROVE  (CHOOSE s \in hashed[t] : \A r \in hashed[t] : s <= r)
           \in hashed[t] \cap Slot
<1>1. hashed[t] \in SUBSET Nat /\ hashed[t] # {} /\ hashed[t] \subseteq Slot
  BY TableAssumption DEF IInv, TypeOK, Slot, Control, HashedOf
<1>2. \E s \in hashed[t] : \A r \in hashed[t] : s <= r
  BY <1>1, LeastNumber
<1> QED BY <1>1, <1>2

LEMMA HoldersKeyCommand ==
  ASSUME IInv, NEW t \in Thread, KeyCommand(t)
  PROVE  LockHolders'
<1> USE DEF locks, jobs, backing, local, process, GoTo
<1>1. /\ args' = args
      /\ \A u \in Thread \ {t} :
           /\ pc'[u] = pc[u] /\ args'[u] = args[u]
           /\ i'[u] = i[u] /\ hashed'[u] = hashed[u]
  BY DEF IInv, TypeOK, KeyCommand, RdLockTable, LockSlot, SkipSlot, WritePair,
         ReadPair, DeletePair, UnlockSlot, UnlockTable, NextPair
<1>2. OthersHold(t) /\ OthersHoldTable(t)
  BY <1>1, OthersHeld
<1>3. Opcode(t)' = Opcode(t) /\ Mutates(t)' = Mutates(t) /\ Pairs(t)' = Pairs(t)
  BY <1>1 DEF Opcode, Mutates, Pairs
<1>4. /\ ControlOf(t) /\ HashedOf(t)
      /\ pc \in [Thread -> Label] /\ hashed \in [Thread -> SUBSET Slot]
      /\ i \in [Thread -> Nat]
      /\ "apply" \in Label /\ "unlock" \in Label
  BY DEF IInv, TypeOK, Control, Label
<1>5. /\ pc[t] \in {"rdlock", "rdunlock"} \cup Locking
      /\ pc'[t] \in {"rdunlock", "command"} \cup Locking
  BY <1>4 DEF KeyCommand, RdLockTable, LockSlot, SkipSlot, WritePair, ReadPair,
              DeletePair, UnlockSlot, UnlockTable, NextPair, Applies, Locking
<1>6. ~TableWriter(t) /\ ~TableWriter(t)'
  BY <1>5 DEF TableWriter, Locking
<1>7. CASE RdLockTable(t)
  <2>1. /\ pc[t] = "rdlock" /\ pc'[t] = "lock"
        /\ rwlock_array' = rwlock_array /\ hashed' = hashed
        /\ CanRead(rwlock) /\ rwlock' = ReadLocked(rwlock, t)
    BY <1>4, <1>7 DEF RdLockTable
  <2>2. Mutates(t) /\ hashed[t] = {}
    BY <1>4, <2>1 DEF ControlOf
  <2>3. TableReader(t)'
    BY <1>3, <2>1, <2>2 DEF TableReader, Locking
  <2>4. TableHolders'
    BY <1>2, <1>6, <2>1, <2>3, TableReadTaken
  <2>5. ReadHeld(t)' = ReadHeld(t) /\ WriteHeld(t)' = WriteHeld(t)
    BY <1>3, <2>1, <2>2 DEF ReadHeld, WriteHeld, Locking
  <2> QED BY <1>2, <2>1, <2>4, <2>5, HoldersOfTable
<1>8. CASE UnlockTable(t)
  <2>1. /\ pc[t] = "rdunlock" /\ pc'[t] = "command"
        /\ rwlock_array' = rwlock_array /\ rwlock' = Released(rwlock, t)
    BY <1>4, <1>8 DEF UnlockTable
  <2>2. TableReader(t) /\ ~TableReader(t)'
    BY <2>1 DEF TableReader, Locking
  <2>3. TableHolders'
    BY <1>2, <1>6, <2>1, <2>2, TableReleased
  <2>4. ReadHeld(t)' = ReadHeld(t) /\ WriteHeld(t)' = WriteHeld(t)
    BY <2>1 DEF ReadHeld, WriteHeld, Locking
  <2> QED BY <1>2, <2>1, <2>3, <2>4, HoldersOfTable
<1>9. CASE SkipSlot(t) \/ WritePair(t) \/ ReadPair(t) \/ DeletePair(t)
  <2>1. /\ UNCHANGED locks /\ hashed' = hashed
        /\ pc[t] \in {"lock", "apply"}
        /\ NextPair(t, "apply") \/ NextPair(t, "unlock")
    BY <1>9 DEF SkipSlot, WritePair, ReadPair, DeletePair, Applies
  <2>2. pc'[t] \in Locking
    BY <1>4, <2>1 DEF NextPair, Locking
  <2>3. /\ ReadHeld(t)' = ReadHeld(t) /\ WriteHeld(t)' = WriteHeld(t)
        /\ TableReader(t)' <=> TableReader(t)
    BY <1>3, <2>1, <2>2 DEF ReadHeld, WriteHeld, TableReader, Locking
  <2> QED BY <1>2, <1>6, <2>1, <2>3, HoldersUntouched
<1>10. CASE LockSlot(t)
  <2> DEFINE s == hash(PairKey(t))
  <2>1. /\ pc[t] = "lock" /\ rwlock' = rwlock
        /\ hashed'[t] = hashed[t] \cup {s} /\ NextPair(t, "apply")
        /\ IF Mutates(t)
           THEN /\ CanWrite(rwlock_array[s])
                /\ rwlock_array' = [rwlock_array EXCEPT ![s] = WriteLocked(@, t)]
           ELSE /\ CanRead(rwlock_array[s])
                /\ rwlock_array' = [rwlock_array EXCEPT ![s] = ReadLocked(@, t)]
    BY <1>4, <1>10 DEF LockSlot
  <2>2. s \in Slot
    BY <2>1, CurrentPair
  <2> HIDE DEF s
  <2>3. pc'[t] \in Locking
    BY <1>4, <2>1 DEF NextPair, Locking
  <2>4. TableReader(t)' <=> TableReader(t)
    BY <1>3, <2>1, <2>3 DEF TableReader, Locking
  <2>5. SlotHolders'
    <3>1. CASE Mutates(t)
      <4>1. ReadHeld(t)' = ReadHeld(t) /\ WriteHeld(t)' = WriteHeld(t) \cup {s}
        BY <1>3, <2>1, <2>3, <3>1 DEF ReadHeld, WriteHeld, Locking
      <4> QED BY <1>2, <2>1, <2>2, <3>1, <4>1, SlotWriteTaken
    <3>2. CASE ~Mutates(t)
      <4>1. ReadHeld(t)' = ReadHeld(t) \cup {s} /\ WriteHeld(t)' = WriteHeld(t)
        BY <1>3, <2>1, <2>3, <3>2 DEF ReadHeld, WriteHeld, Locking
      <4> QED BY <1>2, <2>1, <2>2, <3>2, <4>1, SlotReadTaken
    <3> QED BY <3>1, <3>2
  <2> QED BY <1>2, <1>6, <2>1, <2>4, <2>5, HoldersOfSlots
<1>11. CASE UnlockSlot(t)
  <2> DEFINE s == CHOOSE s \in hashed[t] : \A r \in hashed[t] : s <= r
  <2>1. /\ pc[t] = "unlock" /\ rwlock' = rwlock
        /\ rwlock_array' = [rwlock_array EXCEPT ![s] = Released(@, t)]
        /\ hashed'[t] = hashed[t] \ {s}
        /\ pc'[t] = IF hashed[t] = {s}
                    THEN IF Mutates(t) THEN "rdunlock" ELSE "command"
                    ELSE "unlock"
    BY <1>4, <1>11 DEF UnlockSlot
  <2>2. s \in hashed[t] /\ s \in Slot
    BY <2>1, LowestHeld
  <2> HIDE DEF s
  <2>3. TableReader(t)' <=> TableReader(t)
    BY <1>3, <2>1 DEF TableReader, Locking
  <2>4. /\ ReadHeld(t)' = ReadHeld(t) \ {s} /\ WriteHeld(t)' = WriteHeld(t) \ {s}
        /\ s \in ReadHeld(t) \cup WriteHeld(t)
    BY <1>3, <2>1, <2>2 DEF ReadHeld, WriteHeld, Locking
  <2>5. SlotHolders'
    BY <1>2, <2>1, <2>2, <2>4, SlotReleased
  <2> QED BY <1>2, <1>6, <2>1, <2>3, <2>5, HoldersOfSlots
<1> QED BY <1>7, <1>8, <1>9, <1>10, <1>11 DEF KeyCommand

LEMMA HoldersStep == IInv /\ [Next]_vars => LockHolders'
<1> SUFFICES ASSUME IInv, [Next]_vars PROVE LockHolders'
  OBVIOUS
<1>1. ASSUME NEW t \in Thread, ThreadStep(t) PROVE LockHolders'
  BY <1>1, HoldersTakesFiles, HoldersStarts, HoldersKeyCommand, HoldersShows,
     HoldersBacksUp DEF ThreadStep
<1>2. CASE UNCHANGED <<locks, pc, local>>
  <2>1. SlotsHeldAlike /\ TableHeldAlike
    BY <1>2, HeldFrame DEF SlotsHeldAlike, TableHeldAlike, locks, local
  <2>2. SlotHolders /\ TableHolders
    BY HoldersSplit DEF IInv
  <2> QED BY <2>1, <2>2, SlotsAlike, TableAlike, HoldersSplitNext
<1>3. MainStep \/ ChildStep \/ Terminated \/ UNCHANGED vars
        => UNCHANGED <<locks, pc, local>>
  BY DEF MainStep, MainJoin, MainReap, MainSpin, MainExit, ChildStep,
         ChildBackup, Terminated, vars
<1> QED BY <1>1, <1>2, <1>3 DEF Next

-----------------------------------------------------------------------------
(* The theorems. *)

LEMMA InitIInv == Init => IInv
<1> SUFFICES ASSUME Init PROVE IInv
  OBVIOUS
<1> USE DEF Init
<1>1. TypeOK
  <2>1. table \in Table
    BY CreateType
  <2>2. rwlock \in RWLocks /\ rwlock_array \in [Slot -> RWLocks]
    BY DEF RWLocks, Unlocked, Owner
  <2>3. /\ files \in [File -> Seq(Cmd)] /\ offset \in [File -> Nat]
        /\ out \in [File -> Seq(Entry)]
    BY StoreAssumption
  <2>4. NoCmd \in Cmd
    BY DEF NoCmd, Cmd, Op
  <2>5. /\ pc \in [Thread -> Label] /\ file \in [Thread -> File \cup {NoFile}]
        /\ args \in [Thread -> Cmd] /\ i \in [Thread -> Nat]
        /\ hashed \in [Thread -> SUBSET Slot]
        /\ cursor \in [Thread -> Key \cup {NULL, FREED}]
        /\ total_backups \in [Thread -> Nat]
    BY <2>4 DEF Label
  <2>6. /\ current_index \in Nat /\ file_mutex \in Owner
        /\ backup_mutex \in Owner /\ active_backups \in Int
        /\ running \subseteq Child /\ zombies \in Nat
        /\ backups \subseteq BckFile
        /\ main \in {"join", "managers", "reap", "exit"}
    BY DEF Owner
  <2>7. crashed \in BOOLEAN
    BY Zenon
  <2> HIDE DEF Init
  <2> QED BY <2>1, <2>2, <2>3, <2>5, <2>6, <2>7 DEF TypeOK
<1>2. Control
  <2>1. \A t \in Thread : ControlOf(t) /\ ArgumentsOf(t) /\ HashedOf(t)
    BY NoThreadAssumption
       DEF ControlOf, ArgumentsOf, HashedOf, Idle, Locking
  <2>2. \A f \in File : offset[f] <= Len(files[f])
    BY StoreAssumption
  <2> QED BY <2>1, <2>2 DEF Control
<1>3. LockHolders
  <2>1. /\ \A t \in Thread : ReadHeld(t) = {} /\ WriteHeld(t) = {}
        /\ \A t \in Thread : ~TableReader(t) /\ ~TableWriter(t)
    BY DEF ReadHeld, WriteHeld, TableReader, TableWriter, Locking
  <2>2. /\ Unlocked.readers = {} /\ Unlocked.writer = NoThread
        /\ rwlock = Unlocked /\ \A s \in Slot : rwlock_array[s] = Unlocked
    BY DEF Unlocked
  <2> QED BY <2>1, <2>2, NoThreadAssumption DEF LockHolders, Exclusive
<1> QED BY <1>1, <1>2, <1>3 DEF IInv

\* The invariant that ties the locks to the threads' places in the code is
\* inductive, so it holds of every run of both programs.
THEOREM Invariance == Spec => []IInv
<1>1. IInv /\ [Next]_vars => IInv'
  BY TypeStep, ControlStep, HoldersStep DEF IInv
<1> QED BY InitIInv, <1>1, PTL DEF Spec

\* Every variable keeps its type, whatever the threads do.
THEOREM TypeCorrect == Spec => []TypeOK
BY Invariance, PTL DEF IInv

\* The mutual exclusion that operations.c builds from its two levels of
\* locks: no thread changes a chain another one changes, reads or copies.
THEOREM MutualExclusion == Spec => []NoConflictingAccess
<1>1. IInv => NoConflictingAccess
  <2> SUFFICES ASSUME IInv, NEW t \in Thread, NEW u \in Thread, t # u,
                      NEW s \in ChangedBy(t)
               PROVE  s \notin ChangedBy(u) \cup ReadBy(u)
    BY DEF NoConflictingAccess
  <2>1. ASSUME NEW w \in Thread, pc[w] = "apply"
        PROVE  /\ hash(PairKey(w)) \in hashed[w] /\ hash(PairKey(w)) \in Slot
               /\ Mutates(w) => /\ rwlock_array[hash(PairKey(w))].writer = w
                                /\ w \in rwlock.readers
               /\ ~Mutates(w) => w \in rwlock_array[hash(PairKey(w))].readers
    <3>1. ControlOf(w) /\ HashedOf(w)
      BY DEF IInv, Control
    <3>2. hash(PairKey(w)) \in hashed[w] /\ hash(PairKey(w)) \in Slot
      BY <2>1, <3>1, CurrentPair DEF ControlOf, HashedOf, PairKey
    <3> QED BY <2>1, <3>2
            DEF IInv, LockHolders, ReadHeld, WriteHeld, TableReader, Locking
  <2>2. /\ pc[t] = "apply" /\ Mutates(t) /\ s = hash(PairKey(t)) /\ s \in Slot
        /\ rwlock_array[s].writer = t /\ t \in rwlock.readers
        /\ rwlock_array[s].readers = {} /\ rwlock.writer = NoThread
    <3>1. pc[t] = "apply" /\ Mutates(t) /\ s = hash(PairKey(t))
      BY DEF ChangedBy
    <3> QED BY <2>1, <3>1, NoThreadAssumption DEF IInv, LockHolders, Exclusive
  <2>3. s \notin ChangedBy(u)
    BY <2>1, <2>2 DEF ChangedBy
  <2>4. s \notin ReadBy(u)
    <3>1. CASE pc[u] = "apply"
      BY <2>1, <2>2, <3>1 DEF ReadBy
    <3>2. CASE pc[u] = "fork"
      BY <2>2, <3>2 DEF IInv, LockHolders, ReadHeld, Locking
    <3>3. CASE pc[u] \in {"showslot", "shownode"} /\ UseRwlock
      BY <2>2, <3>3, NoThreadAssumption DEF IInv, LockHolders, TableWriter
    <3> QED BY <3>1, <3>2, <3>3 DEF ReadBy
  <2> QED BY <2>3, <2>4
<1> QED BY <1>1, Invariance, PTL

-----------------------------------------------------------------------------

\* While a SHOW holds the lock of the table, no WRITE or DELETE holds it.
LEMMA WriterOfTable ==
  ASSUME IInv, NEW t \in Thread, NEW u \in Thread, TableWriter(t)
  PROVE  ~TableReader(u)
BY NoThreadAssumption DEF IInv, LockHolders, Exclusive

\* What kvs.h:27 promises holds of Part 1, whose SHOW takes the lock of the
\* table: nobody changes the table under a SHOW, wherever its walk has come.
THEOREM LockedShowProtected ==
  ASSUME UseRwlock
  PROVE  Spec => []ShowProtected
<1>1. IInv => ShowProtected
  <2> SUFFICES ASSUME IInv, NEW t \in Thread, NEW u \in Thread, t # u,
                      pc[t] \in {"showslot", "shownode"}
               PROVE  ChangedBy(u) = {}
    BY DEF ShowProtected
  <2>1. ~TableReader(u)
    BY WriterOfTable DEF TableWriter
  <2> QED BY <2>1 DEF ChangedBy, TableReader, Locking
<1> QED BY <1>1, Invariance, PTL

\* What thread_process_files owes to the directory: a job file goes to one
\* thread, and the list is not read past its end.
THEOREM JobFilesHandedOut == Spec => []FilesHandedOutOnce
<1>1. Init => FilesHandedOutOnce
  BY StoreAssumption DEF Init, FilesHandedOutOnce
<1>2. IInv /\ FilesHandedOutOnce /\ [Next]_vars => FilesHandedOutOnce'
  <2> SUFFICES ASSUME IInv, FilesHandedOutOnce, [Next]_vars
               PROVE  FilesHandedOutOnce'
    OBVIOUS
  <2> USE DEF locks, jobs, backing, local, process, GoTo
  <2>1. /\ file \in [Thread -> File \cup {NoFile}] /\ current_index \in Nat
        /\ \A f \in File : f \in Nat
    BY DEF IInv, TypeOK, File
  <2>2. CASE UNCHANGED <<current_index, file>>
    BY <2>2 DEF FilesHandedOutOnce
  <2>3. ASSUME NEW t \in Thread, TakeFile(t)
        PROVE  FilesHandedOutOnce'
    <3>1. /\ current_index < count
          /\ current_index' = current_index + 1
          /\ file' = [file EXCEPT ![t] = current_index]
      BY <2>3 DEF TakeFile, IInv, Control, ControlOf
    <3>2. /\ file'[t] = current_index
          /\ \A u \in Thread \ {t} : file'[u] = file[u]
      BY <2>1, <3>1
    <3>3. \A u \in Thread : file[u] # NoFile =>
            file[u] \in Nat /\ file[u] < current_index
      BY <2>1 DEF FilesHandedOutOnce
    <3>4. current_index' <= count
      BY <2>1, <3>1, StoreAssumption
    <3>5. \A u \in Thread : file'[u] # NoFile => file'[u] < current_index'
      BY <2>1, <3>1, <3>2, <3>3
    <3>6. ASSUME NEW u \in Thread, NEW v \in Thread \ {u}, file'[u] # NoFile
          PROVE  file'[v] # file'[u]
      BY <2>1, <3>2, <3>3, <3>6 DEF FilesHandedOutOnce
    <3> QED BY <3>4, <3>5, <3>6 DEF FilesHandedOutOnce
  <2>4. ASSUME NEW t \in Thread, EndOfFile(t)
        PROVE  FilesHandedOutOnce'
    <3>1. /\ current_index' = current_index
          /\ file'[t] = NoFile
          /\ \A u \in Thread \ {t} : file'[u] = file[u]
      BY <2>1, <2>4 DEF EndOfFile
    <3>2. ASSUME NEW u \in Thread, file'[u] # NoFile
          PROVE  /\ file'[u] < current_index'
                 /\ \A v \in Thread \ {u} : file'[v] # file'[u]
      BY <2>1, <3>1, <3>2 DEF FilesHandedOutOnce
    <3> QED BY <3>1, <3>2 DEF FilesHandedOutOnce
  <2>5. ASSUME NEW t \in Thread, ThreadStep(t), ~TakeFile(t), ~EndOfFile(t)
        PROVE  UNCHANGED <<current_index, file>>
    <3>1. CASE TakesFiles(t) \/ Starts(t)
      BY <2>5, <3>1 DEF TakesFiles, LockFiles, NoMoreFiles, Starts,
         StartKeyCommand, StartShow, StartBackup, SkipCommand
    <3>2. CASE KeyCommand(t)
      BY <3>2 DEF KeyCommand, RdLockTable, LockSlot, SkipSlot, WritePair,
         ReadPair, DeletePair, UnlockSlot, UnlockTable
    <3>3. CASE Shows(t)
      BY <3>3 DEF Shows, ShowLock, ShowSlot, ShowNode, ShowNextSlot, ShowEnd,
         ShowTorn, ShowFreed, ShowCrash
    <3>4. CASE BacksUp(t)
      BY <3>4 DEF BacksUp, LockBackups, WaitChild, WaitNone, RdLockSlot, Fork,
         ForkFails, UnlockAllSlots, UnlockBackups
    <3> QED BY <2>5, <3>1, <3>2, <3>3, <3>4 DEF ThreadStep
  <2>6. MainStep \/ ChildStep \/ Terminated \/ UNCHANGED vars
          => UNCHANGED <<current_index, file>>
    BY DEF MainStep, MainJoin, MainReap, MainSpin, MainExit, ChildStep,
           ChildBackup, Terminated, vars
  <2> QED BY <2>2, <2>3, <2>4, <2>5, <2>6 DEF Next
<1> QED BY <1>1, <1>2, Invariance, PTL DEF Spec

-----------------------------------------------------------------------------
(* The order of the locks. *)

\* A thread's step leaves the local state of the other threads alone.
LEMMA StepIsLocal ==
  ASSUME IInv, NEW t \in Thread, ThreadStep(t), NEW u \in Thread \ {t}
  PROVE  /\ pc'[u] = pc[u] /\ args'[u] = args[u]
         /\ i'[u] = i[u] /\ hashed'[u] = hashed[u]
<1> USE DEF IInv, TypeOK, locks, jobs, backing, local, process, GoTo
<1>1. CASE TakesFiles(t)
  BY <1>1 DEF TakesFiles, LockFiles, NoMoreFiles, TakeFile
<1>2. CASE Starts(t)
  BY <1>2 DEF Starts, StartKeyCommand, StartShow, StartBackup, SkipCommand,
              EndOfFile
<1>3. CASE KeyCommand(t)
  BY <1>3 DEF KeyCommand, RdLockTable, LockSlot, SkipSlot, WritePair, ReadPair,
              DeletePair, UnlockSlot, UnlockTable, NextPair
<1>4. CASE Shows(t)
  BY <1>4 DEF Shows, ShowLock, ShowSlot, ShowNode, ShowNextSlot, ShowEnd,
              ShowTorn, ShowFreed, ShowCrash
<1>5. CASE BacksUp(t)
  BY <1>5 DEF BacksUp, LockBackups, WaitChild, WaitNone, RdLockSlot, Fork,
              ForkFails, UnlockAllSlots, UnlockBackups
<1> QED BY <1>1, <1>2, <1>3, <1>4, <1>5 DEF ThreadStep

LEMMA OrderedFrame ==
  ASSUME NEW u \in Thread, OrderedOf(u),
         pc'[u] = pc[u], args'[u] = args[u], i'[u] = i[u], hashed'[u] = hashed[u]
  PROVE  OrderedOf(u)'
BY DEF OrderedOf, Pairs

LEMMA OrderedOutside ==
  ASSUME NEW u \in Thread, pc'[u] \notin Locking \cup {"rdlock"}
  PROVE  OrderedOf(u)'
BY DEF OrderedOf, Locking

LEMMA OrderedStarts ==
  ASSUME IInv, NEW t \in Thread, OrderedOf(t), Starts(t)
  PROVE  OrderedOf(t)'
<1> USE DEF IInv, TypeOK, local, GoTo
<1>1. CASE StartKeyCommand(t)
  <2> DEFINE sorted == insertionSort(Command(t).pairs)
  <2>1. AtCommand(t, KeyOps)
    BY <1>1 DEF StartKeyCommand
  <2>2. Command(t).pairs \in Seq(Pair)
    BY <2>1, CommandRead DEF Cmd
  <2>3. \A p \in Pair : p.key \in Nat
    BY TableAssumption DEF Pair
  <2>4. sorted \in Seq(Pair) /\ DOMAIN sorted = DOMAIN Command(t).pairs
    BY <2>2, <2>3, SortType
  <2>5. \A m, n \in DOMAIN sorted : m < n => sorted[m].key <= sorted[n].key
    BY <2>2, <2>3, <2>4, SortAscends
  <2>6. /\ Pairs(t)' = sorted /\ hashed'[t] = {}
        /\ pc'[t] \in {"lock", "rdlock"}
    BY <1>1 DEF StartKeyCommand, Pairs
  <2> HIDE DEF sorted
  <2>7. \A n \in DOMAIN sorted : n \in Nat /\ sorted[n].key \in Nat
    BY <2>3, <2>4
  <2>8. \A m, n \in DOMAIN sorted : m <= n => sorted[m].key <= sorted[n].key
    <3> SUFFICES ASSUME NEW m \in DOMAIN sorted, NEW n \in DOMAIN sorted, m <= n
                 PROVE  sorted[m].key <= sorted[n].key
      OBVIOUS
    <3>1. CASE m = n
      BY <2>7, <3>1
    <3>2. CASE m < n
      BY <2>5, <3>2
    <3> QED BY <2>7, <3>1, <3>2
  <2> QED BY <2>6, <2>8 DEF OrderedOf
<1>2. CASE SkipCommand(t)
  BY <1>2, OrderedFrame DEF SkipCommand
<1>3. CASE StartShow(t) \/ StartBackup(t) \/ EndOfFile(t)
  <2>1. pc'[t] \in {"showlock", "showslot", "backup", "fetch"}
    BY <1>3 DEF StartShow, StartBackup, EndOfFile
  <2> QED BY <2>1, OrderedOutside DEF Locking
<1> QED BY <1>1, <1>2, <1>3 DEF Starts

LEMMA OrderedKeyCommand ==
  ASSUME IInv, NEW t \in Thread, OrderedOf(t), KeyCommand(t)
  PROVE  OrderedOf(t)'
<1> USE DEF jobs, backing, local, process, locks, GoTo
<1>1. /\ ControlOf(t) /\ pc \in [Thread -> Label]
      /\ i \in [Thread -> Nat] /\ hashed \in [Thread -> SUBSET Slot]
      /\ "apply" \in Label /\ "unlock" \in Label
  BY DEF IInv, TypeOK, Control, Label
<1>2. Pairs(t)' = Pairs(t) /\ pc[t] \in Locking \cup {"rdlock", "rdunlock"}
  BY <1>1 DEF KeyCommand, RdLockTable, LockSlot, SkipSlot, WritePair, ReadPair,
              DeletePair, UnlockSlot, UnlockTable, Applies, Locking, Pairs
<1>3. CASE UnlockTable(t) \/ UnlockSlot(t)
  <2>1. /\ pc'[t] \in {"command", "rdunlock", "unlock"}
        /\ pc'[t] = "unlock" => pc[t] = "unlock"
    BY <1>1, <1>3 DEF UnlockTable, UnlockSlot
  <2> QED BY <1>2, <2>1 DEF OrderedOf, Locking
<1>4. CASE RdLockTable(t)
  <2>1. pc[t] = "rdlock" /\ pc'[t] = "lock" /\ hashed'[t] = hashed[t]
    BY <1>1, <1>4 DEF RdLockTable
  <2>2. hashed[t] = {}
    BY <1>1, <2>1 DEF ControlOf
  <2> QED BY <1>2, <2>1, <2>2 DEF OrderedOf, Locking
<1>5. CASE LockSlot(t) \/ SkipSlot(t)
  <2>1. /\ pc[t] = "lock" /\ NextPair(t, "apply") /\ i[t] \in DOMAIN Pairs(t)
        /\ hashed'[t] \subseteq hashed[t] \cup {hash(Pairs(t)[i[t]].key)}
    BY <1>1, <1>5 DEF LockSlot, SkipSlot, ControlOf, PairKey
  <2>2. /\ pc'[t] \in {"lock", "apply"}
        /\ pc'[t] = "lock" => i'[t] = i[t] + 1
    BY <1>1, <2>1, NextPairMoves
  <2>3. \A s \in hashed[t] : \E j \in 1 .. i[t] - 1 : s = hash(Pairs(t)[j].key)
    BY <2>1 DEF OrderedOf
  <2>4. i[t] \in 1 .. i[t] /\ 1 .. i[t] - 1 \subseteq 1 .. i[t]
    <3>1. i[t] \in Nat \ {0}
      BY <1>1, <2>1 DEF IInv, TypeOK, Cmd, Pairs
    <3> QED BY <3>1
  <2>5. \A s \in hashed'[t] : \E j \in 1 .. i[t] : s = hash(Pairs(t)[j].key)
    BY <2>1, <2>3, <2>4
  <2>6. pc'[t] = "lock" => i'[t] - 1 = i[t]
    BY <1>1, <2>2
  <2> QED BY <1>2, <2>1, <2>2, <2>5, <2>6 DEF OrderedOf, Locking
<1>6. CASE WritePair(t) \/ ReadPair(t) \/ DeletePair(t)
  <2>1. pc[t] = "apply" /\ NextPair(t, "unlock")
    BY <1>6 DEF WritePair, ReadPair, DeletePair, Applies
  <2>2. pc'[t] \in {"apply", "unlock"}
    BY <1>1, <2>1 DEF NextPair
  <2> QED BY <1>2, <2>1, <2>2 DEF OrderedOf, Locking
<1> QED BY <1>3, <1>4, <1>5, <1>6 DEF KeyCommand

LEMMA OrderedStep == IInv /\ Ordered /\ [Next]_vars => Ordered'
<1> SUFFICES ASSUME IInv, Ordered, [Next]_vars PROVE Ordered'
  OBVIOUS
<1>1. ASSUME NEW t \in Thread, ThreadStep(t) PROVE Ordered'
  <2>1. \A u \in Thread \ {t} : OrderedOf(u)'
    BY <1>1, StepIsLocal, OrderedFrame DEF Ordered
  <2>2. OrderedOf(t)'
    <3>1. CASE Starts(t) \/ KeyCommand(t)
      BY <3>1, OrderedStarts, OrderedKeyCommand DEF Ordered
    <3>2. CASE TakesFiles(t) \/ Shows(t) \/ BacksUp(t)
      <4> USE DEF IInv, TypeOK, locks, jobs, backing, local, process, GoTo
      <4>1. CASE TakesFiles(t)
        <5>1. pc'[t] \in {"nofile", "take", "done", "command"}
          BY <4>1 DEF TakesFiles, LockFiles, NoMoreFiles, TakeFile
        <5> QED BY <5>1, OrderedOutside DEF Locking
      <4>2. CASE Shows(t)
        <5>1. pc'[t] \in {"showslot", "shownode", "command"}
          BY <4>2 DEF Shows, ShowLock, ShowSlot, ShowNode, ShowNextSlot,
                      ShowEnd, ShowTorn, ShowFreed, ShowCrash
        <5> QED BY <5>1, OrderedOutside DEF Locking
      <4>3. CASE BacksUp(t)
        <5>1. pc'[t] \in {"wait", "rdlockall", "fork", "unlockall",
                          "unlockbackups", "command"}
          BY <4>3 DEF BacksUp, LockBackups, WaitChild, WaitNone, RdLockSlot,
                      Fork, ForkFails, UnlockAllSlots, UnlockBackups
        <5> QED BY <5>1, OrderedOutside DEF Locking
      <4> QED BY <3>2, <4>1, <4>2, <4>3
    <3> QED BY <1>1, <3>1, <3>2 DEF ThreadStep
  <2> QED BY <2>1, <2>2 DEF Ordered
<1>2. CASE UNCHANGED <<pc, local>>
  BY <1>2, OrderedFrame DEF Ordered, local
<1>3. MainStep \/ ChildStep \/ Terminated \/ UNCHANGED vars
        => UNCHANGED <<pc, local>>
  BY DEF MainStep, MainJoin, MainReap, MainSpin, MainExit, ChildStep,
         ChildBackup, Terminated, vars
<1> QED BY <1>1, <1>2, <1>3 DEF Next

\* With the lowercase keys that kvs.h asks for, the order that strcmp gives
\* the keys is the order of their chains.
LEMMA LowercaseMonotone ==
  ASSUME \A k \in Key : FirstChar(k) \in 97 .. 122
  PROVE  HashMonotone
<1> SUFFICES ASSUME NEW k \in Key, NEW l \in Key, k <= l
             PROVE  hash(k) <= hash(l)
  BY DEF HashMonotone
<1>1. k \in Nat /\ l \in Nat
  BY TableAssumption
<1>2. FirstChar(k) <= FirstChar(l)
  BY <1>1 DEF FirstChar, CHAR_BASE
<1>3. hash(k) = FirstChar(k) - 97 /\ hash(l) = FirstChar(l) - 97
  BY DEF hash, tolower
<1> QED BY <1>2, <1>3

\* A thread never asks for a chain lock at or below one it holds, when the
\* order of the keys is that of their chains: the locks of kvs_write,
\* kvs_read, kvs_delete and BACKUP admit no cycle of waiting threads.
THEOREM LocksAscend ==
  ASSUME HashMonotone
  PROVE  Spec => []AscendingLocks
<1>1. Init => Ordered
  BY DEF Init, Ordered, OrderedOf, Locking
<1>2. IInv /\ Ordered => AscendingLocks
  <2> SUFFICES ASSUME IInv, Ordered, NEW t \in Thread
               PROVE  /\ pc[t] = "lock" /\ hash(PairKey(t)) \notin hashed[t] =>
                           \A s \in HeldBy(t) : s < hash(PairKey(t))
                      /\ pc[t] = "rdlockall" => \A s \in HeldBy(t) : s < i[t]
                      /\ pc[t] = "showlock" => HeldBy(t) = {}
                      /\ pc[t] \in {"rdlock", "fetch", "backup"} =>
                           HeldBy(t) = {}
    BY DEF AscendingLocks
  <2>1. HeldBy(t) \subseteq ReadHeld(t) \cup WriteHeld(t)
    BY DEF HeldBy, Holds, IInv, LockHolders
  <2>2. /\ i[t] \in Nat /\ hashed[t] \subseteq Slot
        /\ Pairs(t) \in Seq(Pair) /\ ControlOf(t)
    BY DEF IInv, TypeOK, Cmd, Pairs, Control
  <2>3. ASSUME pc[t] = "lock", hash(PairKey(t)) \notin hashed[t],
               NEW s \in HeldBy(t)
        PROVE  s < hash(PairKey(t))
    <3>1. s \in hashed[t]
      BY <2>1, <2>3 DEF ReadHeld, WriteHeld, Locking
    <3>2. PICK j \in 1 .. i[t] - 1 : s = hash(Pairs(t)[j].key)
      BY <2>3, <3>1 DEF Ordered, OrderedOf
    <3>3. i[t] \in DOMAIN Pairs(t) /\ j \in DOMAIN Pairs(t) /\ j <= i[t]
      BY <2>2, <2>3, <3>2 DEF ControlOf
    <3>4. Pairs(t)[j].key <= Pairs(t)[i[t]].key
      BY <2>3, <3>3 DEF Ordered, OrderedOf, Locking
    <3>5. Pairs(t)[j].key \in Key /\ PairKey(t) \in Key
      <4>1. Pairs(t)[j] \in Pair /\ Pairs(t)[i[t]] \in Pair
        BY <2>2, <3>3
      <4> QED BY <4>1 DEF Pair, PairKey
    <3>6. s <= hash(PairKey(t))
      BY <3>2, <3>4, <3>5 DEF HashMonotone, PairKey
    <3>7. s # hash(PairKey(t))
      BY <2>3, <3>1
    <3>8. hash(Pairs(t)[j].key) \in Slot /\ hash(PairKey(t)) \in Slot
      BY <3>5, TableAssumption
    <3>9. s \in Nat /\ hash(PairKey(t)) \in Nat
      BY <3>2, <3>8, TableAssumption DEF Slot
    <3> QED BY <3>6, <3>7, <3>9
  <2>4. ASSUME pc[t] = "rdlockall", NEW s \in HeldBy(t)
        PROVE  s < i[t]
    <3>1. s \in 0 .. i[t] - 1
      BY <2>1, <2>4 DEF ReadHeld, WriteHeld, Locking
    <3> QED BY <2>2, <3>1
  <2>5. pc[t] \in {"rdlock", "fetch", "backup", "showlock"} => HeldBy(t) = {}
    BY <2>1 DEF ReadHeld, WriteHeld, Locking
  <2> QED BY <2>3, <2>4, <2>5
<1> QED BY <1>1, <1>2, OrderedStep, Invariance, PTL DEF Spec

-----------------------------------------------------------------------------
(* The chains of the hash table stay well formed: what kvs.c relies on when *)
(* it stops a search at the first node with a key.                         *)

\* A key is in one node of its own chain at most, whatever sequence of writes
\* and deletes the threads make.
THEOREM ChainsStayWellFormed == Spec => []ChainsWellFormed
<1>1. ChainsWellFormed <=> \A s \in Slot : WellFormed(table[s], s)
  BY DEF ChainsWellFormed, WellFormed
<1>2. ChainsWellFormed' <=> \A s \in Slot : WellFormed(table'[s], s)
  BY DEF ChainsWellFormed, WellFormed
<1>3. Init => ChainsWellFormed
  BY DEF Init, create_hash_table, ChainsWellFormed
<1>4. IInv /\ ChainsWellFormed /\ [Next]_vars => ChainsWellFormed'
  <2> SUFFICES ASSUME IInv, ChainsWellFormed, [Next]_vars
               PROVE  \A s \in Slot : WellFormed(table'[s], s)
    BY <1>2
  <2>1. \A s \in Slot : WellFormed(table[s], s) /\ table[s] \in Chain
    BY <1>1 DEF IInv, TypeOK, Table
  <2>2. table \in Table /\ DOMAIN table = Slot
    BY DEF IInv, TypeOK, Table
  <2>3. ASSUME NEW t \in Thread, WritePair(t)
        PROVE  \A s \in Slot : WellFormed(table'[s], s)
    <3> DEFINE key == PairKey(t)
               value == Pairs(t)[i[t]].value
    <3>1. key \in Key /\ hash(key) \in Slot /\ value \in Value
      BY <2>3, CurrentPair DEF WritePair, Applies
    <3>2. table' = [table EXCEPT ![hash(key)] =
                      WriteInChain(table[hash(key)], key, value)]
      BY <2>3 DEF WritePair, write_pair
    <3> HIDE DEF key, value
    <3> QED BY <2>1, <2>2, <3>1, <3>2, WriteKeeps
  <2>4. ASSUME NEW t \in Thread, DeletePair(t)
        PROVE  \A s \in Slot : WellFormed(table'[s], s)
    <3> DEFINE key == PairKey(t)
    <3>1. key \in Key /\ hash(key) \in Slot
      BY <2>4, CurrentPair DEF DeletePair, Applies
    <3>2. \/ table' = [table EXCEPT ![hash(key)] =
                         DeleteInChain(table[hash(key)], key)]
          \/ table' = table
      BY <2>4 DEF DeletePair, delete_pair
    <3> HIDE DEF key
    <3> QED BY <2>1, <2>2, <3>1, <3>2, DeleteKeeps
  <2>5. ASSUME NEW t \in Thread, ThreadStep(t), ~WritePair(t), ~DeletePair(t)
        PROVE  table' = table
    <3>1. CASE TakesFiles(t) \/ Starts(t)
      BY <2>5, <3>1 DEF TakesFiles, LockFiles, NoMoreFiles, TakeFile, Starts,
         StartKeyCommand, StartShow, StartBackup, SkipCommand, EndOfFile
    <3>2. CASE KeyCommand(t)
      BY <2>5, <3>2 DEF KeyCommand, RdLockTable, LockSlot, SkipSlot, ReadPair,
         UnlockSlot, UnlockTable
    <3>3. CASE Shows(t)
      BY <3>3 DEF Shows, ShowLock, ShowSlot, ShowNode, ShowNextSlot, ShowEnd,
         ShowTorn, ShowFreed, ShowCrash
    <3>4. CASE BacksUp(t)
      BY <3>4 DEF BacksUp, LockBackups, WaitChild, WaitNone, RdLockSlot, Fork,
         ForkFails, UnlockAllSlots, UnlockBackups
    <3> QED BY <2>5, <3>1, <3>2, <3>3, <3>4 DEF ThreadStep
  <2>6. MainStep \/ ChildStep \/ Terminated \/ UNCHANGED vars
          => table' = table
    BY DEF MainStep, MainJoin, MainReap, MainSpin, MainExit, ChildStep,
           ChildBackup, Terminated, vars
  <2> QED BY <2>1, <2>3, <2>4, <2>5, <2>6 DEF Next
<1> QED BY <1>3, <1>4, Invariance, PTL DEF Spec

-----------------------------------------------------------------------------
(* The children of BACKUP: how many there are, for any number of threads   *)
(* and job files, any limit, and whether fork fails or not.                *)

\* Only BACKUP touches the mutex, the counter and the children.
LEMMA OutsideBackups ==
  ASSUME IInv, NEW t \in Thread,
         TakesFiles(t) \/ Starts(t) \/ KeyCommand(t) \/ Shows(t)
  PROVE  /\ UNCHANGED backing
         /\ pc[t] \notin BackingUp /\ pc'[t] \notin BackingUp
<1> USE DEF IInv, TypeOK, locks, jobs, local, process, GoTo, BackingUp
<1>1. CASE TakesFiles(t)
  BY <1>1 DEF TakesFiles, LockFiles, NoMoreFiles, TakeFile
<1>2. CASE Starts(t)
  BY <1>2 DEF Starts, StartKeyCommand, StartShow, StartBackup, SkipCommand,
              EndOfFile, AtCommand
<1>3. CASE KeyCommand(t)
  BY <1>3 DEF KeyCommand, RdLockTable, LockSlot, SkipSlot, WritePair, ReadPair,
              DeletePair, UnlockSlot, UnlockTable, NextPair, Applies
<1>4. CASE Shows(t)
  BY <1>4 DEF Shows, ShowLock, ShowSlot, ShowNode, ShowNextSlot, ShowEnd,
              ShowTorn, ShowFreed, ShowCrash
<1> QED BY <1>1, <1>2, <1>3, <1>4

\* The steps of main and of the children leave every thread where it is.
LEMMA OtherProcesses ==
  ASSUME MainStep \/ ChildStep \/ Terminated \/ UNCHANGED vars
  PROVE  UNCHANGED <<pc, local, jobs, backup_mutex>>
BY DEF MainStep, MainJoin, MainReap, MainSpin, MainExit, ChildStep,
       ChildBackup, Terminated, vars, backing

-----------------------------------------------------------------------------
(* The mutex. *)

LEMMA TurnsStep == IInv /\ Turns /\ [Next]_vars => Turns'
<1> SUFFICES ASSUME IInv, Turns, [Next]_vars PROVE Turns'
  OBVIOUS
<1>1. ASSUME NEW t \in Thread, ThreadStep(t) PROVE Turns'
  <2>1. \A u \in Thread \ {t} : pc'[u] = pc[u]
    BY <1>1, StepIsLocal
  <2>2. CASE TakesFiles(t) \/ Starts(t) \/ KeyCommand(t) \/ Shows(t)
    BY <2>1, <2>2, OutsideBackups DEF Turns, backing
  <2>3. CASE BacksUp(t)
    <3> USE DEF IInv, TypeOK, GoTo, BackingUp
    <3>1. CASE LockBackups(t)
      BY <2>1, <3>1, NoThreadAssumption DEF Turns, LockBackups
    <3>2. CASE UnlockBackups(t)
      BY <2>1, <3>2, NoThreadAssumption DEF Turns, UnlockBackups
    <3>3. CASE ~LockBackups(t) /\ ~UnlockBackups(t)
      <4>1. /\ pc[t] \in BackingUp /\ pc'[t] \in BackingUp
            /\ backup_mutex' = backup_mutex
        BY <2>3, <3>3 DEF BacksUp, WaitChild, WaitNone, RdLockSlot, Fork,
           ForkFails, UnlockAllSlots, backing, local
      <4> QED BY <2>1, <4>1 DEF Turns
    <3> QED BY <3>1, <3>2, <3>3
  <2> QED BY <1>1, <2>2, <2>3 DEF ThreadStep
<1>2. CASE MainStep \/ ChildStep \/ Terminated \/ UNCHANGED vars
  BY <1>2, OtherProcesses DEF Turns
<1> QED BY <1>1, <1>2 DEF Next

-----------------------------------------------------------------------------
(* The numbers of the children. *)

LEMMA NumberedStep ==
  IInv /\ FilesHandedOutOnce /\ Numbered /\ [Next]_vars => Numbered'
<1> SUFFICES ASSUME IInv, FilesHandedOutOnce, Numbered, [Next]_vars
             PROVE  Numbered'
  OBVIOUS
<1>1. /\ \A f \in File : f \in Nat
      /\ \A c \in running : c.file \in Nat /\ c.n \in Nat
      /\ file \in [Thread -> File \cup {NoFile}]
      /\ total_backups \in [Thread -> Nat] /\ current_index \in Nat
      /\ NoFile \notin Nat
  BY StoreAssumption DEF IInv, TypeOK, Child, File
<1>2. ASSUME NEW t \in Thread, TakeFile(t) PROVE Numbered'
  <2>1. /\ running' = running /\ current_index' = current_index + 1
        /\ file'[t] = current_index
        /\ \A u \in Thread \ {t} :
             file'[u] = file[u] /\ total_backups'[u] = total_backups[u]
    BY <1>1, <1>2 DEF TakeFile, backing
  <2> SUFFICES ASSUME NEW c \in running
               PROVE  /\ c.file < current_index'
                      /\ \A u \in Thread :
                           c.file = file'[u] => c.n <= total_backups'[u]
    BY <2>1 DEF Numbered
  <2>2. c.file < current_index /\ c.file # file'[t]
    BY <1>1, <2>1 DEF Numbered
  <2> QED BY <1>1, <2>1, <2>2 DEF Numbered
<1>3. ASSUME NEW t \in Thread, EndOfFile(t) PROVE Numbered'
  <2>1. /\ UNCHANGED <<running, current_index, total_backups>>
        /\ file' = [file EXCEPT ![t] = NoFile]
    BY <1>3 DEF EndOfFile, jobs, backing
  <2> QED BY <1>1, <2>1 DEF Numbered
<1>4. ASSUME NEW t \in Thread, Fork(t) \/ ForkFails(t) PROVE Numbered'
  <2> DEFINE new == [file |-> file[t], n |-> total_backups[t] + 1,
                     snapshot |-> table]
  <2>1. /\ running' \subseteq running \cup {new}
        /\ UNCHANGED <<file, current_index>>
        /\ total_backups' = [total_backups EXCEPT ![t] = @ + 1]
    BY <1>4 DEF Fork, ForkFails, jobs
  <2>2. file[t] # NoFile
    BY <1>4 DEF Fork, ForkFails, IInv, Control, ControlOf, Idle
  <2>3. ASSUME NEW c \in running'
        PROVE  /\ c.file < current_index
               /\ \A u \in Thread :
                    c.file = file[u] => c.n <= total_backups'[u]
    <3>1. CASE c \in running
      BY <1>1, <2>1, <3>1 DEF Numbered
    <3>2. CASE c = new
      <4>1. c.file = file[t] /\ c.n = total_backups'[t]
        BY <1>1, <2>1, <3>2
      <4>2. \A u \in Thread \ {t} : file[u] # file[t]
        BY <2>2 DEF FilesHandedOutOnce
      <4>3. total_backups'[t] \in Nat
        BY <1>1, <2>1
      <4> QED BY <2>2, <4>1, <4>2, <4>3 DEF FilesHandedOutOnce
    <3> QED BY <2>1, <3>1, <3>2
  <2> QED BY <2>1, <2>3 DEF Numbered
<1>5. ASSUME NEW t \in Thread, ThreadStep(t), ~TakeFile(t), ~EndOfFile(t),
             ~Fork(t), ~ForkFails(t)
      PROVE  UNCHANGED <<running, file, current_index, total_backups>>
  <2> USE DEF locks, jobs, backing, local, process
  <2>1. CASE TakesFiles(t) \/ Starts(t)
    BY <1>5, <2>1 DEF TakesFiles, LockFiles, NoMoreFiles, Starts,
       StartKeyCommand, StartShow, StartBackup, SkipCommand
  <2>2. CASE KeyCommand(t)
    BY <2>2 DEF KeyCommand, RdLockTable, LockSlot, SkipSlot, WritePair,
       ReadPair, DeletePair, UnlockSlot, UnlockTable
  <2>3. CASE Shows(t)
    BY <2>3 DEF Shows, ShowLock, ShowSlot, ShowNode, ShowNextSlot, ShowEnd,
       ShowTorn, ShowFreed, ShowCrash
  <2>4. CASE BacksUp(t)
    BY <1>5, <2>4 DEF BacksUp, LockBackups, WaitChild, WaitNone, RdLockSlot,
       UnlockAllSlots, UnlockBackups
  <2> QED BY <1>5, <2>1, <2>2, <2>3, <2>4 DEF ThreadStep
<1>6. MainStep \/ ChildStep \/ Terminated \/ UNCHANGED vars
        => /\ UNCHANGED <<file, current_index, total_backups>>
           /\ running' \subseteq running
  BY DEF MainStep, MainJoin, MainReap, MainSpin, MainExit, ChildStep,
         ChildBackup, Terminated, vars, jobs, backing, local
<1>7. CASE /\ UNCHANGED <<file, current_index, total_backups>>
           /\ running' \subseteq running
  BY <1>7 DEF Numbered
<1> QED BY <1>2, <1>3, <1>4, <1>5, <1>6, <1>7 DEF Next

-----------------------------------------------------------------------------
(* Their number. *)

LEMMA ForkAdds ==
  ASSUME IInv, Numbered, IsFiniteSet(running), NEW t \in Thread, Fork(t)
  PROVE  /\ IsFiniteSet(running')
         /\ Cardinality(running') = Cardinality(running) + 1
<1> DEFINE new == [file |-> file[t], n |-> total_backups[t] + 1,
                   snapshot |-> table]
<1>1. running' = running \cup {new}
  BY DEF Fork
<1>2. new \notin running
  <2>1. total_backups[t] \in Nat
    BY DEF IInv, TypeOK
  <2>2. new.file = file[t] /\ ~ (new.n <= total_backups[t])
    BY <2>1
  <2> QED BY <2>2 DEF Numbered
<1> HIDE DEF new
<1> QED BY <1>1, <1>2, FS_AddElement

LEMMA ChildLeaves ==
  ASSUME IsFiniteSet(running), NEW c \in running, ChildBackup(c)
  PROVE  /\ IsFiniteSet(running')
         /\ Cardinality(running') = Cardinality(running) - 1
BY FS_RemoveElement DEF ChildBackup

(***************************************************************************)
(* What a step does to the counter and to the children: nothing, or one of *)
(* the four things there are.                                              *)
(***************************************************************************)
LEMMA Reckoning ==
  ASSUME IInv, Numbered, IsFiniteSet(running), [Next]_vars
  PROVE  /\ IsFiniteSet(running')
         /\ \/ /\ Unreaped' = Unreaped
               /\ active_backups' = active_backups
            \/ /\ Unreaped' = Unreaped - 1
               /\ active_backups' = active_backups - 1
            \/ \E t \in Thread :
                 /\ Fork(t) \/ ForkFails(t)
                 /\ active_backups' = active_backups + 1
                 /\ \/ Unreaped' = Unreaped + 1
                    \/ ForkMayFail /\ Unreaped' = Unreaped
<1>1. Cardinality(running) \in Nat /\ zombies \in Nat
  BY FS_CardinalityType DEF IInv, TypeOK
<1>2. ASSUME NEW t \in Thread, ThreadStep(t), ~BacksUp(t)
      PROVE  UNCHANGED <<running, zombies, active_backups>>
  BY <1>2, OutsideBackups DEF ThreadStep, backing
<1>3. ASSUME NEW t \in Thread, BacksUp(t),
             ~Fork(t), ~ForkFails(t), ~WaitChild(t)
      PROVE  UNCHANGED <<running, zombies, active_backups>>
  BY <1>3 DEF BacksUp, LockBackups, WaitNone, RdLockSlot, UnlockAllSlots,
              UnlockBackups, backing
<1>4. CASE UNCHANGED <<running, zombies, active_backups>>
  BY <1>4 DEF Unreaped
<1>5. ASSUME NEW t \in Thread, WaitChild(t) \/ MainReap
      PROVE  /\ IsFiniteSet(running')
             /\ Unreaped' = Unreaped - 1
             /\ active_backups' = active_backups - 1
  BY <1>1, <1>5 DEF WaitChild, MainReap, Unreaped
<1>6. ASSUME NEW t \in Thread, Fork(t)
      PROVE  /\ IsFiniteSet(running')
             /\ Unreaped' = Unreaped + 1
             /\ active_backups' = active_backups + 1
  <2>1. zombies' = zombies /\ active_backups' = active_backups + 1
    BY <1>6 DEF Fork
  <2> QED BY <1>1, <1>6, <2>1, ForkAdds DEF Unreaped
<1>7. ASSUME NEW t \in Thread, ForkFails(t)
      PROVE  /\ IsFiniteSet(running') /\ ForkMayFail
             /\ Unreaped' = Unreaped
             /\ active_backups' = active_backups + 1
  BY <1>7 DEF ForkFails, Unreaped
<1>8. ASSUME NEW c \in running, ChildBackup(c)
      PROVE  /\ IsFiniteSet(running')
             /\ Unreaped' = Unreaped
             /\ active_backups' = active_backups
  <2>1. zombies' = zombies + 1 /\ active_backups' = active_backups
    BY <1>8 DEF ChildBackup
  <2> QED BY <1>1, <1>8, <2>1, ChildLeaves DEF Unreaped
<1>9. CASE MainReap
  BY <1>1, <1>9 DEF MainReap, Unreaped
<1>10. MainJoin \/ MainSpin \/ MainExit \/ Terminated \/ UNCHANGED vars
         => UNCHANGED <<running, zombies, active_backups>>
  BY DEF MainJoin, MainSpin, MainExit, Terminated, vars, backing
<1>11. ASSUME NEW t \in Thread, ThreadStep(t)
       PROVE  \/ UNCHANGED <<running, zombies, active_backups>>
              \/ WaitChild(t) \/ Fork(t) \/ ForkFails(t)
  BY <1>2, <1>3, <1>11
<1>12. CASE \E t \in Thread : ThreadStep(t)
  BY <1>4, <1>5, <1>6, <1>7, <1>11, <1>12
<1>13. CASE MainStep \/ ChildStep \/ Terminated \/ UNCHANGED vars
  BY <1>4, <1>8, <1>9, <1>10, <1>13 DEF MainStep, ChildStep
<1> QED BY <1>12, <1>13 DEF Next

\* A thread comes to rdlockall below the limit: it saw the counter below it,
\* waited for a child, or found that there is none.
LEMMA BelowLimit ==
  ASSUME IInv, Within, NEW t \in Thread, BacksUp(t),
         pc'[t] \in {"rdlockall", "fork"}
  PROVE  Unreaped' < Limit
<1> USE DEF GoTo
<1>1. /\ Cardinality(running) \in Nat /\ zombies \in Nat
      /\ active_backups \in Int /\ MaxBackups \in Int
      /\ pc \in [Thread -> Label]
  BY FS_CardinalityType, StoreAssumption DEF IInv, TypeOK, Within
<1>2. CASE LockBackups(t)
  <2>1. active_backups < MaxBackups /\ UNCHANGED <<running, zombies>>
    BY <1>1, <1>2 DEF LockBackups
  <2> QED BY <1>1, <2>1 DEF Within, Unreaped, Limit
<1>3. CASE WaitChild(t)
  BY <1>1, <1>3 DEF WaitChild, Within, Unreaped, Limit
<1>4. CASE WaitNone(t)
  <2>1. running' = {} /\ zombies' = 0
    BY <1>4 DEF WaitNone, backing
  <2> QED BY <1>1, <2>1, FS_EmptySet DEF Unreaped, Limit
<1>5. CASE RdLockSlot(t)
  BY <1>1, <1>5 DEF RdLockSlot, Within, Unreaped, backing
<1>6. CASE Fork(t) \/ ForkFails(t) \/ UnlockAllSlots(t) \/ UnlockBackups(t)
  BY <1>1, <1>6 DEF Fork, ForkFails, UnlockAllSlots, UnlockBackups
<1> QED BY <1>2, <1>3, <1>4, <1>5, <1>6 DEF BacksUp

LEMMA WithinStep == IInv /\ Children /\ [Next]_vars => Within'
<1> SUFFICES ASSUME IInv, Children, [Next]_vars PROVE Within'
  OBVIOUS
<1>1. /\ Unreaped \in Nat /\ active_backups \in Int /\ Limit \in Nat
  BY FS_CardinalityType, StoreAssumption
     DEF IInv, TypeOK, Children, Within, Unreaped, Limit
<1>2. /\ Unreaped <= active_backups /\ Unreaped <= Limit
      /\ \A t \in Thread : pc[t] \in {"rdlockall", "fork"} => Unreaped < Limit
  BY DEF Children, Within
<1>3. /\ IsFiniteSet(running')
      /\ Unreaped' <= active_backups' /\ Unreaped' <= Limit
      /\ Unreaped' > Unreaped => \E t \in Thread : Fork(t) \/ ForkFails(t)
  <2> USE DEF Fork, ForkFails
  <2>1. ASSUME NEW t \in Thread, Fork(t) \/ ForkFails(t) PROVE Unreaped < Limit
    BY <1>2, <2>1
  <2> HIDE DEF Fork, ForkFails
  <2>2. Unreaped' = Unreaped - 1 => Unreaped' \in Int
    BY <1>1
  <2>3. Unreaped' = Unreaped + 1 => Unreaped' \in Int
    BY <1>1
  <2> QED BY <1>1, <1>2, <2>1, <2>2, <2>3, Reckoning DEF Children, Within
<1>4. ASSUME NEW t \in Thread, pc'[t] \in {"rdlockall", "fork"}
      PROVE  Unreaped' < Limit
  <2>1. CASE ThreadStep(t) /\ BacksUp(t)
    BY <1>4, <2>1, BelowLimit DEF Children
  <2>2. CASE ~(ThreadStep(t) /\ BacksUp(t))
    <3>1. pc'[t] = pc[t]
      <4>1. ~ThreadStep(t)
        BY <1>4, <2>2, OutsideBackups DEF ThreadStep, BackingUp
      <4>2. ASSUME NEW u \in Thread, ThreadStep(u) PROVE pc'[t] = pc[t]
        BY <4>1, <4>2, StepIsLocal
      <4> QED BY <4>2, OtherProcesses DEF Next
    <3>2. ASSUME NEW u \in Thread, Fork(u) \/ ForkFails(u)
          PROVE  FALSE
      <4>1. pc[u] = "fork" /\ pc'[u] = "unlockall"
        BY <3>2 DEF Fork, ForkFails, GoTo, IInv, TypeOK
      <4>2. backup_mutex = u /\ backup_mutex = t
        BY <1>4, <3>1, <4>1 DEF Children, Turns, BackingUp
      <4> QED BY <1>4, <4>1, <4>2
    <3>3. Unreaped < Limit
      BY <1>2, <1>4, <3>1
    <3>4. Unreaped' = Unreaped \/ Unreaped' = Unreaped - 1
      BY <3>2, Reckoning DEF Children, Within
    <3> QED BY <1>1, <3>3, <3>4
  <2> QED BY <2>1, <2>2
<1> QED BY <1>3, <1>4 DEF Within

\* The children are counted and limited, whatever fork does.
THEOREM ChildrenCounted == Spec => []Children
<1>1. Init => Children
  <2> SUFFICES ASSUME Init PROVE Children
    OBVIOUS
  <2>1. Turns /\ Numbered
    BY NoThreadAssumption DEF Init, Turns, Numbered, BackingUp
  <2>2. IsFiniteSet(running) /\ Unreaped = 0
    BY FS_EmptySet DEF Init, Unreaped
  <2>3. Within
    BY <2>2, StoreAssumption DEF Init, Within, Limit
  <2> QED BY <2>1, <2>3 DEF Children
<1>2. IInv /\ FilesHandedOutOnce /\ Children /\ [Next]_vars => Children'
  BY TurnsStep, NumberedStep, WithinStep DEF Children
<1> QED BY <1>1, <1>2, Invariance, JobFilesHandedOut, PTL DEF Spec

\* No more than max_backups children write at a time (main.c:140), however the
\* threads reap each other's children, and also when fork fails.
THEOREM BackupsLimited == Spec => []BackupLimit
<1>1. IInv /\ Children => BackupLimit
  BY FS_CardinalityType, StoreAssumption
     DEF IInv, TypeOK, Children, Within, Unreaped, Limit, BackupLimit
<1> QED BY <1>1, Invariance, ChildrenCounted, PTL

\* active_backups never falls below the children there are.
THEOREM NotUndercounted == Spec => []BackupsNotUndercounted
<1>1. Children => BackupsNotUndercounted
  BY FS_CardinalityType, StoreAssumption
     DEF Children, Within, Unreaped, BackupsNotUndercounted
<1> QED BY <1>1, ChildrenCounted, PTL

\* As long as fork does not fail, active_backups is the number of children that
\* were not waited for, so that the last loop of main ends with the last child.
THEOREM Accounted ==
  ASSUME ~ForkMayFail
  PROVE  Spec => []BackupsAccounted
<1>1. Init => BackupsAccounted
  BY FS_EmptySet DEF Init, BackupsAccounted
<1>2. IInv /\ Children /\ BackupsAccounted /\ [Next]_vars => BackupsAccounted'
  <2> SUFFICES ASSUME IInv, Children, BackupsAccounted, [Next]_vars
               PROVE  active_backups' = Unreaped'
    BY DEF BackupsAccounted, Unreaped
  <2>1. active_backups = Unreaped
    BY DEF BackupsAccounted, Unreaped
  <2> QED BY <2>1, Reckoning DEF Children, Within
<1> QED BY <1>1, <1>2, Invariance, ChildrenCounted, PTL DEF Spec

-----------------------------------------------------------------------------
(* No circle of waits. *)

\* A thread that asks for a lock on a chain asks for an existing chain.
LEMMA WantedInTable ==
  ASSUME IInv, NEW t \in Thread, WaitsForSlot(t)
  PROVE  WantedSlot(t) \in 0 .. TABLE_SIZE - 1
<1>1. CASE pc[t] = "lock"
  BY <1>1, CurrentPair DEF WantedSlot, Slot
<1>2. CASE pc[t] = "rdlockall"
  <2>1. i[t] \in Nat /\ i[t] < TABLE_SIZE
    BY <1>2 DEF IInv, TypeOK, Control, ControlOf
  <2> QED BY <1>2, <2>1, TableAssumption DEF WantedSlot
<1> QED BY <1>1, <1>2 DEF WaitsForSlot

\* A lock that is not granted is held by some thread, which is itself between
\* the first and the last of its chain locks.
LEMMA HolderOfWanted ==
  ASSUME IInv, NEW t \in Thread, WaitsForSlot(t)
  PROVE  \E u \in Thread :
           /\ WantedSlot(t) \in HeldBy(u)
           /\ pc[u] \in Locking \cup {"rdlockall", "fork", "unlockall"}
<1> DEFINE s == WantedSlot(t)
<1>1. s \in Slot
  BY WantedInTable DEF Slot
<1>2. /\ rwlock_array[s].readers \subseteq Thread
      /\ rwlock_array[s].writer \in Thread \cup {NoThread}
  BY <1>1 DEF IInv, TypeOK, RWLocks, Owner
<1>3. \/ rwlock_array[s].writer # NoThread
      \/ rwlock_array[s].readers # {}
  BY DEF WaitsForSlot, CanRead, CanWrite
<1>4. PICK u \in Thread : Holds(rwlock_array[s], u)
  BY <1>2, <1>3 DEF Holds
<1>5. s \in ReadHeld(u) \/ s \in WriteHeld(u)
  BY <1>1, <1>4 DEF Holds, IInv, LockHolders
<1>6. pc[u] \in Locking \cup {"rdlockall", "fork", "unlockall"}
  BY <1>5 DEF ReadHeld, WriteHeld
<1> QED BY <1>1, <1>4, <1>6 DEF HeldBy

\* When every thread that is not done waits, and no child runs, then nobody
\* holds a mutex or waits for one, or for a child: the threads that are left
\* are those that ask for a lock.
LEMMA OnlyLocksLeft ==
  ASSUME IInv, Turns, running = {},
         \A u \in Thread : pc[u] = "done" \/ Waits(u),
         NEW t \in Thread, Waits(t)
  PROVE  \E u \in Thread : WaitsForSlot(u)
<1>1. /\ file_mutex \in Thread \cup {NoThread}
      /\ backup_mutex \in Thread \cup {NoThread}
      /\ rwlock.readers \subseteq Thread
      /\ rwlock.writer \in Thread \cup {NoThread}
  BY DEF IInv, TypeOK, RWLocks, Owner
<1>2. SUFFICES ASSUME \A u \in Thread : ~WaitsForSlot(u)
               PROVE  FALSE
  OBVIOUS
<1>3. \A u \in Thread :
        pc[u] \in {"done", "fetch", "rdlock", "showlock", "backup"}
  BY <1>2 DEF Waits
<1>4. file_mutex = NoThread
  BY <1>1, <1>3 DEF IInv, Control, ControlOf
<1>5. backup_mutex = NoThread
  BY <1>1, <1>3 DEF Turns, BackingUp
<1>6. rwlock.writer = NoThread /\ rwlock.readers = {}
  BY <1>1, <1>3 DEF IInv, LockHolders, TableReader, TableWriter, Locking
<1> QED BY <1>2, <1>4, <1>5, <1>6 DEF Waits, CanRead, CanWrite

\* The threads never all wait on each other.  Of the threads that ask for a
\* chain lock, take one that asks for the highest: the thread that holds this
\* lock asks for a higher one, or goes on.
THEOREM NoCircleOfWaits ==
  ASSUME HashMonotone
  PROVE  Spec => []SomeoneGoesOn
<1>1. IInv /\ Turns /\ AscendingLocks => SomeoneGoesOn
  <2>1. SUFFICES ASSUME IInv, Turns, AscendingLocks, running = {},
                        NEW t \in Thread, Waits(t),
                        \A u \in Thread : pc[u] = "done" \/ Waits(u)
                 PROVE  FALSE
    BY DEF SomeoneGoesOn
  <2> DEFINE Asking == {u \in Thread : WaitsForSlot(u)}
             Asked  == {WantedSlot(u) : u \in Asking}
  <2>2. Asked # {}
    BY <2>1, OnlyLocksLeft
  <2>3. PICK u \in Asking : \A v \in Asking : WantedSlot(v) <= WantedSlot(u)
    <3>1. Asked \subseteq 0 .. TABLE_SIZE - 1
      BY <2>1, WantedInTable
    <3>2. PICK x \in Asked : \A y \in Asked : y <= x
      <4>1. TABLE_SIZE \in Nat
        BY TableAssumption
      <4> HIDE DEF Asked
      <4> QED BY <2>2, <3>1, <4>1, GreatestSlot
    <3> QED BY <3>2
  <2>4. PICK v \in Thread :
          /\ WantedSlot(u) \in HeldBy(v)
          /\ pc[v] \in Locking \cup {"rdlockall", "fork", "unlockall"}
    BY <2>1, HolderOfWanted
  <2>5. v \in Asking
    BY <2>1, <2>4 DEF Waits, Locking
  <2>6. WantedSlot(u) < WantedSlot(v)
    <3>1. CASE pc[v] = "lock"
      BY <2>1, <2>4, <2>5, <3>1 DEF AscendingLocks, WaitsForSlot, WantedSlot
    <3>2. CASE pc[v] = "rdlockall"
      BY <2>1, <2>4, <3>2 DEF AscendingLocks, WantedSlot
    <3> QED BY <2>5, <3>1, <3>2 DEF WaitsForSlot
  <2>7. /\ WantedSlot(u) \in 0 .. TABLE_SIZE - 1
        /\ WantedSlot(v) \in 0 .. TABLE_SIZE - 1
        /\ WantedSlot(v) <= WantedSlot(u)
    BY <2>1, <2>3, <2>5, WantedInTable
  <2> QED BY <2>6, <2>7
<1>2. Children => Turns
  BY DEF Children
<1> QED BY <1>1, <1>2, Invariance, ChildrenCounted, LocksAscend, PTL

=============================================================================
