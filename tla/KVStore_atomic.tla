--------------------------- MODULE KVStore_atomic ---------------------------
(***************************************************************************)
(* The engine implements AtomicKVS, for any number of threads, job files   *)
(* and keys: the proof of RefinesAtomic of KVStoreRefinement.              *)
(*                                                                         *)
(* First the invariant of the refinement: a thread does what its file says *)
(* (Issued), counts its backups (Counted), prints in order (Printed), and  *)
(* a SHOW with the lock has printed what it passed (ShowsRight).  Then     *)
(* what the abstract variables are, and what a thread's step leaves to the *)
(* others: the chains they have locked do not change.  So each step either *)
(* keeps the abstract variables, or is the step of AtomicKVS by which the  *)
(* command of the thread takes effect.                                     *)
(***************************************************************************)
EXTENDS KVStoreRefinement, KVStore_proofs, SequenceTheorems

-----------------------------------------------------------------------------
(* A thread and its job file. *)

\* A thread that is not between two job files has one.
LEMMA AtWork ==
  ASSUME IInv, NEW t \in Thread, pc[t] \notin Idle
  PROVE  file[t] \in File /\ file[t] # NoFile
BY DEF IInv, TypeOK, Control, ControlOf

\* What a step does to the files: a thread works on its own one.
LEMMA FilesFrame ==
  ASSUME IInv, NEW t \in Thread, ThreadStep(t)
  PROVE  /\ \A f \in File : f # file[t] => out'[f] = out[f] /\ offset'[f] = offset[f]
         /\ \A u \in Thread \ {t} :
              file'[u] = file[u] /\ total_backups'[u] = total_backups[u]
         /\ files' = files
<1> USE DEF IInv, TypeOK, locks, jobs, backing, local, process, Prints
<1>1. CASE TakesFiles(t)
  BY <1>1 DEF TakesFiles, LockFiles, NoMoreFiles, TakeFile
<1>2. CASE Starts(t)
  BY <1>2 DEF Starts, StartKeyCommand, StartShow, StartBackup, SkipCommand,
              EndOfFile, ReadsCommand
<1>3. CASE KeyCommand(t)
  BY <1>3 DEF KeyCommand, RdLockTable, LockSlot, SkipSlot, WritePair, ReadPair,
              DeletePair, UnlockSlot, UnlockTable
<1>4. CASE Shows(t)
  BY <1>4 DEF Shows, ShowLock, ShowSlot, ShowNode, ShowNextSlot, ShowEnd,
              ShowTorn, ShowFreed, ShowCrash
<1>5. CASE BacksUp(t)
  BY <1>5 DEF BacksUp, LockBackups, WaitChild, WaitNone, RdLockSlot, Fork,
              ForkFails, UnlockAllSlots, UnlockBackups
<1> QED BY <1>1, <1>2, <1>3, <1>4, <1>5 DEF ThreadStep

\* What another thread does not change.
Untouched(u) ==
  /\ pc'[u] = pc[u] /\ args'[u] = args[u] /\ i'[u] = i[u]
  /\ hashed'[u] = hashed[u] /\ file'[u] = file[u]
  /\ total_backups'[u] = total_backups[u]
  /\ file[u] # NoFile => /\ out'[file[u]] = out[file[u]]
                         /\ offset'[file[u]] = offset[file[u]]

LEMMA OthersUntouched ==
  ASSUME IInv, FilesHandedOutOnce, NEW t \in Thread, ThreadStep(t),
         NEW u \in Thread \ {t}
  PROVE  Untouched(u)
<1>1. file[u] # NoFile => file[u] \in File /\ file[u] # file[t]
  BY DEF IInv, TypeOK, FilesHandedOutOnce
<1> QED BY <1>1, FilesFrame, StepIsLocal DEF Untouched

\* The main thread and the children touch no thread.
LEMMA ProcessesApart ==
  ASSUME MainStep \/ ChildStep \/ Terminated \/ UNCHANGED vars
  PROVE  UNCHANGED <<table, locks, out, jobs, pc, local>>
BY DEF MainStep, MainJoin, MainReap, MainSpin, MainExit, ChildStep, ChildBackup,
       Terminated, vars, jobs, backing, locks, local, process

\* Writes and deletes apart, no step changes the table.
LEMMA TableKept ==
  ASSUME NEW t \in Thread, ThreadStep(t), ~WritePair(t), ~DeletePair(t)
  PROVE  table' = table
<1>1. CASE TakesFiles(t) \/ Starts(t)
  BY <1>1 DEF TakesFiles, LockFiles, NoMoreFiles, TakeFile, Starts,
     StartKeyCommand, StartShow, StartBackup, SkipCommand, EndOfFile
<1>2. CASE KeyCommand(t)
  BY <1>2 DEF KeyCommand, RdLockTable, LockSlot, SkipSlot, ReadPair,
     UnlockSlot, UnlockTable
<1>3. CASE Shows(t)
  BY <1>3 DEF Shows, ShowLock, ShowSlot, ShowNode, ShowNextSlot, ShowEnd,
     ShowTorn, ShowFreed, ShowCrash
<1>4. CASE BacksUp(t)
  BY <1>4 DEF BacksUp, LockBackups, WaitChild, WaitNone, RdLockSlot, Fork,
     ForkFails, UnlockAllSlots, UnlockBackups
<1> QED BY <1>1, <1>2, <1>3, <1>4 DEF ThreadStep

\* What the output of a file consists of.
LEMMA OutType ==
  ASSUME TypeOK, NEW f \in File
  PROVE  /\ out[f] \in Seq(Entry) /\ Len(out[f]) \in Nat
         /\ DOMAIN out[f] = 1 .. Len(out[f])
         /\ \A n \in DOMAIN out[f] : out[f][n] \in Entry /\ out[f][n].at \in Nat
         /\ offset[f] \in Nat
<1>1. out[f] \in Seq(Entry) /\ offset[f] \in Nat
  BY DEF TypeOK
<1>2. \A n \in DOMAIN out[f] : out[f][n] \in Entry
  BY <1>1
<1>3. \A e \in Entry : e.at \in Nat
  BY DEF Entry
<1> QED BY <1>1, <1>2, <1>3

\* What Prints does to the output of the thread's file.
LEMMA PrintsAdds ==
  ASSUME TypeOK, NEW t \in Thread, file[t] \in File,
         NEW key, NEW value, Prints(t, key, value)
  PROVE  /\ out'[file[t]] = Append(out[file[t]], EntryOf(t, key, value))
         /\ DOMAIN out'[file[t]] = 1 .. Len(out[file[t]]) + 1
         /\ Len(out'[file[t]]) = Len(out[file[t]]) + 1
         /\ \A n \in DOMAIN out[file[t]] : out'[file[t]][n] = out[file[t]][n]
         /\ out'[file[t]][Len(out[file[t]]) + 1] = EntryOf(t, key, value)
         /\ EntryOf(t, key, value).at = offset[file[t]]
         /\ EntryOf(t, key, value).key = key
         /\ EntryOf(t, key, value).value = value
<1> DEFINE e == EntryOf(t, key, value)
<1>1. out'[file[t]] = Append(out[file[t]], e)
  BY DEF Prints, TypeOK, EntryOf
<1>2. e.at = offset[file[t]] /\ e.key = key /\ e.value = value
  BY DEF EntryOf
<1> HIDE DEF e
<1>3. out[file[t]] \in Seq(Entry \cup {e})
  BY DEF TypeOK
<1>4. /\ DOMAIN out'[file[t]] = 1 .. Len(out[file[t]]) + 1
      /\ Len(out'[file[t]]) = Len(out[file[t]]) + 1
      /\ \A n \in DOMAIN out[file[t]] : out'[file[t]][n] = out[file[t]][n]
      /\ out'[file[t]][Len(out[file[t]]) + 1] = e
  BY <1>1, <1>3, AppendProperties
<1> QED BY <1>1, <1>2, <1>4 DEF e

-----------------------------------------------------------------------------
(* A thread does what its job file says. *)

LEMMA IssuedFrame ==
  ASSUME NEW u \in Thread, IssuedOf(u), files' = files, Untouched(u),
         pc[u] \in Idle <=> file[u] = NoFile
  PROVE  IssuedOf(u)'
<1>1. CASE file[u] = NoFile
  BY <1>1 DEF IssuedOf, Untouched, Idle, InShow, BeforeFork
<1>2. CASE file[u] # NoFile
  BY <1>2 DEF IssuedOf, Untouched, Opcode, Pairs, Current
<1> QED BY <1>1, <1>2

LEMMA IssuedStarts ==
  ASSUME IInv, NEW t \in Thread, IssuedOf(t), Starts(t)
  PROVE  IssuedOf(t)'
<1> USE DEF IInv, TypeOK, local, jobs, GoTo
<1>1. ASSUME NEW ops, AtCommand(t, ops), ReadsCommand(t), files' = files,
             file' = file
      PROVE  /\ offset'[file[t]] = offset[file[t]] + 1
             /\ offset'[file[t]] > 0
             /\ Current(t)' = Command(t)
             /\ Command(t).op \in ops
  <2>1. file[t] \in File /\ Command(t).op \in ops
    BY <1>1, CommandRead
  <2>2. offset'[file[t]] = offset[file[t]] + 1 /\ offset[file[t]] \in Nat
    BY <1>1, <2>1 DEF ReadsCommand
  <2> QED BY <1>1, <2>1, <2>2 DEF Current, Command
<1>2. CASE StartKeyCommand(t)
  <2>1. /\ Current(t)' = Command(t) /\ offset'[file[t]] > 0
        /\ Command(t).op \in KeyOps
    BY <1>1, <1>2 DEF StartKeyCommand
  <2>2. /\ Opcode(t)' = Command(t).op
        /\ Pairs(t)' = insertionSort(Command(t).pairs)
        /\ pc'[t] \in {"lock", "rdlock"} /\ file' = file
    BY <1>2 DEF StartKeyCommand, Opcode, Pairs
  <2> QED BY <2>1, <2>2 DEF IssuedOf, InShow, BeforeFork
<1>3. CASE StartShow(t)
  <2>1. /\ Current(t)' = Command(t) /\ offset'[file[t]] > 0
        /\ Command(t).op \in {"SHOW"}
    BY <1>1, <1>3 DEF StartShow
  <2>2. pc'[t] \in {"showlock", "showslot"} /\ file' = file
    BY <1>3 DEF StartShow
  <2> QED BY <2>1, <2>2 DEF IssuedOf, InShow, BeforeFork
<1>4. CASE StartBackup(t)
  <2>1. /\ Current(t)' = Command(t) /\ offset'[file[t]] > 0
        /\ Command(t).op \in {"BACKUP"}
    BY <1>1, <1>4 DEF StartBackup
  <2>2. pc'[t] = "backup" /\ file' = file
    BY <1>4 DEF StartBackup
  <2> QED BY <2>1, <2>2 DEF IssuedOf, InShow, BeforeFork
<1>5. CASE SkipCommand(t) \/ EndOfFile(t)
  <2>1. pc'[t] \in {"command", "fetch"}
    BY <1>5 DEF SkipCommand, EndOfFile, AtCommand
  <2> QED BY <2>1 DEF IssuedOf, InShow, BeforeFork, Idle
<1> QED BY <1>2, <1>3, <1>4, <1>5 DEF Starts

\* From its start to its end, a command stays the command it is.
LEMMA IssuedWithin ==
  ASSUME IInv, NEW t \in Thread, IssuedOf(t), KeyCommand(t) \/ Shows(t) \/ BacksUp(t)
  PROVE  IssuedOf(t)'
<1> USE DEF IInv, TypeOK, local, jobs, backing, process, locks, GoTo
<1>1. files' = files /\ file' = file /\ offset' = offset /\ args' = args
  BY DEF KeyCommand, RdLockTable, LockSlot, SkipSlot, WritePair, ReadPair,
         DeletePair, UnlockSlot, UnlockTable,
         Shows, ShowLock, ShowSlot, ShowNode, ShowNextSlot, ShowEnd,
         ShowTorn, ShowFreed, ShowCrash, BacksUp, LockBackups, WaitChild,
         WaitNone, RdLockSlot, Fork, ForkFails, UnlockAllSlots, UnlockBackups
<1>2. Current(t)' = Current(t) /\ Opcode(t)' = Opcode(t) /\ Pairs(t)' = Pairs(t)
  BY <1>1 DEF Current, Opcode, Pairs
<1>3. CASE KeyCommand(t)
  <2>1. /\ pc[t] \notin Idle \cup {"command"}
        /\ pc'[t] \notin InShow \cup BeforeFork
        /\ pc'[t] \in {"rdlock", "lock", "apply"} =>
             pc[t] \in {"rdlock", "lock", "apply"}
    BY <1>3 DEF KeyCommand, RdLockTable, LockSlot, SkipSlot, WritePair, ReadPair,
         DeletePair, UnlockSlot, UnlockTable, NextPair, Applies, Idle, InShow,
         BeforeFork
  <2> QED BY <1>1, <1>2, <2>1 DEF IssuedOf
<1>4. CASE Shows(t)
  <2>1. pc[t] \in InShow /\ pc'[t] \in InShow \cup {"command"}
    BY <1>4 DEF Shows, ShowLock, ShowSlot, ShowNode, ShowNextSlot, ShowEnd,
         ShowTorn, ShowFreed, ShowCrash, InShow
  <2> QED BY <1>1, <1>2, <2>1 DEF IssuedOf, InShow, BeforeFork, Idle
<1>5. CASE BacksUp(t)
  <2>1. /\ pc[t] \in BeforeFork \cup {"unlockall", "unlockbackups"}
        /\ pc'[t] \in BeforeFork \cup {"unlockall", "unlockbackups", "command"}
        /\ pc'[t] \in BeforeFork => pc[t] \in BeforeFork
    BY <1>5 DEF BacksUp, LockBackups, WaitChild, WaitNone, RdLockSlot, Fork,
         ForkFails, UnlockAllSlots, UnlockBackups, BeforeFork
  <2> QED BY <1>1, <1>2, <2>1 DEF IssuedOf, InShow, BeforeFork, Idle
<1> QED BY <1>3, <1>4, <1>5

LEMMA IssuedStep ==
  IInv /\ FilesHandedOutOnce /\ Issued /\ [Next]_vars => Issued'
<1> SUFFICES ASSUME IInv, FilesHandedOutOnce, Issued, [Next]_vars
             PROVE  Issued'
  OBVIOUS
<1>0. \A t \in Thread : pc[t] \in Idle <=> file[t] = NoFile
  BY DEF IInv, Control, ControlOf
<1>1. ASSUME NEW t \in Thread, ThreadStep(t) PROVE Issued'
  <2>1. IssuedOf(t)'
    <3>1. CASE TakesFiles(t)
      <4>1. pc'[t] \in Idle \cup {"command"}
        BY <3>1 DEF IInv, TypeOK, TakesFiles, LockFiles, NoMoreFiles, TakeFile,
                    GoTo, Idle
      <4> QED BY <4>1 DEF IssuedOf, Idle, InShow, BeforeFork
    <3>2. CASE ~TakesFiles(t)
      BY <1>1, <3>2, IssuedStarts, IssuedWithin DEF ThreadStep, Issued
    <3> QED BY <3>1, <3>2
  <2>2. ASSUME NEW u \in Thread \ {t} PROVE IssuedOf(u)'
    BY <1>0, <1>1, IssuedFrame, OthersUntouched, FilesFrame DEF Issued
  <2>3. ASSUME NEW f \in File, f >= current_index' PROVE offset'[f] = 0
    <3>1. /\ current_index' \in {current_index, current_index + 1}
          /\ current_index \in Nat /\ f \in Nat
      <4>1. CASE TakesFiles(t)
        BY <4>1 DEF TakesFiles, LockFiles, NoMoreFiles, TakeFile, File, IInv, TypeOK
      <4>2. CASE Starts(t)
        BY <4>2 DEF Starts, StartKeyCommand, StartShow, StartBackup, SkipCommand,
              EndOfFile, File, IInv, TypeOK, jobs
      <4>3. CASE KeyCommand(t) \/ Shows(t) \/ BacksUp(t)
        BY <4>3 DEF KeyCommand, RdLockTable, LockSlot, SkipSlot, WritePair,
             ReadPair, DeletePair, UnlockSlot, UnlockTable,
             Shows, ShowLock, ShowSlot, ShowNode, ShowNextSlot, ShowEnd,
             ShowTorn, ShowFreed, ShowCrash, BacksUp, LockBackups, WaitChild,
             WaitNone, RdLockSlot, Fork, ForkFails, UnlockAllSlots,
             UnlockBackups, File, IInv, TypeOK, jobs
      <4> QED BY <1>1, <4>1, <4>2, <4>3 DEF ThreadStep
    <3>2. f >= current_index
      BY <2>3, <3>1
    <3>3. f # file[t]
      <4>1. file[t] \in File \cup {NoFile}
        BY DEF IInv, TypeOK
      <4>2. f # NoFile
        BY StoreAssumption DEF File
      <4>3. file[t] # NoFile => file[t] < current_index /\ file[t] \in Nat
        BY <4>1 DEF FilesHandedOutOnce, File
      <4> QED BY <3>1, <3>2, <4>2, <4>3
    <3> QED BY <1>1, <3>2, <3>3, FilesFrame DEF Issued
  <2> QED BY <2>1, <2>2, <2>3 DEF Issued
<1>2. CASE UNCHANGED <<table, locks, out, jobs, pc, local>>
  <2>1. ASSUME NEW u \in Thread PROVE IssuedOf(u)'
    BY <1>2 DEF Issued, IssuedOf, Opcode, Pairs, Current, jobs, local
  <2> QED BY <1>2, <2>1 DEF Issued, jobs
<1> QED BY <1>1, <1>2, ProcessesApart DEF Next

-----------------------------------------------------------------------------
(* total_backups counts the BACKUPs of the job file. *)

\* Reading one more command counts it if it is a BACKUP.
LEMMA OneMoreBackup ==
  ASSUME NEW f, NEW n \in Nat
  PROVE  BackupsUpTo(f, n + 1) =
           BackupsUpTo(f, n) + (IF files[f][n + 1].op = "BACKUP" THEN 1 ELSE 0)
<1> DEFINE B(m) == {j \in 1 .. m : files[f][j].op = "BACKUP"}
<1>1. IsFiniteSet(B(n)) /\ n + 1 \notin B(n)
  <2>1. IsFiniteSet(1 .. n)
    BY FS_Interval
  <2> QED BY <2>1, FS_Subset
<1>2. CASE files[f][n + 1].op = "BACKUP"
  <2>1. B(n + 1) = B(n) \cup {n + 1}
    BY <1>2
  <2> HIDE DEF B
  <2>2. Cardinality(B(n + 1)) = Cardinality(B(n)) + 1
    BY <1>1, <2>1, FS_AddElement
  <2> QED BY <1>2, <2>2 DEF BackupsUpTo, B
<1>3. CASE files[f][n + 1].op # "BACKUP"
  <2>1. B(n + 1) = B(n)
    <3>1. \A j \in 1 .. n + 1 : j # n + 1 => j \in 1 .. n
      OBVIOUS
    <3> QED BY <1>3, <3>1
  <2>2. Cardinality(B(n)) \in Nat
    BY <1>1, FS_CardinalityType
  <2> QED BY <1>3, <2>1, <2>2 DEF BackupsUpTo
<1> QED BY <1>2, <1>3

LEMMA CountedStarts ==
  ASSUME IInv, NEW t \in Thread, CountedOf(t), Starts(t)
  PROVE  CountedOf(t)'
<1> USE DEF IInv, TypeOK, local, jobs, GoTo
<1>1. CASE EndOfFile(t)
  BY <1>1 DEF EndOfFile, CountedOf
<1>2. ASSUME NEW ops, AtCommand(t, ops), ReadsCommand(t), UNCHANGED <<files, file>>,
             total_backups' = total_backups,
             pc'[t] \in BeforeFork <=> Command(t).op = "BACKUP"
      PROVE  CountedOf(t)'
  <2>1. file[t] \in File /\ file[t] # NoFile
    BY <1>2, CommandRead
  <2>2. offset'[file[t]] = offset[file[t]] + 1 /\ offset[file[t]] \in Nat
    BY <1>2, <2>1 DEF ReadsCommand
  <2>3. pc[t] \notin BeforeFork
    BY <1>2 DEF AtCommand, BeforeFork
  <2>4. BackupsUpTo(file[t], offset[file[t]]) = total_backups[t]
    BY <2>1, <2>3 DEF CountedOf
  <2> DEFINE n == offset[file[t]]
             g == file[t]
  <2>5. BackupsUpTo(g, n + 1) =
          BackupsUpTo(g, n) + (IF Command(t).op = "BACKUP" THEN 1 ELSE 0)
    BY <2>2, OneMoreBackup DEF Command
  <2>6. BackupsUpTo(file[t], offset[file[t]])' = BackupsUpTo(g, n + 1)
    BY <1>2, <2>2 DEF BackupsUpTo
  <2>7. total_backups[t] \in Nat
    OBVIOUS
  <2> QED BY <1>2, <2>3, <2>4, <2>5, <2>6, <2>7 DEF CountedOf
<1>3. CASE StartKeyCommand(t)
  <2>1. Command(t).op \in KeyOps /\ AtCommand(t, KeyOps)
    BY <1>3, CommandRead DEF StartKeyCommand
  <2>2. pc'[t] \in {"lock", "rdlock"}
    BY <1>3 DEF StartKeyCommand
  <2> QED BY <1>2, <1>3, <2>1, <2>2 DEF StartKeyCommand, BeforeFork, KeyOps
<1>4. CASE StartShow(t)
  <2>1. Command(t).op \in {"SHOW"} /\ AtCommand(t, {"SHOW"})
    BY <1>4, CommandRead DEF StartShow
  <2>2. pc'[t] \in {"showlock", "showslot"}
    BY <1>4 DEF StartShow
  <2> QED BY <1>2, <1>4, <2>1, <2>2 DEF StartShow, BeforeFork
<1>5. CASE StartBackup(t)
  <2>1. Command(t).op \in {"BACKUP"} /\ AtCommand(t, {"BACKUP"})
    BY <1>5, CommandRead DEF StartBackup
  <2>2. pc'[t] = "backup"
    BY <1>5 DEF StartBackup
  <2> QED BY <1>2, <1>5, <2>1, <2>2 DEF StartBackup, BeforeFork
<1>6. CASE SkipCommand(t)
  <2>1. Command(t).op \in {"WAIT", "INVALID"} /\ AtCommand(t, {"WAIT", "INVALID"})
    BY <1>6, CommandRead DEF SkipCommand
  <2>2. pc'[t] = "command"
    BY <1>6 DEF SkipCommand, AtCommand
  <2> QED BY <1>2, <1>6, <2>1, <2>2 DEF SkipCommand, BeforeFork
<1> QED BY <1>1, <1>3, <1>4, <1>5, <1>6 DEF Starts

LEMMA CountedWithin ==
  ASSUME IInv, NEW t \in Thread, CountedOf(t), KeyCommand(t) \/ Shows(t) \/ BacksUp(t)
  PROVE  CountedOf(t)'
<1> USE DEF IInv, TypeOK, local, jobs, backing, process, locks, GoTo
<1>1. files' = files /\ file' = file /\ offset' = offset
  BY DEF KeyCommand, RdLockTable, LockSlot, SkipSlot, WritePair, ReadPair,
         DeletePair, UnlockSlot, UnlockTable,
         Shows, ShowLock, ShowSlot, ShowNode, ShowNextSlot, ShowEnd,
         ShowTorn, ShowFreed, ShowCrash, BacksUp, LockBackups, WaitChild,
         WaitNone, RdLockSlot, Fork, ForkFails, UnlockAllSlots, UnlockBackups
<1>2. ASSUME total_backups'[t] + (IF pc'[t] \in BeforeFork THEN 1 ELSE 0)
               = total_backups[t] + (IF pc[t] \in BeforeFork THEN 1 ELSE 0)
      PROVE  CountedOf(t)'
  BY <1>1, <1>2 DEF CountedOf, BackupsUpTo
<1>3. CASE KeyCommand(t)
  <2>1. /\ pc[t] \notin BeforeFork /\ pc'[t] \notin BeforeFork
        /\ total_backups' = total_backups
    BY <1>3 DEF KeyCommand, RdLockTable, LockSlot, SkipSlot, WritePair, ReadPair,
         DeletePair, UnlockSlot, UnlockTable, NextPair, Applies, BeforeFork
  <2> QED BY <1>2, <2>1
<1>4. CASE Shows(t)
  <2>1. /\ pc[t] \notin BeforeFork /\ pc'[t] \notin BeforeFork
        /\ total_backups' = total_backups
    BY <1>4 DEF Shows, ShowLock, ShowSlot, ShowNode, ShowNextSlot, ShowEnd,
         ShowTorn, ShowFreed, ShowCrash, BeforeFork
  <2> QED BY <1>2, <2>1
<1>5. CASE Fork(t) \/ ForkFails(t)
  <2>1. /\ pc[t] \in BeforeFork /\ pc'[t] \notin BeforeFork
        /\ total_backups'[t] = total_backups[t] + 1
        /\ total_backups[t] \in Nat
    BY <1>5 DEF Fork, ForkFails, BeforeFork
  <2> QED BY <1>2, <2>1
<1>6. CASE BacksUp(t) /\ ~Fork(t) /\ ~ForkFails(t)
  <2>1. /\ pc[t] \in BeforeFork <=> pc'[t] \in BeforeFork
        /\ total_backups' = total_backups
    BY <1>6 DEF BacksUp, LockBackups, WaitChild, WaitNone, RdLockSlot,
         UnlockAllSlots, UnlockBackups, BeforeFork
  <2> QED BY <1>2, <2>1
<1> QED BY <1>3, <1>4, <1>5, <1>6 DEF BacksUp

LEMMA CountedStep ==
  IInv /\ FilesHandedOutOnce /\ Issued /\ Counted /\ [Next]_vars => Counted'
<1> SUFFICES ASSUME IInv, FilesHandedOutOnce, Issued, Counted, [Next]_vars
             PROVE  Counted'
  OBVIOUS
<1>1. ASSUME NEW t \in Thread, ThreadStep(t) PROVE Counted'
  <2>1. CountedOf(t)'
    <3>1. CASE LockFiles(t) \/ NoMoreFiles(t)
      <4>1. UNCHANGED <<files, file, offset, total_backups>>
        BY <3>1 DEF LockFiles, NoMoreFiles, local
      <4>2. pc[t] \notin BeforeFork /\ pc'[t] \notin BeforeFork
        BY <3>1 DEF IInv, TypeOK, LockFiles, NoMoreFiles, GoTo, BeforeFork
      <4> QED BY <4>1, <4>2 DEF Counted, CountedOf, BackupsUpTo
    <3>2. CASE TakeFile(t)
      <4>1. /\ file'[t] = current_index /\ total_backups'[t] = 0
            /\ pc'[t] = "command" /\ UNCHANGED <<files, offset>>
        BY <3>2 DEF IInv, TypeOK, TakeFile, GoTo
      <4>2. current_index \in File
        BY <3>2, StoreAssumption
           DEF TakeFile, IInv, TypeOK, Control, ControlOf, File
      <4>3. offset[current_index] = 0
        BY <4>2 DEF Issued, File
      <4>4. BackupsUpTo(current_index, 0)' = 0
        <5>1. {j \in 1 .. 0 : files[current_index][j].op = "BACKUP"} = {}
          OBVIOUS
        <5> QED BY <4>1, <5>1, FS_EmptySet DEF BackupsUpTo
      <4> QED BY <4>1, <4>3, <4>4, FS_EmptySet DEF CountedOf, BeforeFork, BackupsUpTo
    <3>3. CASE ~TakesFiles(t)
      BY <1>1, <3>3, CountedStarts, CountedWithin DEF ThreadStep, Counted
    <3> QED BY <3>1, <3>2, <3>3 DEF TakesFiles
  <2>2. ASSUME NEW u \in Thread \ {t} PROVE CountedOf(u)'
    <3>1. Untouched(u) /\ CountedOf(u) /\ files' = files
      BY <1>1, OthersUntouched, FilesFrame DEF Counted
    <3> QED BY <3>1 DEF CountedOf, Untouched, BackupsUpTo
  <2> QED BY <2>1, <2>2 DEF Counted
<1>2. CASE UNCHANGED <<table, locks, out, jobs, pc, local>>
  BY <1>2 DEF Counted, CountedOf, BackupsUpTo, jobs, local
<1> QED BY <1>1, <1>2, ProcessesApart DEF Next

-----------------------------------------------------------------------------
(* What is printed is in order. *)

PrintedIn(f) ==
  \A m, n \in DOMAIN out[f] :
    /\ out[f][m].at <= offset[f]
    /\ m <= n => out[f][m].at <= out[f][n].at

LEMMA PrintedAppend ==
  ASSUME TypeOK, NEW t \in Thread, NEW f \in File, file[t] = f, PrintedIn(f),
         NEW key, NEW value, Prints(t, key, value), offset' = offset
  PROVE  PrintedIn(f)'
<1> DEFINE e == EntryOf(t, key, value)
<1>1. /\ DOMAIN out'[f] = 1 .. Len(out[f]) + 1
      /\ \A n \in DOMAIN out[f] : out'[f][n] = out[f][n]
      /\ out'[f][Len(out[f]) + 1] = e
      /\ e.at = offset[f]
  <2> HIDE DEF e
  <2>1. DOMAIN out'[f] = 1 .. Len(out[f]) + 1
    BY PrintsAdds
  <2>2. \A n \in DOMAIN out[f] : out'[f][n] = out[f][n]
    BY PrintsAdds
  <2>3. out'[f][Len(out[f]) + 1] = e
    BY PrintsAdds DEF e
  <2>4. e.at = offset[f]
    BY PrintsAdds DEF e
  <2> QED BY <2>1, <2>2, <2>3, <2>4
<1> HIDE DEF e
<1>2. /\ Len(out[f]) \in Nat /\ DOMAIN out[f] = 1 .. Len(out[f])
      /\ \A n \in DOMAIN out[f] : out[f][n].at \in Nat
      /\ offset[f] \in Nat
  BY OutType
<1>3. \A n \in DOMAIN out'[f] : n \in DOMAIN out[f] \/ n = Len(out[f]) + 1
  BY <1>1, <1>2
<1> HIDE DEF e
<1>4. ASSUME NEW m \in DOMAIN out'[f], NEW n \in DOMAIN out'[f]
      PROVE  /\ out'[f][m].at <= offset[f]
             /\ m <= n => out'[f][m].at <= out'[f][n].at
  <2>1. CASE m \in DOMAIN out[f]
    BY <1>1, <1>2, <1>3, <2>1 DEF PrintedIn
  <2>2. CASE m = Len(out[f]) + 1
    <3>1. m <= n => n = m
      BY <1>1, <1>3, <2>2
    <3> QED BY <1>1, <1>2, <2>2, <3>1
  <2> QED BY <1>3, <2>1, <2>2
<1> QED BY <1>4 DEF PrintedIn

LEMMA PrintedStep == IInv /\ Printed /\ [Next]_vars => Printed'
<1> SUFFICES ASSUME IInv, Printed, [Next]_vars, NEW f \in File
             PROVE  PrintedIn(f)'
  BY DEF Printed, PrintedIn
<1> USE DEF IInv, TypeOK, locks, jobs, backing, local, process
<1>1. PrintedIn(f)
  BY DEF Printed, PrintedIn
<1>2. ASSUME out'[f] = out[f], offset'[f] = offset[f] PROVE PrintedIn(f)'
  BY <1>1, <1>2 DEF PrintedIn
<1>3. ASSUME NEW t \in Thread, ThreadStep(t) PROVE PrintedIn(f)'
  <2>1. CASE f # file[t]
    BY <1>2, <1>3, <2>1, FilesFrame
  <2>2. CASE f = file[t] /\ Starts(t)
    <3>1. out' = out /\ offset'[f] \in {offset[f], offset[f] + 1}
      BY <2>2 DEF Starts, StartKeyCommand, StartShow, StartBackup, SkipCommand,
                  EndOfFile, ReadsCommand
    <3>2. offset[f] \in Nat /\ \A n \in DOMAIN out[f] : out[f][n].at \in Nat
      BY OutType
    <3> QED BY <1>1, <3>1, <3>2 DEF PrintedIn
  <2>3. CASE f = file[t] /\ \E key, value : Prints(t, key, value) /\ offset' = offset
    BY <1>1, <2>3, PrintedAppend
  <2>4. CASE ~Starts(t)
    <3>1. \/ out' = out /\ offset' = offset
          \/ \E key, value : Prints(t, key, value) /\ offset' = offset
      <4>1. CASE TakesFiles(t)
        BY <4>1 DEF TakesFiles, LockFiles, NoMoreFiles, TakeFile
      <4>2. CASE KeyCommand(t)
        BY <4>2 DEF KeyCommand, RdLockTable, LockSlot, SkipSlot, WritePair,
                    ReadPair, DeletePair, UnlockSlot, UnlockTable
      <4>3. CASE Shows(t)
        BY <4>3 DEF Shows, ShowLock, ShowSlot, ShowNode, ShowNextSlot, ShowEnd,
                    ShowTorn, ShowFreed, ShowCrash
      <4>4. CASE BacksUp(t)
        BY <4>4 DEF BacksUp, LockBackups, WaitChild, WaitNone, RdLockSlot,
             Fork, ForkFails, UnlockAllSlots, UnlockBackups
      <4> QED BY <1>3, <2>4, <4>1, <4>2, <4>3, <4>4 DEF ThreadStep
    <3> QED BY <1>2, <2>1, <2>3, <3>1
  <2> QED BY <2>1, <2>2, <2>4
<1>4. CASE UNCHANGED <<table, locks, out, jobs, pc, local>>
  BY <1>2, <1>4
<1> QED BY <1>3, <1>4, ProcessesApart DEF Next

-----------------------------------------------------------------------------
(* SHOW with the lock. *)

LEMMA TableChains ==
  ASSUME IInv, ChainsWellFormed, NEW s \in Slot
  PROVE  table[s] \in Chain /\ WellFormed(table[s], s)
BY DEF IInv, TypeOK, Table, ChainsWellFormed, WellFormed

\* So it prints one and the same table.
LEMMA ShowUndisturbed ==
  ASSUME IInv, NEW t \in Thread, TableWriter(t), NEW u \in Thread, ThreadStep(u)
  PROVE  table' = table /\ (u # t => cursor'[t] = cursor[t])
<1>1. ~TableReader(u)
  BY WriterOfTable
<1>2. ~WritePair(u) /\ ~DeletePair(u)
  BY <1>1 DEF TableReader, WritePair, DeletePair, Applies, Locking, Mutates
<1>3. ASSUME u # t PROVE cursor'[t] = cursor[t]
  <2> USE DEF IInv, TypeOK, local
  <2>1. CASE TakesFiles(u) \/ Starts(u)
    BY <2>1 DEF TakesFiles, LockFiles, NoMoreFiles, TakeFile, Starts,
       StartKeyCommand, StartShow, StartBackup, SkipCommand, EndOfFile
  <2>2. CASE KeyCommand(u)
    BY <1>2, <2>2 DEF KeyCommand, RdLockTable, LockSlot, SkipSlot, ReadPair,
       UnlockSlot, UnlockTable
  <2>3. CASE Shows(u)
    BY <1>3, <2>3 DEF Shows, ShowLock, ShowSlot, ShowNode, ShowNextSlot, ShowEnd,
       ShowTorn, ShowFreed, ShowCrash
  <2>4. CASE BacksUp(u)
    BY <2>4 DEF BacksUp, LockBackups, WaitChild, WaitNone, RdLockSlot, Fork,
       ForkFails, UnlockAllSlots, UnlockBackups
  <2> QED BY <2>1, <2>2, <2>3, <2>4 DEF ThreadStep
<1> QED BY <1>2, <1>3, TableKept

\* A key is read where the walk of SHOW stands.
LEMMA CursorNode ==
  ASSUME IInv, ChainsWellFormed, NEW s \in Slot, NEW k, InChain(table[s], k)
  PROVE  /\ k \in Key /\ hash(k) = s
         /\ Position(table[s], k) \in DOMAIN table[s]
         /\ table[s][Position(table[s], k)].key = k
         /\ read_pair(table, k) = table[s][Position(table[s], k)].value
         /\ read_pair(table, k) \in Value
<1> DEFINE chain == table[s]
           p == Position(chain, k)
<1>1. chain \in Chain /\ WellFormed(chain, s)
  BY TableChains
<1>2. p \in DOMAIN chain /\ chain[p].key = k
  BY <1>1, PositionFound
<1>3. k \in Key /\ chain[p].value \in Value /\ ValueIn(chain, k) = chain[p].value
  BY <1>1, <1>2, NodeFound
<1>4. hash(k) = s
  BY <1>1, <1>2 DEF WellFormed
<1> QED BY <1>2, <1>3, <1>4, ReadIsValueIn

\* A value is read only where there is a node.
LEMMA ReadNode ==
  ASSUME NEW k \in Key, read_pair(table, k) # NULL
  PROVE  InChain(table[hash(k)], k)
BY DEF read_pair

LEMMA ShownInLock ==
  ASSUME IInv, NEW t \in Thread, ShowsOf(t), UseRwlock, pc[t] = "showlock"
  PROVE  Shown(t) = {} /\ \A k \in Key : ~Passed(t, k)
<1>1. i[t] = 0
  BY DEF IInv, Control, ControlOf
<1>2. \A k \in Key : ~Passed(t, k)
  BY <1>1, HashType DEF Passed, Slot
<1> QED BY <1>2 DEF ShowsOf, InShow

LEMMA ShowsFrame ==
  ASSUME IInv, NEW t \in Thread, ShowsOf(t), NEW u \in Thread \ {t}, ThreadStep(u),
         Untouched(t)
  PROVE  ShowsOf(t)'
<1> SUFFICES ASSUME UseRwlock, pc[t] \in InShow
             PROVE  ShowsOf(t)'
  BY DEF ShowsOf, Untouched
<1>1. file[t] # NoFile
  BY DEF IInv, Control, ControlOf, Idle, InShow
<1>2. Shown(t)' = Shown(t)
  BY <1>1 DEF Shown, Untouched
<1>3. CASE pc[t] = "showlock"
  <2>1. Shown(t)' = {}
    BY <1>2, <1>3, ShownInLock
  <2>2. i'[t] = 0 /\ pc'[t] = "showlock"
    BY <1>3 DEF IInv, Control, ControlOf, Untouched
  <2>3. \A k \in Key : ~Passed(t, k)'
    BY <2>2, HashType DEF Passed, Slot
  <2> QED BY <2>1, <2>2, <2>3 DEF ShowsOf
<1>4. CASE pc[t] # "showlock"
  <2>1. TableWriter(t)
    BY <1>4 DEF TableWriter, InShow
  <2>2. table' = table /\ cursor'[t] = cursor[t]
    BY <2>1, ShowUndisturbed
  <2>3. \A k : Passed(t, k)' <=> Passed(t, k)
    BY <2>2 DEF Passed, Untouched
  <2> QED BY <1>1, <1>2, <2>2, <2>3 DEF ShowsOf, Untouched
<1> QED BY <1>3, <1>4

LEMMA ShowsStart ==
  ASSUME IInv, Printed, NEW t \in Thread, StartShow(t)
  PROVE  ShowsOf(t)'
<1> USE DEF IInv, TypeOK, local, jobs, GoTo
<1> SUFFICES ASSUME UseRwlock PROVE ShowsOf(t)'
  BY DEF ShowsOf
<1>1. /\ file[t] \in File /\ offset'[file[t]] = offset[file[t]] + 1
      /\ out' = out /\ file' = file /\ pc'[t] = "showlock" /\ i'[t] = 0
  BY CommandRead DEF StartShow, ReadsCommand
<1>2. \A n \in DOMAIN out[file[t]] : out[file[t]][n].at # offset'[file[t]]
  <2> TAKE n \in DOMAIN out[file[t]]
  <2>1. /\ out[file[t]][n].at <= offset[file[t]]
        /\ out[file[t]][n].at \in Nat /\ offset[file[t]] \in Nat
    BY <1>1, OutType DEF Printed
  <2> QED BY <1>1, <2>1
<1>3. Shown(t)' = {}
  BY <1>1, <1>2 DEF Shown
<1>4. \A k \in Key : ~Passed(t, k)'
  BY <1>1, HashType DEF Passed, Slot
<1> QED BY <1>1, <1>3, <1>4 DEF ShowsOf

LEMMA ShowsNode ==
  ASSUME IInv, ChainsWellFormed, NEW t \in Thread, ShowsOf(t), UseRwlock,
         NEW k, cursor[t] = k, ShowNode(t)
  PROVE  ShowsOf(t)'
<1> DEFINE f == file[t]
           s == i[t]
           chain == table[s]
           p == Position(chain, k)
           e == EntryOf(t, k, read_pair(table, k))
           L == Len(out[f])
<1>1. /\ pc[t] = "shownode" /\ k \in Key /\ Prints(t, k, read_pair(table, k))
      /\ cursor' = [cursor EXCEPT ![t] = NextOf(table[hash(k)], k)]
      /\ UNCHANGED <<table, pc, file, i, offset>>
  BY DEF ShowNode, jobs
<1>2. f \in File /\ s \in Slot
  <2>1. pc[t] \notin Idle
    BY <1>1 DEF Idle
  <2>2. s < TABLE_SIZE /\ s \in Nat
    BY <1>1 DEF IInv, TypeOK, Control, ControlOf
  <2> QED BY <2>1, <2>2, AtWork, TableAssumption DEF Slot
<1>3. InChain(chain, k)
  BY <1>1, TableAssumption DEF ShowsOf, InShow
<1>4. /\ hash(k) = s /\ p \in DOMAIN chain /\ chain[p].key = k
      /\ read_pair(table, k) \in Value
  BY <1>2, <1>3, CursorNode
<1>5. /\ chain \in Chain /\ WellFormed(chain, s) /\ DOMAIN chain = 1 .. Len(chain)
      /\ Len(chain) \in Nat
  BY <1>2, TableChains DEF Chain
<1>6. cursor'[t] = NodeAt(chain, p + 1)
  BY <1>1, <1>4 DEF NextOf, IInv, TypeOK
<1> HIDE DEF chain, p
<1>7. /\ cursor'[t] = NULL => p = Len(chain)
      /\ cursor'[t] # NULL => /\ InChain(chain, cursor'[t])
                              /\ Position(chain, cursor'[t]) = p + 1
  <2>1. CASE p + 1 \in DOMAIN chain
    BY <1>5, <1>6, <2>1, NodeFound, TableAssumption DEF NodeAt
  <2>2. CASE p + 1 \notin DOMAIN chain
    BY <1>4, <1>5, <1>6, <2>2 DEF NodeAt
  <2> QED BY <2>1, <2>2
<1>8. ASSUME NEW q \in Key, hash(q) = s, InChain(chain, q)
      PROVE  Passed(t, q)' <=> q = k \/ Passed(t, q)
  <2>1. Position(chain, q) \in DOMAIN chain /\ (Position(chain, q) = p <=> q = k)
    BY <1>4, <1>5, <1>8, PositionFound DEF p
  <2>2. Passed(t, q) <=> Position(chain, q) < p
    BY <1>1, <1>2, <1>8, TableAssumption DEF Passed, chain, p, Slot
  <2>3. Passed(t, q)' <=> Position(chain, q) < p + 1
    <3>1. Passed(t, q)' <=>
            \/ cursor'[t] = NULL
            \/ Position(chain, q) < Position(chain, cursor'[t])
      BY <1>1, <1>2, <1>8 DEF Passed, chain, Slot
    <3> QED BY <1>4, <1>5, <1>7, <2>1, <3>1
  <2> QED BY <1>4, <1>5, <2>1, <2>2, <2>3
<1>9. ASSUME NEW q \in Key, hash(q) # s
      PROVE  Passed(t, q)' <=> Passed(t, q)
  BY <1>1, <1>9 DEF Passed
<1>10. ASSUME NEW q \in Key, read_pair(table, q) # NULL
       PROVE  Passed(t, q)' <=> q = k \/ Passed(t, q)
  BY <1>4, <1>8, <1>9, <1>10, ReadNode DEF chain
<1>11. ~Passed(t, k)
  <2>1. k # NULL
    BY <1>1, TableAssumption
  <2> QED BY <1>1, <1>2, <1>4, <1>5, <2>1 DEF Passed, chain, p, Slot
<1>12. /\ DOMAIN out'[f] = 1 .. L + 1
       /\ L \in Nat /\ DOMAIN out[f] = 1 .. L
       /\ offset[f] \in Nat
  <2>1. DOMAIN out'[f] = 1 .. L + 1
    BY <1>1, <1>2, PrintsAdds DEF IInv
  <2> QED BY <1>2, <2>1, OutType DEF IInv
<1>13. \A n \in DOMAIN out[f] : out'[f][n] = out[f][n]
  BY <1>1, <1>2, PrintsAdds DEF IInv
<1>14. out'[f][L + 1] = e
  BY <1>1, <1>2, PrintsAdds DEF IInv
<1>15. e.at = offset[f] /\ e.key = k /\ e.value = read_pair(table, k)
  BY DEF EntryOf
<1> HIDE DEF e, L
<1>16. Shown(t)' = Shown(t) \cup {L + 1}
  BY <1>1, <1>12, <1>13, <1>14, <1>15 DEF Shown
<1>17. L + 1 \notin Shown(t) /\ Shown(t) \subseteq DOMAIN out[f]
  BY <1>12 DEF Shown
<1>18. ASSUME NEW n \in Shown(t)
       PROVE  /\ out[f][n].key \in Key /\ out[f][n].value # NULL
              /\ out[f][n].value = read_pair(table, out[f][n].key)
              /\ Passed(t, out[f][n].key)
              /\ \A m \in Shown(t) : out[f][m].key = out[f][n].key => m = n
  BY <1>1 DEF ShowsOf, InShow
<1>19. ASSUME NEW n \in Shown(t)'
       PROVE  /\ out'[f][n].key \in Key /\ out'[f][n].value # NULL
              /\ out'[f][n].value = read_pair(table, out'[f][n].key)
              /\ \A q : q = out'[f][n].key => Passed(t, q)'
              /\ \A m \in Shown(t)' : out'[f][m].key = out'[f][n].key => m = n
  <2>1. CASE n \in Shown(t)
    <3>1. out'[f][n] = out[f][n] /\ out[f][n].key # k
      BY <1>11, <1>13, <1>17, <1>18, <2>1
    <3>2. ASSUME NEW q, q = out'[f][n].key PROVE Passed(t, q)'
      BY <1>10, <1>18, <2>1, <3>1, <3>2
    <3>3. ASSUME NEW m \in Shown(t)', out'[f][m].key = out'[f][n].key PROVE m = n
      <4>1. CASE m \in Shown(t)
        BY <1>13, <1>17, <1>18, <2>1, <3>1, <3>3, <4>1
      <4>2. CASE m = L + 1
        BY <1>14, <1>15, <3>1, <3>3, <4>2
      <4> QED BY <1>16, <4>1, <4>2
    <3> QED BY <1>18, <2>1, <3>1, <3>2, <3>3
  <2>2. CASE n = L + 1
    <3>1. /\ out'[f][n].key = k /\ out'[f][n].value = read_pair(table, k)
          /\ k \in Key
      BY <1>1, <1>14, <1>15, <2>2
    <3>2. read_pair(table, k) # NULL
      BY <1>4, TableAssumption
    <3>3. Passed(t, k)'
      BY <1>10, <3>1, <3>2
    <3>4. ASSUME NEW m \in Shown(t)', out'[f][m].key = out'[f][n].key PROVE m = n
      <4>1. CASE m \in Shown(t)
        BY <1>11, <1>13, <1>17, <1>18, <3>1, <3>4, <4>1
      <4> QED BY <1>16, <2>2, <4>1
    <3> QED BY <3>1, <3>2, <3>3, <3>4
  <2> QED BY <1>16, <2>1, <2>2
<1>20. ASSUME NEW q \in Key, read_pair(table, q) # NULL, Passed(t, q)'
       PROVE  \E n \in Shown(t)' : out'[f][n].key = q
  <2>1. CASE q = k
    BY <1>14, <1>15, <1>16, <2>1
  <2>2. CASE q # k
    <3>1. Passed(t, q)
      BY <1>10, <1>20, <2>2
    <3>2. PICK n \in Shown(t) : out[f][n].key = q
      BY <1>1, <1>20, <3>1 DEF ShowsOf, InShow
    <3> QED BY <1>13, <1>16, <1>17, <3>2
  <2> QED BY <2>1, <2>2
<1>21. cursor'[t] = NULL \/ InChain(table'[i'[t]], cursor'[t])
  BY <1>1, <1>7 DEF chain
<1> QED
  <2>1. file'[t] = f /\ table' = table
    BY <1>1
  <2>2. pc'[t] = "shownode"
    BY <1>1
  <2>3. \A n \in Shown(t)' : Passed(t, out[file[t]][n].key)'
    BY <1>19, <2>1 DEF Passed
  <2>4. \A q \in Key : read_pair(table', q) = read_pair(table, q)
    BY <2>1
  <2> HIDE DEF f
  <2> QED BY <1>19, <1>20, <1>21, <2>1, <2>2, <2>3, <2>4 DEF ShowsOf

LEMMA ShowsSlot ==
  ASSUME IInv, ChainsWellFormed, NEW t \in Thread, ShowsOf(t), UseRwlock, ShowSlot(t)
  PROVE  ShowsOf(t)'
<1> DEFINE s == i[t]
           chain == table[s]
<1>1. /\ pc[t] = "showslot" /\ pc'[t] = "shownode"
      /\ cursor'[t] = HeadOf(chain)
      /\ UNCHANGED <<table, out, file, i, offset>>
  BY DEF ShowSlot, jobs, local, GoTo, IInv, TypeOK
<1>2. s \in Slot
  <2>1. i[t] < TABLE_SIZE /\ i[t] \in Nat
    BY DEF ShowSlot, IInv, TypeOK
  <2> QED BY <2>1, TableAssumption DEF Slot
<1>3. /\ chain \in Chain /\ WellFormed(chain, s) /\ DOMAIN chain = 1 .. Len(chain)
      /\ Len(chain) \in Nat
  BY <1>2, TableChains DEF Chain
<1> HIDE DEF chain
<1>4. /\ cursor'[t] = NULL => \A q : ~InChain(chain, q)
      /\ cursor'[t] # NULL => /\ InChain(chain, cursor'[t])
                              /\ Position(chain, cursor'[t]) = 1
  <2>1. CASE 1 \in DOMAIN chain
    BY <1>1, <1>3, <2>1, NodeFound, TableAssumption DEF HeadOf, NodeAt
  <2>2. CASE 1 \notin DOMAIN chain
    BY <1>1, <1>3, <2>2 DEF HeadOf, NodeAt, InChain
  <2> QED BY <2>1, <2>2
<1>5. ASSUME NEW q, Passed(t, q) PROVE Passed(t, q)'
  BY <1>1, <1>5 DEF Passed
<1>6. ASSUME NEW q \in Key, read_pair(table, q) # NULL, Passed(t, q)' PROVE Passed(t, q)
  <2>1. CASE hash(q) < s
    BY <1>1, <2>1 DEF Passed
  <2>2. CASE ~(hash(q) < s)
    <3>1. /\ hash(q) = s
          /\ \/ cursor'[t] = NULL
             \/ Position(chain, q) < Position(chain, cursor'[t])
      BY <1>1, <1>6, <2>2 DEF Passed, chain
    <3>2. InChain(chain, q)
      BY <1>6, <3>1, ReadNode DEF chain
    <3>3. Position(chain, q) \in DOMAIN chain
      BY <1>3, <3>2, PositionFound
    <3> QED BY <1>3, <1>4, <3>1, <3>2, <3>3
  <2> QED BY <2>1, <2>2
<1>7. Shown(t)' = Shown(t)
  BY <1>1 DEF Shown
<1>8. \A n \in Shown(t)' : Passed(t, out[file[t]][n].key)'
  BY <1>1, <1>5, <1>7 DEF Passed, ShowsOf, InShow
<1>9. cursor'[t] = NULL \/ InChain(table'[i'[t]], cursor'[t])
  BY <1>1, <1>4 DEF chain
<1>10. \A q \in Key : read_pair(table', q) = read_pair(table, q)
  BY <1>1
<1>11. pc[t] \in InShow
  BY <1>1 DEF InShow
<1> QED BY <1>1, <1>6, <1>7, <1>8, <1>9, <1>10, <1>11 DEF ShowsOf

LEMMA ShowsNextSlot ==
  ASSUME IInv, NEW t \in Thread, ShowsOf(t), UseRwlock, ShowNextSlot(t)
  PROVE  ShowsOf(t)'
<1>1. /\ pc[t] = "shownode" /\ pc'[t] = "showslot" /\ cursor[t] = NULL
      /\ i'[t] = i[t] + 1 /\ i[t] \in Nat
      /\ UNCHANGED <<table, out, file, cursor, offset>>
  BY DEF ShowNextSlot, jobs, local, GoTo, IInv, TypeOK
<1>2. ASSUME NEW q \in Key PROVE Passed(t, q)' <=> Passed(t, q)
  <2>1. hash(q) \in Nat
    BY HashType DEF Slot
  <2> QED BY <1>1, <2>1 DEF Passed
<1>3. Shown(t)' = Shown(t)
  BY <1>1 DEF Shown
<1>4. pc[t] \in InShow
  BY <1>1 DEF InShow
<1>5. \A n \in Shown(t)' : Passed(t, out[file[t]][n].key)'
  <2> TAKE n \in Shown(t)'
  <2>1. /\ out[file[t]][n].key \in Key /\ Passed(t, out[file[t]][n].key)
    BY <1>3, <1>4 DEF ShowsOf
  <2>2. ASSUME NEW q, q = out[file[t]][n].key PROVE Passed(t, q)'
    BY <1>2, <2>1, <2>2
  <2> QED BY <1>1, <2>2 DEF Passed
<1>6. \A q \in Key : read_pair(table', q) = read_pair(table, q)
  BY <1>1
<1> QED BY <1>1, <1>2, <1>3, <1>4, <1>5, <1>6 DEF ShowsOf

LEMMA ShowsLock ==
  ASSUME IInv, NEW t \in Thread, ShowsOf(t), UseRwlock, ShowLock(t)
  PROVE  ShowsOf(t)'
<1>1. /\ pc[t] = "showlock" /\ pc'[t] = "showslot" /\ i'[t] = 0
      /\ UNCHANGED <<table, out, file, cursor, offset>>
  BY DEF ShowLock, jobs, local, GoTo, IInv, TypeOK, Control, ControlOf
<1>2. Shown(t)' = {}
  BY <1>1, ShownInLock DEF Shown
<1>3. \A k \in Key : ~Passed(t, k)'
  BY <1>1, HashType DEF Passed, Slot
<1> QED BY <1>1, <1>2, <1>3 DEF ShowsOf

\* The SHOW that locks reads no freed node and races with no other thread.
LEMMA ShowClean ==
  ASSUME IInv, NEW t \in Thread, ShowsOf(t), UseRwlock, pc[t] = "shownode"
  PROVE  cursor[t] # FREED /\ ~Races(t)
<1>1. cursor[t] # FREED
  <2>1. i[t] < TABLE_SIZE /\ i[t] \in Nat
    BY DEF IInv, TypeOK, Control, ControlOf
  <2>2. table[i[t]] \in Chain
    BY <2>1, TableAssumption DEF IInv, TypeOK, Table, Slot
  <2>3. \A k : InChain(table[i[t]], k) => k \in Key
    <3> TAKE k
    <3> SUFFICES ASSUME NEW n \in DOMAIN table[i[t]], table[i[t]][n].key = k
                 PROVE  k \in Key
      BY DEF InChain
    <3>1. table[i[t]][n] \in Node
      BY <2>2 DEF Chain
    <3> QED BY <3>1 DEF Node
  <2> QED BY <2>3, StoreAssumption DEF ShowsOf, InShow
<1>2. TableWriter(t)
  BY DEF TableWriter
<1>3. ~Races(t)
  BY <1>2, WriterOfTable DEF Races, TableReader, Locking
<1> QED BY <1>1, <1>3

LEMMA ShowsStep ==
  /\ IInv /\ FilesHandedOutOnce /\ ChainsWellFormed
  /\ Printed /\ ShowsRight /\ [Next]_vars
  => ShowsRight'
<1> SUFFICES ASSUME IInv, FilesHandedOutOnce, ChainsWellFormed,
                    Printed, ShowsRight, [Next]_vars, NEW t \in Thread
             PROVE  ShowsOf(t)'
  BY DEF ShowsRight
<1>1. ShowsOf(t)
  BY DEF ShowsRight
<1>2. ASSUME NEW u \in Thread, ThreadStep(u) PROVE ShowsOf(t)'
  <2>1. CASE u # t
    <3>1. Untouched(t)
      BY <1>2, <2>1, OthersUntouched
    <3> QED BY <1>1, <1>2, <2>1, <3>1, ShowsFrame
  <2>2. CASE u = t /\ pc'[t] \notin InShow
    BY <2>2 DEF ShowsOf
  <2>3. CASE ~UseRwlock
    BY <2>3 DEF ShowsOf
  <2>4. CASE u = t /\ pc'[t] \in InShow /\ UseRwlock
    <3> USE DEF GoTo, IInv, TypeOK
    <3>1. CASE StartShow(t)
      BY <3>1, ShowsStart
    <3>2. ~TakesFiles(t)
      BY <2>4 DEF TakesFiles, LockFiles, NoMoreFiles, TakeFile, InShow
    <3>3. Starts(t) => StartShow(t)
      BY <2>4 DEF Starts, StartKeyCommand, StartBackup, SkipCommand, EndOfFile,
                  AtCommand, InShow
    <3>4. ~KeyCommand(t)
      BY <2>4 DEF KeyCommand, RdLockTable, LockSlot, SkipSlot, WritePair, ReadPair,
         DeletePair, UnlockSlot, UnlockTable, NextPair, Applies, InShow
    <3>5. ~BacksUp(t)
      BY <2>4 DEF BacksUp, LockBackups, WaitChild, WaitNone, RdLockSlot, Fork,
         ForkFails, UnlockAllSlots, UnlockBackups, InShow
    <3>6. ~ShowEnd(t)
      BY <2>4 DEF ShowEnd, InShow
    <3>7. ~ShowTorn(t) /\ ~ShowFreed(t) /\ ~ShowCrash(t)
      BY <1>1, <2>4, ShowClean DEF ShowTorn, ShowFreed, ShowCrash
    <3> QED BY <1>1, <1>2, <2>4, <3>1, <3>2, <3>3, <3>4, <3>5, <3>6, <3>7,
               ShowsLock, ShowsSlot, ShowsNode, ShowsNextSlot
            DEF ThreadStep, Shows
  <2> QED BY <2>1, <2>2, <2>3, <2>4
<1>3. CASE UNCHANGED <<table, locks, out, jobs, pc, local>>
  <2>1. Shown(t)' = Shown(t)
    BY <1>3 DEF Shown, jobs, local
  <2> QED BY <1>1, <1>3, <2>1 DEF ShowsOf, Passed, jobs, local
<1> QED BY <1>2, <1>3, ProcessesApart DEF Next

-----------------------------------------------------------------------------
\* All that the refinement rests on.
RInv == /\ IInv /\ FilesHandedOutOnce /\ ChainsWellFormed
        /\ Issued /\ Counted /\ Printed /\ ShowsRight

THEOREM RefinementInvariant == Spec => []RInv
<1>1. Init => Issued /\ Counted /\ Printed /\ ShowsRight
  <2> SUFFICES ASSUME Init PROVE Issued /\ Counted /\ Printed /\ ShowsRight
    OBVIOUS
  <2>1. Issued
    BY DEF Init, Issued, IssuedOf, Idle, InShow, BeforeFork
  <2>2. Counted
    BY DEF Init, Counted, CountedOf
  <2>3. Printed
    BY DEF Init, Printed
  <2>4. ShowsRight
    BY DEF Init, ShowsRight, ShowsOf, InShow
  <2> QED BY <2>1, <2>2, <2>3, <2>4
<1>2. /\ IInv /\ FilesHandedOutOnce /\ ChainsWellFormed
      /\ Issued /\ Counted /\ Printed /\ ShowsRight /\ [Next]_vars
      => Issued' /\ Counted' /\ Printed' /\ ShowsRight'
  BY IssuedStep, CountedStep, PrintedStep, ShowsStep
<1> QED BY <1>1, <1>2, Invariance, JobFilesHandedOut, ChainsStayWellFormed, PTL
        DEF Spec, RInv

-----------------------------------------------------------------------------
(* Numbers in order. *)

\* How many members of S are not above j.
UpTo(S, j) == Cardinality({l \in S : l <= j})

LEMMA UpToType ==
  ASSUME NEW S \in SUBSET Nat, IsFiniteSet(S), NEW j \in S
  PROVE  UpTo(S, j) \in 1 .. Cardinality(S) /\ Cardinality(S) \in Nat
<1> DEFINE T == {l \in S : l <= j}
<1>1. T \in SUBSET S /\ j \in T
  OBVIOUS
<1>2. /\ IsFiniteSet(T) /\ Cardinality(T) <= Cardinality(S)
      /\ Cardinality(T) \in Nat /\ Cardinality(S) \in Nat
  BY <1>1, FS_Subset, FS_CardinalityType
<1>3. Cardinality(T) # 0
  BY <1>1, <1>2, FS_EmptySet
<1> QED BY <1>2, <1>3 DEF UpTo

LEMMA UpToIncreases ==
  ASSUME NEW S \in SUBSET Nat, IsFiniteSet(S), NEW j \in S, NEW l \in S, j < l
  PROVE  UpTo(S, j) < UpTo(S, l)
<1> DEFINE T(m) == {n \in S : n <= m}
<1>0. \A n \in S : n <= j => n <= l
  OBVIOUS
<1>1. T(j) \in SUBSET T(l) /\ l \in T(l) /\ l \notin T(j) /\ T(l) \in SUBSET S
  <2>1. l <= l /\ ~(l <= j)
    OBVIOUS
  <2> QED BY <1>0, <2>1
<1>2. IsFiniteSet(T(l)) /\ IsFiniteSet(T(j))
  BY <1>1, FS_Subset
<1>3. /\ Cardinality(T(j)) <= Cardinality(T(l))
      /\ Cardinality(T(j)) # Cardinality(T(l))
  BY <1>1, <1>2, FS_Subset
<1>4. Cardinality(T(j)) \in Nat /\ Cardinality(T(l)) \in Nat
  BY <1>2, FS_CardinalityType
<1> QED BY <1>3, <1>4 DEF UpTo

\* Nth(S, n) is the member of S with n members up to it.
LEMMA NthFound ==
  ASSUME NEW S \in SUBSET Nat, IsFiniteSet(S), NEW n \in 1 .. Cardinality(S)
  PROVE  Nth(S, n) \in S /\ UpTo(S, Nth(S, n)) = n
<1> DEFINE D == 1 .. Cardinality(S)
           R == [j \in S |-> UpTo(S, j)]
<1>1. Cardinality(S) \in Nat
  BY FS_CardinalityType
<1>2. R \in [S -> D]
  BY UpToType
<1>3. \A j, l \in S : R[j] = R[l] => j = l
  <2> SUFFICES ASSUME NEW j \in S, NEW l \in S, j # l PROVE UpTo(S, j) # UpTo(S, l)
    OBVIOUS
  <2>1. UpTo(S, j) \in Nat /\ UpTo(S, l) \in Nat
    BY UpToType
  <2>2. j < l \/ l < j
    OBVIOUS
  <2> QED BY <2>1, <2>2, UpToIncreases
<1>4. IsFiniteSet(D) /\ Cardinality(D) = Cardinality(S)
  BY <1>1, FS_Interval
<1> HIDE DEF R, D
<1>5. R \in Injection(S, D)
  BY <1>2, <1>3, Fun_IsInj
<1>6. R \in Surjection(S, D)
  BY <1>4, <1>5, FS_Injection
<1>7. \E j \in S : R[j] = n
  <2>1. n \in D
    BY DEF D
  <2>2. \A m \in D : \E j \in S : R[j] = m
    BY <1>6, Fun_SurjectionProperties
  <2> QED BY <2>1, <2>2
<1>8. \E j \in S : UpTo(S, j) = n
  BY <1>7 DEF R
<1> QED BY <1>8 DEF Nth, UpTo

LEMMA NthIs ==
  ASSUME NEW S \in SUBSET Nat, IsFiniteSet(S), NEW j \in S
  PROVE  Nth(S, UpTo(S, j)) = j
<1> DEFINE n == UpTo(S, j)
<1>1. n \in 1 .. Cardinality(S)
  BY UpToType
<1>2. Nth(S, n) \in S /\ UpTo(S, Nth(S, n)) = n
  BY <1>1, NthFound
<1>3. n \in Nat
  BY <1>1
<1> HIDE DEF n
<1>4. ~(Nth(S, n) < j) /\ ~(j < Nth(S, n))
  <2>1. Nth(S, n) < j => UpTo(S, Nth(S, n)) < UpTo(S, j)
    BY <1>2, UpToIncreases
  <2>2. j < Nth(S, n) => UpTo(S, j) < UpTo(S, Nth(S, n))
    BY <1>2, UpToIncreases
  <2>3. UpTo(S, j) = n
    BY DEF n
  <2> QED BY <1>2, <1>3, <2>1, <2>2, <2>3
<1>5. Nth(S, n) \in Nat /\ j \in Nat
  BY <1>2
<1> QED BY <1>4, <1>5 DEF n

\* Without its least member, the rest of S moves up by one.
LEMMA NthOfRest ==
  ASSUME NEW S \in SUBSET Nat, IsFiniteSet(S), NEW j \in S, \A l \in S : j <= l
  PROVE  /\ Cardinality(S) = Cardinality(S \ {j}) + 1
         /\ Cardinality(S \ {j}) \in Nat
         /\ Nth(S, 1) = j
         /\ \A n \in 1 .. Cardinality(S \ {j}) : Nth(S, n + 1) = Nth(S \ {j}, n)
<1> DEFINE R == S \ {j}
<1>1. /\ IsFiniteSet(R) /\ Cardinality(R) = Cardinality(S) - 1
      /\ Cardinality(R) \in Nat /\ Cardinality(S) \in Nat
  BY FS_RemoveElement, FS_CardinalityType
<1>2. UpTo(S, j) = 1
  <2>0. \A l \in S : l <= j => l = j
    OBVIOUS
  <2>1. {l \in S : l <= j} = {j}
    BY <2>0
  <2> QED BY <2>1, FS_Singleton DEF UpTo
<1>3. ASSUME NEW l \in R PROVE UpTo(S, l) = UpTo(R, l) + 1
  <2> DEFINE T == {m \in R : m <= l}
  <2>1. {m \in S : m <= l} = T \cup {j} /\ j \notin T /\ T \in SUBSET R
    BY <1>3
  <2>2. IsFiniteSet(T)
    BY <1>1, <2>1, FS_Subset
  <2>3. Cardinality(T \cup {j}) = Cardinality(T) + 1
    BY <2>1, <2>2, FS_AddElement
  <2> QED BY <2>1, <2>3 DEF UpTo
<1>4. ASSUME NEW n \in 1 .. Cardinality(R) PROVE Nth(S, n + 1) = Nth(R, n)
  <2>1. Nth(R, n) \in R /\ UpTo(R, Nth(R, n)) = n
    BY <1>1, NthFound
  <2>2. UpTo(S, Nth(R, n)) = n + 1
    BY <1>3, <2>1
  <2> QED BY <2>1, <2>2, NthIs
<1>5. Nth(S, 1) = j
  BY <1>2, NthIs
<1> QED BY <1>1, <1>4, <1>5

-----------------------------------------------------------------------------
(* What the abstract variables are. *)

\* The thread that processes f gives the abstract values of f.
DoneOf(t) == IF NotYet(t) THEN offset[file[t]] - 1 ELSE offset[file[t]]

OwnFacts ==
  /\ \A t \in Thread : file[t] \in File =>
       /\ AbstractOut[file[t]] = OutOf(t)
       /\ AbstractDone[file[t]] = DoneOf(t)
  /\ \A f \in File : (\A t \in Thread : file[t] # f) =>
       AbstractOut[f] = out[f] /\ AbstractDone[f] = offset[f]

LEMMA Owners == RInv => OwnFacts
<1> SUFFICES ASSUME RInv PROVE OwnFacts
  OBVIOUS
<1>1. ASSUME NEW t \in Thread, file[t] \in File
      PROVE  /\ AbstractOut[file[t]] = OutOf(t)
             /\ AbstractDone[file[t]] = DoneOf(t)
  <2>1. file[t] # NoFile
    BY <1>1, StoreAssumption DEF File
  <2>2. \A u \in Thread : file[u] = file[t] => u = t
    BY <2>1 DEF RInv, FilesHandedOutOnce
  <2>3. (CHOOSE u \in Thread : file[u] = file[t]) = t
    BY <2>2
  <2>4. AbstractOut[file[t]] = OutOf(t)
    BY <1>1, <2>3 DEF AbstractOut
  <2>5. (\E u \in Thread : file[u] = file[t] /\ NotYet(u)) <=> NotYet(t)
    BY <2>2
  <2>6. AbstractDone[file[t]] = DoneOf(t)
    BY <1>1, <2>5 DEF AbstractDone, DoneOf
  <2> QED BY <2>4, <2>6
<1>2. ASSUME NEW f \in File, \A t \in Thread : file[t] # f
      PROVE  AbstractOut[f] = out[f] /\ AbstractDone[f] = offset[f]
  BY <1>2 DEF AbstractOut, AbstractDone
<1> QED BY <1>1, <1>2 DEF OwnFacts

\* At most one thread is about to change a key: it has locked its chain.
StoreOf(t, k) ==
  IF ChangedLater(t, k) THEN LaterValue(t, k) ELSE read_pair(table, k)

ChangesApart ==
  \A k \in Key : \A t, u \in Thread :
    ChangedLater(t, k) /\ ChangedLater(u, k) => t = u

StoreFacts ==
  \A k \in Key :
    /\ \A t \in Thread : ChangedLater(t, k) => AbstractStore[k] = LaterValue(t, k)
    /\ (\A t \in Thread : ~ChangedLater(t, k)) =>
         AbstractStore[k] = read_pair(table, k)

LEMMA PendingLocked ==
  ASSUME IInv, NEW t \in Thread, NEW j \in Pending(t)
  PROVE  /\ pc[t] = "apply" /\ j \in DOMAIN Pairs(t) /\ j \in Nat /\ i[t] <= j
         /\ i[t] \in Nat \ {0}
         /\ Pairs(t)[j] \in Pair /\ Pairs(t)[j].key \in Key
         /\ hash(Pairs(t)[j].key) \in Slot
         /\ IF Mutates(t) THEN hash(Pairs(t)[j].key) \in WriteHeld(t)
                          ELSE hash(Pairs(t)[j].key) \in ReadHeld(t)
<1>1. pc[t] = "apply" /\ j \in i[t] .. Len(Pairs(t))
  BY DEF Pending
<1>2. /\ Pairs(t) \in Seq(Pair) /\ i[t] \in DOMAIN Pairs(t) /\ HashedOf(t)
      /\ i[t] \in Nat
  BY <1>1 DEF IInv, TypeOK, Control, ControlOf, Cmd, Pairs
<1>3. /\ i[t] \in Nat \ {0} /\ j \in DOMAIN Pairs(t) /\ j \in Nat /\ i[t] <= j
  BY <1>1, <1>2
<1>4. Pairs(t)[j] \in Pair
  BY <1>2, <1>3
<1>5. Pairs(t)[j].key \in Key
  BY <1>4 DEF Pair
<1>6. hash(Pairs(t)[j].key) \in hashed[t]
  BY <1>1, <1>2, <1>3 DEF HashedOf
<1> QED BY <1>1, <1>3, <1>4, <1>5, <1>6, HashType DEF WriteHeld, ReadHeld, Locking

\* The chain that a thread locked for writing no other thread locked.
LEMMA WriterAlone ==
  ASSUME IInv, NEW t \in Thread, NEW u \in Thread \ {t}, NEW s \in Slot,
         s \in WriteHeld(t)
  PROVE  s \notin WriteHeld(u) /\ s \notin ReadHeld(u)
<1>1. rwlock_array[s].writer = t
  BY DEF IInv, LockHolders
<1>2. rwlock_array[s].readers = {}
  BY <1>1, NoThreadAssumption DEF IInv, LockHolders, Exclusive
<1>3. u # rwlock_array[s].writer /\ u \notin rwlock_array[s].readers
  BY <1>1, <1>2
<1> QED BY <1>3 DEF IInv, LockHolders

LEMMA ChangesLocked ==
  ASSUME IInv, NEW t \in Thread, NEW k \in Key, ChangedLater(t, k)
  PROVE  hash(k) \in WriteHeld(t) /\ hash(k) \in Slot
BY PendingLocked DEF ChangedLater

LEMMA ChangersApart == IInv => ChangesApart
<1> SUFFICES ASSUME IInv, NEW k \in Key, NEW t \in Thread, NEW u \in Thread \ {t},
                    ChangedLater(t, k), ChangedLater(u, k)
             PROVE  FALSE
  BY DEF ChangesApart
<1> QED BY ChangesLocked, WriterAlone

LEMMA StoreIs == RInv => StoreFacts
<1> SUFFICES ASSUME RInv, NEW k \in Key
             PROVE  /\ \A t \in Thread :
                         ChangedLater(t, k) => AbstractStore[k] = LaterValue(t, k)
                    /\ (\A t \in Thread : ~ChangedLater(t, k)) =>
                         AbstractStore[k] = read_pair(table, k)
  BY DEF StoreFacts
<1>1. ASSUME NEW t \in Thread, ChangedLater(t, k)
      PROVE  AbstractStore[k] = LaterValue(t, k)
  <2>1. \A u \in Thread : ChangedLater(u, k) => u = t
    BY <1>1, ChangersApart DEF ChangesApart, RInv
  <2>2. (CHOOSE u \in Thread : ChangedLater(u, k)) = t
    BY <1>1, <2>1
  <2> QED BY <1>1, <2>2 DEF AbstractStore
<1>2. ASSUME \A t \in Thread : ~ChangedLater(t, k)
      PROVE  AbstractStore[k] = read_pair(table, k)
  BY <1>2 DEF AbstractStore
<1> QED BY <1>1, <1>2

\* What a SHOW has printed is what comes after the settled part.
SettledFacts ==
  \A f \in File :
    /\ Settled(f) \in 0 .. Len(out[f])
    /\ \A m \in DOMAIN out[f] : m <= Settled(f) <=> out[f][m].at < offset[f]

LEMMA SettledIs == RInv => SettledFacts
<1> SUFFICES ASSUME RInv, NEW f \in File
             PROVE  \E n \in 0 .. Len(out[f]) :
                      \A m \in DOMAIN out[f] : m <= n <=> out[f][m].at < offset[f]
  BY DEF SettledFacts, Settled
<1> DEFINE T == {m \in DOMAIN out[f] : out[f][m].at < offset[f]}
<1>1. /\ Len(out[f]) \in Nat /\ DOMAIN out[f] = 1 .. Len(out[f])
      /\ offset[f] \in Nat /\ \A m \in DOMAIN out[f] : out[f][m].at \in Nat
  BY OutType DEF RInv, IInv
<1>2. CASE T = {}
  <2>1. 0 \in 0 .. Len(out[f]) /\ \A m \in DOMAIN out[f] : ~(m <= 0)
    BY <1>1
  <2> QED BY <1>2, <2>1
<1>3. CASE T # {}
  <2>1. T \in SUBSET (1 .. Len(out[f]))
    BY <1>1
  <2>2. PICK n \in T : \A m \in T : m <= n
    BY <1>1, <1>3, <2>1, GreatestNumber
  <2>3. n \in 0 .. Len(out[f])
    BY <1>1, <2>1
  <2>4. ASSUME NEW m \in DOMAIN out[f], m <= n PROVE out[f][m].at < offset[f]
    <3>1. out[f][m].at <= out[f][n].at
      BY <2>4, <2>2 DEF RInv, Printed
    <3> QED BY <1>1, <2>2, <3>1
  <2> QED BY <2>2, <2>3, <2>4
<1> QED BY <1>2, <1>3

\* What a thread has printed when it has nothing left to print.
PlainFacts ==
  \A t \in Thread :
    file[t] \in File /\ pc[t] \notin InShow \cup {"apply"} => OutOf(t) = out[file[t]]

LEMMA PlainOut == RInv => PlainFacts
<1> SUFFICES ASSUME RInv, NEW t \in Thread, file[t] \in File,
                    pc[t] \notin InShow \cup {"apply"}
             PROVE  OutOf(t) = out[file[t]]
  BY DEF PlainFacts
<1>1. out[file[t]] \in Seq(Entry)
  BY OutType DEF RInv, IInv
<1>2. PrintsLater(t) = << >>
  BY DEF PrintsLater
<1>3. out[file[t]] \o << >> = out[file[t]]
  BY <1>1
<1> QED BY <1>2, <1>3 DEF OutOf

\* All of these, before and after a step.
Facts == OwnFacts /\ ChangesApart /\ StoreFacts /\ SettledFacts /\ PlainFacts

LEMMA FactsHold == RInv => Facts
BY Owners, ChangersApart, StoreIs, SettledIs, PlainOut DEF Facts, RInv

LEMMA FactsNext == RInv' => Facts'
BY FactsHold, PTL

-----------------------------------------------------------------------------
(* What a step of one thread leaves to the others. *)

\* A chain that another thread has locked does not change.
LEMMA LockedChainKept ==
  ASSUME IInv, NEW t \in Thread, ThreadStep(t), NEW u \in Thread \ {t},
         NEW s \in Slot, s \in WriteHeld(u) \cup ReadHeld(u)
  PROVE  table'[s] = table[s]
<1>1. CASE ~WritePair(t) /\ ~DeletePair(t)
  BY <1>1, TableKept
<1>2. CASE WritePair(t) \/ DeletePair(t)
  <2>1. pc[t] = "apply" /\ Mutates(t)
    BY <1>2 DEF WritePair, DeletePair, Applies, Mutates
  <2>2. i[t] \in Pending(t)
    <3>1. i[t] \in DOMAIN Pairs(t) /\ Pairs(t) \in Seq(Pair)
      BY <2>1 DEF IInv, TypeOK, Control, ControlOf, Cmd, Pairs
    <3> QED BY <2>1, <3>1 DEF Pending
  <2>3. hash(PairKey(t)) \in WriteHeld(t) /\ hash(PairKey(t)) \in Slot
    BY <2>1, <2>2, PendingLocked DEF PairKey
  <2>4. hash(PairKey(t)) # s
    BY <2>3, WriterAlone
  <2> QED BY <1>2, <2>4 DEF WritePair, DeletePair, write_pair, delete_pair,
                            IInv, TypeOK, Table
<1> QED BY <1>1, <1>2

LEMMA ReadAlike ==
  ASSUME NEW k, table'[hash(k)] = table[hash(k)]
  PROVE  read_pair(table', k) = read_pair(table, k)
BY DEF read_pair

LEMMA OthersPending ==
  ASSUME IInv, FilesHandedOutOnce, NEW t \in Thread, ThreadStep(t),
         NEW u \in Thread \ {t}
  PROVE  /\ Pending(u)' = Pending(u) /\ Pairs(u)' = Pairs(u)
         /\ Opcode(u)' = Opcode(u) /\ (Mutates(u)' <=> Mutates(u))
         /\ \A j \in Pending(u) : read_pair(table', Pairs(u)[j].key)
                                    = read_pair(table, Pairs(u)[j].key)
<1>1. Untouched(u)
  BY OthersUntouched
<1>2. ASSUME NEW j \in Pending(u)
      PROVE  read_pair(table', Pairs(u)[j].key) = read_pair(table, Pairs(u)[j].key)
  <2>1. /\ hash(Pairs(u)[j].key) \in Slot
        /\ hash(Pairs(u)[j].key) \in WriteHeld(u) \cup ReadHeld(u)
    BY PendingLocked
  <2> QED BY <2>1, LockedChainKept, ReadAlike
<1> QED BY <1>1, <1>2 DEF Untouched, Pending, Pairs, Opcode, Mutates

LEMMA OthersStore ==
  ASSUME IInv, FilesHandedOutOnce, NEW t \in Thread, ThreadStep(t),
         NEW u \in Thread \ {t}, NEW k
  PROVE  /\ ChangedLater(u, k)' <=> ChangedLater(u, k)
         /\ LaterValue(u, k)' = LaterValue(u, k)
<1>1. /\ Pending(u)' = Pending(u) /\ Pairs(u)' = Pairs(u)
      /\ Opcode(u)' = Opcode(u) /\ (Mutates(u)' <=> Mutates(u))
  BY OthersPending
<1> QED BY <1>1 DEF ChangedLater, LaterValue

LEMMA OthersPrint ==
  ASSUME IInv, FilesHandedOutOnce, NEW t \in Thread, ThreadStep(t),
         NEW u \in Thread \ {t}, file[u] \in File
  PROVE  OutOf(u)' = OutOf(u) /\ DoneOf(u)' = DoneOf(u)
<1>0. Untouched(u) /\ file[u] # NoFile
  BY OthersUntouched, StoreAssumption DEF File
<1>1. /\ Pending(u)' = Pending(u) /\ Pairs(u)' = Pairs(u)
      /\ Opcode(u)' = Opcode(u)
      /\ \A j \in Pending(u) : read_pair(table', Pairs(u)[j].key)
                                 = read_pair(table, Pairs(u)[j].key)
  BY OthersPending
<1>2. /\ pc'[u] = pc[u] /\ i'[u] = i[u] /\ file'[u] = file[u]
      /\ out'[file[u]] = out[file[u]] /\ offset'[file[u]] = offset[file[u]]
  BY <1>0 DEF Untouched
<1>3. DoneOf(u)' = DoneOf(u)
  BY <1>2 DEF DoneOf, NotYet
<1>4. \A key, value : EntryOf(u, key, value)' = EntryOf(u, key, value)
  BY <1>2 DEF EntryOf
<1>5. CASE pc[u] = "apply"
  <2>1. i[u] \in Nat /\ Len(Pairs(u)) \in Nat
    BY DEF IInv, TypeOK, Cmd, Pairs
  <2>2. ReadsLater(u)' = ReadsLater(u)
    <3>1. \A j \in 1 .. Len(Pairs(u)) - i[u] + 1 : i[u] + j - 1 \in Pending(u)
      BY <1>5, <2>1 DEF Pending
    <3>2. \A j \in 1 .. Len(Pairs(u)) - i[u] + 1 :
            EntryOf(u, Pairs(u)[i[u] + j - 1].key,
                    read_pair(table, Pairs(u)[i[u] + j - 1].key))'
              = EntryOf(u, Pairs(u)[i[u] + j - 1].key,
                        read_pair(table, Pairs(u)[i[u] + j - 1].key))
      BY <1>1, <1>2, <3>1 DEF EntryOf
    <3> QED BY <1>1, <1>2, <3>2 DEF ReadsLater
  <2>3. Gone(u)' = Gone(u)
    BY <1>1, <1>2 DEF Gone
  <2>4. MissesLater(u)' = MissesLater(u)
    BY <1>1, <1>2, <2>3 DEF MissesLater, EntryOf
  <2>5. PrintsLater(u)' = PrintsLater(u)
    BY <1>1, <1>2, <2>2, <2>4 DEF PrintsLater
  <2> QED BY <1>2, <1>3, <1>5, <2>5 DEF OutOf, InShow
<1>6. CASE pc[u] \in InShow
  <2>1. Settled(file[u])' = Settled(file[u])
    BY <1>2 DEF Settled
  <2> QED BY <1>2, <1>3, <1>6, <2>1 DEF OutOf
<1>7. CASE pc[u] \notin InShow \cup {"apply"}
  BY <1>2, <1>3, <1>7 DEF OutOf, PrintsLater
<1> QED BY <1>5, <1>6, <1>7

-----------------------------------------------------------------------------
(* What a step of one thread does to the abstract variables. *)

\* The files the thread does not work on keep their output and place.
LEMMA FilesMove ==
  ASSUME RInv, RInv', NEW t \in Thread, ThreadStep(t),
         NEW f \in File, f # file[t], f # file'[t]
  PROVE  AbstractOut'[f] = AbstractOut[f] /\ AbstractDone'[f] = AbstractDone[f]
<1>0. IInv /\ FilesHandedOutOnce /\ OwnFacts /\ OwnFacts'
  BY FactsHold, FactsNext DEF RInv, Facts
<1>1. out'[f] = out[f] /\ offset'[f] = offset[f]
  BY <1>0, FilesFrame
<1>2. \A u \in Thread \ {t} : file'[u] = file[u]
  BY <1>0, FilesFrame
<1>3. CASE \E u \in Thread : file[u] = f
  <2>1. PICK u \in Thread : file[u] = f
    BY <1>3
  <2>2. u \in Thread \ {t} /\ file'[u] = f
    BY <2>1, <1>2
  <2>3. OutOf(u)' = OutOf(u) /\ DoneOf(u)' = DoneOf(u)
    BY <1>0, <2>1, <2>2, OthersPrint
  <2>4. AbstractOut[f] = OutOf(u) /\ AbstractDone[f] = DoneOf(u)
    BY <1>0, <2>1 DEF OwnFacts
  <2>5. AbstractOut'[f] = OutOf(u)' /\ AbstractDone'[f] = DoneOf(u)'
    BY <1>0, <2>2 DEF OwnFacts
  <2> QED BY <2>3, <2>4, <2>5
<1>4. CASE \A u \in Thread : file[u] # f
  <2>1. \A u \in Thread : file'[u] # f
    BY <1>2, <1>4
  <2>2. AbstractOut[f] = out[f] /\ AbstractDone[f] = offset[f]
    BY <1>0, <1>4 DEF OwnFacts
  <2>3. AbstractOut'[f] = out'[f] /\ AbstractDone'[f] = offset'[f]
    BY <1>0, <2>1 DEF OwnFacts
  <2> QED BY <1>1, <2>2, <2>3
<1> QED BY <1>3, <1>4

\* The thread gives its own file its output and place.
LEMMA OwnMoves ==
  ASSUME RInv, RInv', NEW t \in Thread, ThreadStep(t),
         file[t] \in File, file'[t] = file[t]
  PROVE  /\ AbstractOut = [AbstractOut EXCEPT ![file[t]] = OutOf(t)]
         /\ AbstractDone = [AbstractDone EXCEPT ![file[t]] = DoneOf(t)]
         /\ AbstractOut' = [AbstractOut EXCEPT ![file[t]] = OutOf(t)']
         /\ AbstractDone' = [AbstractDone EXCEPT ![file[t]] = DoneOf(t)']
         /\ AbstractOut[file[t]] = OutOf(t) /\ AbstractDone[file[t]] = DoneOf(t)
         /\ files' = files
<1>0. OwnFacts /\ OwnFacts'
  BY FactsHold, FactsNext DEF Facts
<1>1. AbstractOut[file[t]] = OutOf(t) /\ AbstractDone[file[t]] = DoneOf(t)
  BY <1>0 DEF OwnFacts
<1>2. AbstractOut'[file[t]] = OutOf(t)' /\ AbstractDone'[file[t]] = DoneOf(t)'
  BY <1>0 DEF OwnFacts
<1>3. \A f \in File : f # file[t] =>
        AbstractOut'[f] = AbstractOut[f] /\ AbstractDone'[f] = AbstractDone[f]
  BY FilesMove
<1>4. /\ AbstractOut = [f \in File |-> AbstractOut[f]]
      /\ AbstractDone = [f \in File |-> AbstractDone[f]]
  BY DEF AbstractOut, AbstractDone
<1>5. /\ AbstractOut' = [f \in File |-> AbstractOut'[f]]
      /\ AbstractDone' = [f \in File |-> AbstractDone'[f]]
  BY DEF AbstractOut, AbstractDone
<1>6. files' = files
  BY FilesFrame DEF RInv
<1> HIDE DEF AbstractOut, AbstractDone
<1>7. AbstractOut' = [AbstractOut EXCEPT ![file[t]] = OutOf(t)']
  BY <1>2, <1>3, <1>4, <1>5
<1>8. AbstractDone' = [AbstractDone EXCEPT ![file[t]] = DoneOf(t)']
  BY <1>2, <1>3, <1>4, <1>5
<1>9. /\ AbstractOut = [AbstractOut EXCEPT ![file[t]] = OutOf(t)]
      /\ AbstractDone = [AbstractDone EXCEPT ![file[t]] = DoneOf(t)]
  BY <1>1, <1>4
<1> QED BY <1>1, <1>6, <1>7, <1>8, <1>9

\* A key that another thread is about to change keeps its value; any other has
\* the value the thread makes it.
LEMMA KeyMoves ==
  ASSUME RInv, RInv', NEW t \in Thread, ThreadStep(t), NEW k \in Key
  PROVE  \/ /\ \E u \in Thread \ {t} : ChangedLater(u, k) /\ ChangedLater(u, k)'
            /\ AbstractStore'[k] = AbstractStore[k]
         \/ AbstractStore[k] = StoreOf(t, k) /\ AbstractStore'[k] = StoreOf(t, k)'
<1>0. IInv /\ FilesHandedOutOnce /\ StoreFacts /\ StoreFacts'
  BY FactsHold, FactsNext DEF RInv, Facts
<1>1. ASSUME NEW u \in Thread \ {t}
      PROVE  (ChangedLater(u, k)' <=> ChangedLater(u, k))
             /\ LaterValue(u, k)' = LaterValue(u, k)
  BY <1>0, OthersStore
<1>2. CASE \E u \in Thread \ {t} : ChangedLater(u, k)
  <2>1. PICK u \in Thread \ {t} : ChangedLater(u, k)
    BY <1>2
  <2>2. ChangedLater(u, k)' /\ LaterValue(u, k)' = LaterValue(u, k)
    BY <1>1, <2>1
  <2>3. AbstractStore[k] = LaterValue(u, k)
    BY <1>0, <2>1 DEF StoreFacts
  <2>4. AbstractStore'[k] = LaterValue(u, k)'
    BY <1>0, <2>2 DEF StoreFacts
  <2> QED BY <2>1, <2>2, <2>3, <2>4
<1>3. CASE \A u \in Thread \ {t} : ~ChangedLater(u, k)
  <2>1. \A u \in Thread \ {t} : ~ChangedLater(u, k)'
    BY <1>1, <1>3
  <2>2. AbstractStore[k] = StoreOf(t, k)
    BY <1>0, <1>3 DEF StoreFacts, StoreOf
  <2>3. AbstractStore'[k] = StoreOf(t, k)'
    <3>1. CASE ChangedLater(t, k)'
      BY <1>0, <3>1 DEF StoreFacts, StoreOf
    <3>2. CASE ~ChangedLater(t, k)'
      <4>1. \A u \in Thread : ~ChangedLater(u, k)'
        BY <2>1, <3>2
      <4>2. AbstractStore'[k] = read_pair(table', k)
        BY <1>0, <4>1 DEF StoreFacts
      <4> QED BY <3>2, <4>2 DEF StoreOf
    <3> QED BY <3>1, <3>2
  <2> QED BY <2>2, <2>3
<1> QED BY <1>2, <1>3

LEMMA StoreKept ==
  ASSUME RInv, RInv', NEW t \in Thread, ThreadStep(t),
         \A k \in Key : StoreOf(t, k)' = StoreOf(t, k)
  PROVE  AbstractStore' = AbstractStore
<1>1. ASSUME NEW k \in Key PROVE AbstractStore'[k] = AbstractStore[k]
  BY KeyMoves
<1>2. /\ AbstractStore = [k \in Key |-> AbstractStore[k]]
      /\ AbstractStore' = [k \in Key |-> AbstractStore'[k]]
  BY DEF AbstractStore
<1> HIDE DEF AbstractStore
<1> QED BY <1>1, <1>2

\* The step takes no command to its effect.
Silent(t) ==
  /\ OutOf(t)' = OutOf(t)
  /\ DoneOf(t)' = DoneOf(t)
  /\ \A k \in Key : StoreOf(t, k)' = StoreOf(t, k)
  /\ AbstractBackups' = AbstractBackups

LEMMA Stutters ==
  ASSUME RInv, RInv', NEW t \in Thread, ThreadStep(t),
         file[t] \in File, file'[t] = file[t], Silent(t)
  PROVE  UNCHANGED Abstract!vars
<1>1. AbstractStore' = AbstractStore
  BY StoreKept DEF Silent
<1>2. /\ AbstractOut = [AbstractOut EXCEPT ![file[t]] = OutOf(t)]
      /\ AbstractDone = [AbstractDone EXCEPT ![file[t]] = DoneOf(t)]
      /\ AbstractOut' = [AbstractOut EXCEPT ![file[t]] = OutOf(t)']
      /\ AbstractDone' = [AbstractDone EXCEPT ![file[t]] = DoneOf(t)']
      /\ files' = files
  BY OwnMoves
<1>3. AbstractOut' = AbstractOut /\ AbstractDone' = AbstractDone
  BY <1>2 DEF Silent
<1> QED BY <1>1, <1>2, <1>3 DEF Abstract!vars, Silent

-----------------------------------------------------------------------------
(* The steps that no command takes effect with. *)

LEMMA StoreOfKept ==
  ASSUME NEW t \in Thread, table' = table, pc[t] # "apply", pc'[t] # "apply"
  PROVE  \A k \in Key : StoreOf(t, k)' = StoreOf(t, k)
BY DEF StoreOf, ChangedLater, Pending

LEMMA BackupsKept ==
  ASSUME backups' = backups, running' = running
  PROVE  AbstractBackups' = AbstractBackups
BY DEF AbstractBackups, FileOf

\* A job file is taken as it is, and left with all its commands done.
LEMMA FileStutters ==
  ASSUME RInv, RInv', NEW t \in Thread, ThreadStep(t),
         TakesFiles(t) \/ EndOfFile(t)
  PROVE  UNCHANGED Abstract!vars
<1>0. /\ IInv /\ FilesHandedOutOnce /\ IInv' /\ FilesHandedOutOnce'
      /\ OwnFacts /\ OwnFacts' /\ PlainFacts /\ PlainFacts'
  BY FactsHold, FactsNext DEF RInv, Facts
<1>1. /\ table' = table /\ backups' = backups /\ running' = running
      /\ out' = out /\ offset' = offset
      /\ pc[t] # "apply" /\ pc'[t] # "apply"
      /\ pc'[t] \in {"nofile", "take", "done", "command", "fetch"}
  BY <1>0 DEF TakesFiles, LockFiles, NoMoreFiles, TakeFile, EndOfFile, jobs,
              backing, GoTo, IInv, TypeOK
<1>2. AbstractStore' = AbstractStore /\ AbstractBackups' = AbstractBackups
  BY <1>1, StoreOfKept, StoreKept, BackupsKept
<1>3. files' = files
  BY <1>0, FilesFrame
<1>4. ASSUME NEW f \in File
      PROVE  AbstractOut'[f] = AbstractOut[f] /\ AbstractDone'[f] = AbstractDone[f]
  <2>1. CASE f # file[t] /\ f # file'[t]
    BY <2>1, FilesMove
  <2>2. \A u \in Thread \ {t} : file'[u] = file[u]
    BY <1>0, FilesFrame
  <2>3. CASE f = file[t]
    <3>1. f # NoFile
      BY StoreAssumption DEF File
    <3>2. EndOfFile(t)
      BY <1>0, <2>3, <3>1 DEF TakesFiles, LockFiles, NoMoreFiles, TakeFile,
                              IInv, Control, ControlOf, Idle
    <3>3. pc[t] = "command" /\ file'[t] = NoFile
      BY <1>0, <3>2 DEF EndOfFile, IInv, TypeOK
    <3>4. \A u \in Thread : file'[u] # f
      BY <1>0, <2>2, <2>3, <3>1, <3>3 DEF FilesHandedOutOnce
    <3>5. AbstractOut'[f] = out'[f] /\ AbstractDone'[f] = offset'[f]
      BY <1>0, <3>4 DEF OwnFacts
    <3>6. AbstractOut[f] = OutOf(t) /\ AbstractDone[f] = DoneOf(t)
      BY <1>0, <2>3 DEF OwnFacts
    <3>7. OutOf(t) = out[f]
      BY <1>0, <2>3, <3>3 DEF PlainFacts, InShow
    <3>8. DoneOf(t) = offset[f]
      BY <2>3, <3>3 DEF DoneOf, NotYet, InShow, BeforeFork
    <3> QED BY <1>1, <3>5, <3>6, <3>7, <3>8
  <2>4. CASE f = file'[t] /\ f # file[t]
    <3>1. f # NoFile
      BY StoreAssumption DEF File
    <3>2. TakeFile(t)
      BY <1>0, <2>4, <3>1 DEF TakesFiles, LockFiles, NoMoreFiles, EndOfFile,
                              IInv, TypeOK, local
    <3>3. f = current_index /\ pc'[t] = "command"
      BY <1>0, <2>4, <3>2 DEF TakeFile, IInv, TypeOK, GoTo
    <3>4. \A u \in Thread : file[u] # f
      BY <1>0, <3>1, <3>3 DEF FilesHandedOutOnce, IInv, TypeOK, File
    <3>5. AbstractOut[f] = out[f] /\ AbstractDone[f] = offset[f]
      BY <1>0, <3>4 DEF OwnFacts
    <3>6. AbstractOut'[f] = OutOf(t)' /\ AbstractDone'[f] = DoneOf(t)'
      BY <1>0, <2>4 DEF OwnFacts
    <3>7. OutOf(t)' = out'[f]
      BY <1>0, <2>4, <3>3 DEF PlainFacts, InShow
    <3>8. DoneOf(t)' = offset'[f]
      BY <2>4, <3>3 DEF DoneOf, NotYet, InShow, BeforeFork
    <3> QED BY <1>1, <3>5, <3>6, <3>7, <3>8
  <2> QED BY <2>1, <2>3, <2>4
<1>5. /\ AbstractOut = [f \in File |-> AbstractOut[f]]
      /\ AbstractDone = [f \in File |-> AbstractDone[f]]
      /\ AbstractOut' = [f \in File |-> AbstractOut'[f]]
      /\ AbstractDone' = [f \in File |-> AbstractDone'[f]]
  BY DEF AbstractOut, AbstractDone
<1>6. AbstractOut' = AbstractOut /\ AbstractDone' = AbstractDone
  <2> HIDE DEF AbstractOut, AbstractDone
  <2> QED BY <1>4, <1>5
<1> QED BY <1>2, <1>3, <1>6 DEF Abstract!vars

\* The locks before a command's effect, and the unlocks after it.
LEMMA PlainStutters ==
  ASSUME RInv, RInv', NEW t \in Thread, ThreadStep(t),
         file[t] \in File, file' = file, table' = table, out' = out,
         offset' = offset, backups' = backups, running' = running,
         pc[t] \notin InShow \cup {"apply"}, pc'[t] \notin InShow \cup {"apply"},
         NotYet(t)' <=> NotYet(t)
  PROVE  UNCHANGED Abstract!vars
<1>1. OutOf(t)' = OutOf(t)
  <2>1. PlainFacts /\ PlainFacts'
    BY FactsHold, FactsNext DEF Facts
  <2> QED BY <2>1 DEF PlainFacts
<1>2. DoneOf(t)' = DoneOf(t)
  BY DEF DoneOf
<1>3. /\ \A k \in Key : StoreOf(t, k)' = StoreOf(t, k)
      /\ AbstractBackups' = AbstractBackups
  BY StoreOfKept, BackupsKept
<1> QED BY <1>1, <1>2, <1>3, Stutters DEF Silent

LEMMA LockStutters ==
  ASSUME RInv, RInv', NEW t \in Thread, ThreadStep(t),
         \/ RdLockTable(t) \/ UnlockSlot(t) \/ UnlockTable(t)
         \/ LockSlot(t) \/ SkipSlot(t)
         \/ LockBackups(t) \/ WaitChild(t) \/ WaitNone(t) \/ RdLockSlot(t)
         \/ UnlockAllSlots(t) \/ UnlockBackups(t),
         pc'[t] # "apply"
  PROVE  UNCHANGED Abstract!vars
<1>1. IInv
  BY DEF RInv
<1>2. /\ file' = file /\ table' = table /\ out' = out /\ offset' = offset
      /\ backups' = backups /\ running' = running
  BY DEF RdLockTable, UnlockSlot, UnlockTable, LockSlot, SkipSlot, LockBackups,
         WaitChild, WaitNone, RdLockSlot, UnlockAllSlots, UnlockBackups,
         jobs, backing, local
<1>3. /\ pc[t] \notin Idle \cup InShow \cup {"apply"}
      /\ pc'[t] \notin InShow \cup {"apply"}
      /\ pc[t] \in {"rdlock", "lock"} \cup BeforeFork
           <=> pc'[t] \in {"rdlock", "lock"} \cup BeforeFork
  BY <1>1
     DEF RdLockTable, UnlockSlot, UnlockTable, LockSlot, SkipSlot, LockBackups,
         WaitChild, WaitNone, RdLockSlot, UnlockAllSlots, UnlockBackups,
         GoTo, NextPair, IInv, TypeOK, Idle, InShow, BeforeFork
<1>4. file[t] \in File
  BY <1>1, <1>3, AtWork
<1>5. NotYet(t)' <=> NotYet(t)
  BY <1>3 DEF NotYet
<1> QED BY <1>2, <1>3, <1>4, <1>5, PlainStutters

\* A command that was read and not skipped has yet to take effect.
LEMMA StartStutters ==
  ASSUME RInv, RInv', NEW t \in Thread, ThreadStep(t),
         StartKeyCommand(t) \/ StartShow(t) \/ StartBackup(t)
  PROVE  UNCHANGED Abstract!vars
<1>0. IInv /\ Printed /\ PlainFacts /\ PlainFacts' /\ SettledFacts'
  BY FactsHold, FactsNext DEF RInv, Facts
<1>1. /\ file' = file /\ table' = table /\ out' = out
      /\ backups' = backups /\ running' = running
  BY DEF StartKeyCommand, StartShow, StartBackup, backing
<1>2. pc[t] = "command" /\ file[t] \in File
  BY <1>0, AtWork DEF StartKeyCommand, StartShow, StartBackup, AtCommand, Idle
<1>3. offset[file[t]] \in Nat /\ offset'[file[t]] = offset[file[t]] + 1
  BY <1>0, <1>2
     DEF StartKeyCommand, StartShow, StartBackup, ReadsCommand, IInv, TypeOK
<1>4. pc'[t] \in {"rdlock", "lock", "backup"} \cup InShow
  BY <1>0 DEF StartKeyCommand, StartShow, StartBackup, GoTo, InShow, IInv, TypeOK
<1>5. DoneOf(t)' = DoneOf(t)
  BY <1>1, <1>2, <1>3, <1>4 DEF DoneOf, NotYet, InShow, BeforeFork
<1>6. OutOf(t) = out[file[t]]
  BY <1>0, <1>2 DEF PlainFacts, InShow
<1>7. OutOf(t)' = out[file[t]]
  <2>1. CASE pc'[t] \notin InShow
    BY <1>0, <1>1, <1>2, <1>4, <2>1 DEF PlainFacts
  <2>2. CASE pc'[t] \in InShow
    <3> DEFINE f == file[t]
               n == Settled(f)'
    <3>1. /\ n \in 0 .. Len(out[f])
          /\ \A m \in DOMAIN out[f] : m <= n <=> out[f][m].at < offset'[f]
      BY <1>0, <1>1, <1>2 DEF SettledFacts
    <3>2. /\ out[f] \in Seq(Entry) /\ Len(out[f]) \in Nat
          /\ DOMAIN out[f] = 1 .. Len(out[f])
          /\ \A m \in DOMAIN out[f] : out[f][m].at \in Nat
      BY <1>0, <1>2, OutType DEF IInv
    <3>3. \A m \in DOMAIN out[f] : out[f][m].at <= offset[f]
      BY <1>0, <1>2 DEF Printed
    <3>4. n = Len(out[f])
      <4>1. \A m \in DOMAIN out[f] : m <= n
        BY <1>3, <3>1, <3>2, <3>3
      <4> QED BY <3>1, <3>2, <4>1
    <3>5. SubSeq(out[f], 1, n) = out[f]
      BY <3>2, <3>4
    <3>6. OutOf(t)' = SubSeq(out[f], 1, n)
      BY <1>1, <2>2 DEF OutOf
    <3> QED BY <3>5, <3>6
  <2> QED BY <2>1, <2>2
<1>8. pc[t] # "apply" /\ pc'[t] # "apply" /\ file'[t] = file[t]
  BY <1>1, <1>2, <1>4 DEF InShow
<1>9. /\ \A k \in Key : StoreOf(t, k)' = StoreOf(t, k)
      /\ AbstractBackups' = AbstractBackups
  BY <1>1, <1>8, StoreOfKept, BackupsKept
<1> QED BY <1>2, <1>5, <1>6, <1>7, <1>8, <1>9, Stutters DEF Silent

\* What a SHOW prints counts when it ends.
LEMMA ShowStutters ==
  ASSUME RInv, RInv', NEW t \in Thread, ThreadStep(t),
         \/ ShowLock(t) \/ ShowSlot(t) \/ ShowNode(t) \/ ShowNextSlot(t)
         \/ ShowTorn(t) \/ ShowFreed(t) \/ ShowCrash(t)
  PROVE  UNCHANGED Abstract!vars
<1> DEFINE f == file[t]
           n == Settled(f)
           L == Len(out[f])
<1>0. IInv /\ SettledFacts /\ SettledFacts'
  BY FactsHold, FactsNext DEF RInv, Facts
<1>1. /\ file' = file /\ table' = table /\ offset' = offset
      /\ backups' = backups /\ running' = running
  BY DEF ShowLock, ShowSlot, ShowNode, ShowNextSlot, ShowTorn, ShowFreed,
         ShowCrash, backing, local, jobs
<1>2. pc[t] \in InShow /\ pc'[t] \in InShow
  BY <1>0 DEF ShowLock, ShowSlot, ShowNode, ShowNextSlot, ShowTorn, ShowFreed,
              ShowCrash, GoTo, InShow, IInv, TypeOK
<1>3. f \in File /\ file'[t] = f
  BY <1>0, <1>1, <1>2, AtWork DEF Idle, InShow
<1>4. /\ out[f] \in Seq(Entry) /\ L \in Nat /\ DOMAIN out[f] = 1 .. L
      /\ offset[f] \in Nat
  BY <1>0, <1>3, OutType DEF IInv
<1>5. /\ n \in 0 .. L
      /\ \A m \in DOMAIN out[f] : m <= n <=> out[f][m].at < offset[f]
  BY <1>0, <1>3 DEF SettledFacts
<1>6. /\ n' \in 0 .. Len(out'[f])
      /\ \A m \in DOMAIN out'[f] : m <= n' <=> out'[f][m].at < offset[f]
  BY <1>0, <1>1, <1>3 DEF SettledFacts
<1>7. OutOf(t) = SubSeq(out[f], 1, n)
  BY <1>2 DEF OutOf
<1>8. OutOf(t)' = SubSeq(out'[f], 1, n')
  BY <1>1, <1>2 DEF OutOf
<1>9. OutOf(t)' = OutOf(t)
  <2>1. CASE out' = out
    <3>1. n' = n
      BY <1>1, <2>1 DEF Settled
    <3> QED BY <1>7, <1>8, <2>1, <3>1
  <2>2. CASE \E key, value : Prints(t, key, value)
    <3>1. PICK key, value : Prints(t, key, value)
      BY <2>2
    <3> DEFINE e == EntryOf(t, key, value)
    <3>2. /\ out'[f] = Append(out[f], e) /\ DOMAIN out'[f] = 1 .. L + 1
          /\ Len(out'[f]) = L + 1
          /\ \A m \in DOMAIN out[f] : out'[f][m] = out[f][m]
          /\ out'[f][L + 1] = e /\ e.at = offset[f]
      BY <1>0, <1>3, <3>1, PrintsAdds DEF IInv
    <3> HIDE DEF e
    <3>3. ~(L + 1 <= n')
      BY <1>4, <1>6, <3>2
    <3>4. \A m \in 1 .. L : m <= n' <=> m <= n
      BY <1>4, <1>5, <1>6, <3>2
    <3>5. n' = n
      <4> HIDE DEF n
      <4> QED BY <1>4, <1>5, <1>6, <3>2, <3>3, <3>4
    <3>6. out'[f] \in Seq(Entry)
      BY <1>0, <1>3, FactsNext, OutType DEF RInv, IInv, TypeOK
    <3>7. SubSeq(out'[f], 1, n) = SubSeq(out[f], 1, n)
      <4>1. \A m \in 1 .. n : out'[f][m] = out[f][m]
        BY <1>4, <1>5, <3>2
      <4> QED BY <1>4, <1>5, <3>2, <4>1, SubSeqProperties, <3>6
    <3> QED BY <1>7, <1>8, <3>5, <3>7
  <2>3. out' = out \/ \E key, value : Prints(t, key, value)
    BY DEF ShowLock, ShowSlot, ShowNode, ShowNextSlot, ShowTorn, ShowFreed,
           ShowCrash
  <2> QED BY <2>1, <2>2, <2>3
<1>10. DoneOf(t)' = DoneOf(t)
  BY <1>1, <1>2 DEF DoneOf, NotYet
<1>11. /\ \A k \in Key : StoreOf(t, k)' = StoreOf(t, k)
       /\ AbstractBackups' = AbstractBackups
  BY <1>1, <1>2, StoreOfKept, BackupsKept DEF InShow
<1> QED BY <1>3, <1>9, <1>10, <1>11, Stutters DEF Silent

-----------------------------------------------------------------------------
(* A command that took effect is carried out pair by pair. *)

\* The value of a key after a write or a delete in the table.
LEMMA TableWritten ==
  ASSUME IInv, ChainsWellFormed, NEW key \in Key, NEW value \in Value, NEW k \in Key
  PROVE  read_pair(write_pair(table, key, value), k) =
           IF k = key THEN value ELSE read_pair(table, k)
<1> DEFINE written == write_pair(table, key, value)
<1>1. /\ table \in Table /\ hash(key) \in Slot /\ hash(k) \in Slot
      /\ table[hash(key)] \in Chain /\ WellFormed(table[hash(key)], hash(key))
  BY HashType, TableChains DEF IInv, TypeOK
<1>2. written[hash(key)] = WriteInChain(table[hash(key)], key, value)
  BY <1>1 DEF write_pair, Table
<1>3. CASE hash(k) # hash(key)
  <2>1. written[hash(k)] = table[hash(k)] /\ k # key
    BY <1>1, <1>3 DEF write_pair, Table
  <2> QED BY <2>1, ReadIsValueIn
<1>4. CASE hash(k) = hash(key)
  BY <1>1, <1>2, <1>4, ReadIsValueIn, WriteReads
<1> QED BY <1>3, <1>4

LEMMA TableDeleted ==
  ASSUME IInv, ChainsWellFormed, NEW key \in Key, NEW k \in Key
  PROVE  read_pair(delete_pair(table, key), k) =
           IF k = key THEN NULL ELSE read_pair(table, k)
<1> DEFINE left == delete_pair(table, key)
<1>1. /\ table \in Table /\ hash(key) \in Slot /\ hash(k) \in Slot
      /\ table[hash(key)] \in Chain /\ WellFormed(table[hash(key)], hash(key))
  BY HashType, TableChains DEF IInv, TypeOK
<1>2. left[hash(key)] = DeleteInChain(table[hash(key)], key)
  BY <1>1 DEF delete_pair, Table
<1>3. CASE hash(k) # hash(key)
  <2>1. left[hash(k)] = table[hash(k)] /\ k # key
    BY <1>1, <1>3 DEF delete_pair, Table
  <2> QED BY <2>1, ReadIsValueIn
<1>4. CASE hash(k) = hash(key)
  BY <1>1, <1>2, <1>4, ReadIsValueIn, DeleteReads
<1> QED BY <1>3, <1>4

\* One turn of the loop that applies the pairs.
LEMMA TurnOfApply ==
  ASSUME IInv, NEW t \in Thread, pc[t] = "apply", NextPair(t, "unlock"), args' = args
  PROVE  /\ Pairs(t) \in Seq(Pair) /\ Len(Pairs(t)) \in Nat
         /\ DOMAIN Pairs(t) = 1 .. Len(Pairs(t))
         /\ i[t] \in 1 .. Len(Pairs(t))
         /\ PairKey(t) \in Key
         /\ \A j \in DOMAIN Pairs(t) : Pairs(t)[j].key \in Key
         /\ Pending(t) = i[t] .. Len(Pairs(t))
         /\ Pending(t)' = i[t] + 1 .. Len(Pairs(t))
         /\ Pairs(t)' = Pairs(t) /\ Opcode(t)' = Opcode(t)
         /\ (Mutates(t)' <=> Mutates(t))
         /\ pc'[t] \in {"apply", "unlock"}
         /\ pc'[t] = "apply" => i'[t] = i[t] + 1
         /\ pc'[t] = "unlock" => i[t] = Len(Pairs(t))
<1>1. /\ Pairs(t) \in Seq(Pair) /\ Len(Pairs(t)) \in Nat
      /\ DOMAIN Pairs(t) = 1 .. Len(Pairs(t)) /\ i[t] \in 1 .. Len(Pairs(t))
  BY DEF IInv, TypeOK, Control, ControlOf, Cmd, Pairs
<1>2. \A j \in DOMAIN Pairs(t) : Pairs(t)[j].key \in Key
  <2>1. \A j \in DOMAIN Pairs(t) : Pairs(t)[j] \in Pair
    BY <1>1
  <2> QED BY <2>1 DEF Pair
<1>3. PairKey(t) \in Key
  BY <1>1, <1>2 DEF PairKey
<1>4. Pairs(t)' = Pairs(t) /\ Opcode(t)' = Opcode(t) /\ (Mutates(t)' <=> Mutates(t))
  BY DEF Pairs, Opcode, Mutates
<1>5. /\ pc'[t] \in {"apply", "unlock"}
      /\ pc'[t] = "apply" => i'[t] = i[t] + 1
      /\ pc'[t] = "unlock" => i[t] = Len(Pairs(t))
  BY DEF NextPair, GoTo, IInv, TypeOK
<1>6. Pending(t) = i[t] .. Len(Pairs(t))
  BY DEF Pending
<1>7. Pending(t)' = i[t] + 1 .. Len(Pairs(t))
  <2>1. CASE pc'[t] = "apply"
    BY <1>4, <1>5, <2>1 DEF Pending
  <2>2. CASE pc'[t] = "unlock"
    <3>1. Pending(t)' = {}
      BY <2>2 DEF Pending
    <3>2. i[t] + 1 .. Len(Pairs(t)) = {}
      BY <1>1, <1>5, <2>2
    <3> QED BY <3>1, <3>2
  <2> QED BY <1>5, <2>1, <2>2
<1> QED BY <1>1, <1>2, <1>3, <1>4, <1>5, <1>6, <1>7

LEMMA WriteStutters ==
  ASSUME RInv, RInv', NEW t \in Thread, ThreadStep(t), WritePair(t)
  PROVE  UNCHANGED Abstract!vars
<1> DEFINE P == Pairs(t)
           key == PairKey(t)
           value == P[i[t]].value
<1>0. IInv /\ ChainsWellFormed
  BY DEF RInv
<1>1. /\ pc[t] = "apply" /\ Opcode(t) = "WRITE" /\ Mutates(t)
      /\ table' = write_pair(table, key, value)
      /\ NextPair(t, "unlock")
      /\ args' = args /\ file' = file /\ out' = out /\ offset' = offset
      /\ backups' = backups /\ running' = running
  BY DEF WritePair, Applies, Mutates, jobs, backing
<1>2. /\ P \in Seq(Pair) /\ Len(P) \in Nat
      /\ DOMAIN P = 1 .. Len(P) /\ i[t] \in 1 .. Len(P) /\ key \in Key
      /\ Pending(t) = i[t] .. Len(P) /\ Pending(t)' = i[t] + 1 .. Len(P)
      /\ Pairs(t)' = P /\ Opcode(t)' = Opcode(t) /\ Mutates(t)'
      /\ pc'[t] \in {"apply", "unlock"}
  BY <1>0, <1>1, TurnOfApply
<1>3. value \in Value
  BY <1>0, <1>1, <1>2 DEF IInv, Control, ArgumentsOf, Locking
<1>4. file[t] \in File
  BY <1>0, <1>1, AtWork DEF Idle
<1>5. ASSUME NEW k \in Key PROVE StoreOf(t, k)' = StoreOf(t, k)
  <2> DEFINE At == {j \in Pending(t) : P[j].key = k}
             Rest == {j \in i[t] + 1 .. Len(P) : P[j].key = k}
  <2>1. read_pair(table', k) = IF k = key THEN value ELSE read_pair(table, k)
    BY <1>0, <1>1, <1>2, <1>3, TableWritten
  <2>2. /\ ChangedLater(t, k) <=> At # {}
        /\ ChangedLater(t, k)' <=> Rest # {}
    BY <1>1, <1>2 DEF ChangedLater
  <2>3. /\ LaterValue(t, k) = P[CHOOSE j \in At : \A l \in At : l <= j].value
        /\ LaterValue(t, k)' = P[CHOOSE j \in Rest : \A l \in Rest : l <= j].value
    BY <1>1, <1>2 DEF LaterValue
  <2>4. CASE k # key
    <3>1. At = Rest
      BY <1>2, <2>4 DEF PairKey
    <3>2. StoreOf(t, k)' = StoreOf(t, k)
      BY <2>1, <2>2, <2>3, <2>4, <3>1 DEF StoreOf
    <3> QED BY <3>2
  <2>5. CASE k = key
    <3>1. At = Rest \cup {i[t]} /\ i[t] \notin Rest
      BY <1>2, <2>5 DEF PairKey
    <3>2. CASE Rest = {}
      <4>1. At = {i[t]}
        BY <3>1, <3>2
      <4>2. (CHOOSE j \in At : \A l \in At : l <= j) = i[t]
        <5> HIDE DEF At
        <5>1. At \in SUBSET (1 .. Len(P)) /\ i[t] \in At /\ \A l \in At : l <= i[t]
          BY <1>2, <4>1
        <5> QED BY <1>2, <5>1, LastAt
      <4> QED BY <2>1, <2>2, <2>3, <2>5, <3>1, <3>2, <4>2 DEF StoreOf
    <3>3. CASE Rest # {}
      <4>1. Rest \in SUBSET (1 .. Len(P)) /\ At \in SUBSET (1 .. Len(P))
        BY <1>2
      <4>2. PICK m \in Rest : \A l \in Rest : l <= m
        BY <1>2, <3>3, <4>1, GreatestNumber
      <4>3. i[t] <= m
        BY <1>2, <4>2
      <4>4. m \in At /\ \A l \in At : l <= m
        BY <3>1, <4>2, <4>3
      <4> HIDE DEF At, Rest
      <4>5. (CHOOSE j \in At : \A l \in At : l <= j) = m
        BY <1>2, <4>1, <4>4, LastAt
      <4>6. (CHOOSE j \in Rest : \A l \in Rest : l <= j) = m
        BY <1>2, <4>1, <4>2, LastAt
      <4> QED BY <2>2, <2>3, <3>3, <4>4, <4>5, <4>6 DEF StoreOf
    <3> QED BY <3>2, <3>3
  <2> QED BY <2>4, <2>5
<1>6. OutOf(t)' = OutOf(t)
  <2>1. PrintsLater(t) = << >> /\ PrintsLater(t)' = << >>
    BY <1>1, <1>2 DEF PrintsLater
  <2> QED BY <1>1, <1>2, <2>1 DEF OutOf, InShow
<1>7. DoneOf(t)' = DoneOf(t)
  BY <1>1, <1>2 DEF DoneOf, NotYet, InShow, BeforeFork
<1>8. AbstractBackups' = AbstractBackups
  BY <1>1, BackupsKept
<1> QED BY <1>1, <1>4, <1>5, <1>6, <1>7, <1>8, Stutters DEF Silent

\* Printing one answer leaves the output to be as it was to be.
LEMMA PrintedFirst ==
  ASSUME NEW S, NEW s \in Seq(S), NEW e \in S, NEW q \in Seq(S), NEW r \in Seq(S),
         Len(r) = Len(q) + 1, r[1] = e, \A j \in 1 .. Len(q) : r[j + 1] = q[j]
  PROVE  Append(s, e) \o q = s \o r
<1> DEFINE L == Len(s)
           M == Len(q)
           x == Append(s, e) \o q
           y == s \o r
<1>1. L \in Nat /\ M \in Nat
  OBVIOUS
<1>2. Append(s, e) \in Seq(S) /\ Len(Append(s, e)) = L + 1
  OBVIOUS
<1>3. x \in Seq(S) /\ Len(x) = L + 1 + M /\ y \in Seq(S) /\ Len(y) = L + 1 + M
  <2>1. y \in Seq(S) /\ Len(y) = L + Len(r)
    BY ConcatProperties
  <2> DEFINE a == Append(s, e)
  <2>2. a \in Seq(S) /\ Len(a) = L + 1
    BY <1>2
  <2> HIDE DEF a
  <2>3. a \o q \in Seq(S) /\ Len(a \o q) = (L + 1) + M
    BY <2>2, ConcatProperties
  <2> QED BY <1>1, <2>1, <2>3 DEF a
<1>4. ASSUME NEW n \in 1 .. L + 1 + M PROVE x[n] = y[n]
  <2>1. CASE n \in 1 .. L
    BY <1>1, <1>2, <2>1
  <2>2. CASE n = L + 1
    <3>1. x[n] = e
      BY <1>1, <1>2, <2>2
    <3>2. y[n] = r[1]
      BY <1>1, <2>2
    <3> QED BY <3>1, <3>2
  <2>3. CASE n \in L + 2 .. L + 1 + M
    <3>1. x[n] = q[n - L - 1]
      BY <1>1, <1>2, <2>3
    <3>2. y[n] = r[n - L]
      BY <1>1, <2>3
    <3>3. n - L - 1 \in 1 .. M /\ n - L = (n - L - 1) + 1
      BY <1>1, <2>3
    <3> QED BY <3>1, <3>2, <3>3
  <2> QED BY <1>1, <2>1, <2>2, <2>3
<1>5. x = y
  <2> HIDE DEF x, y
  <2> QED BY <1>3, <1>4, SeqEqual
<1> QED BY <1>5

LEMMA EntryType ==
  ASSUME IInv, NEW t \in Thread, file[t] \in File, NEW key \in Key,
         NEW value \in Value \cup {NULL}
  PROVE  EntryOf(t, key, value) \in Entry
BY DEF EntryOf, Entry, IInv, TypeOK

LEMMA ReadStutters ==
  ASSUME RInv, RInv', NEW t \in Thread, ThreadStep(t), ReadPair(t)
  PROVE  UNCHANGED Abstract!vars
<1> DEFINE P == Pairs(t)
           f == file[t]
           answer(k) == EntryOf(t, k, read_pair(table, k))
           rest == [j \in 1 .. Len(P) - i[t] |-> answer(P[i[t] + j].key)]
<1>0. IInv
  BY DEF RInv
<1>1. /\ pc[t] = "apply" /\ Opcode(t) = "READ" /\ ~Mutates(t)
      /\ Prints(t, PairKey(t), read_pair(table, PairKey(t)))
      /\ NextPair(t, "unlock")
      /\ table' = table
      /\ args' = args /\ file' = file /\ offset' = offset
      /\ backups' = backups /\ running' = running
  BY DEF ReadPair, Applies, Mutates, jobs, backing
<1>2. /\ Len(P) \in Nat /\ DOMAIN P = 1 .. Len(P) /\ i[t] \in 1 .. Len(P)
      /\ PairKey(t) \in Key /\ \A j \in DOMAIN P : P[j].key \in Key
      /\ Pairs(t)' = P /\ Opcode(t)' = Opcode(t) /\ ~Mutates(t)'
      /\ pc'[t] \in {"apply", "unlock"}
      /\ pc'[t] = "apply" => i'[t] = i[t] + 1
      /\ pc'[t] = "unlock" => i[t] = Len(P)
  BY <1>0, <1>1, TurnOfApply
<1>3. f \in File
  BY <1>0, <1>1, AtWork DEF Idle
<1>4. \A k \in Key : answer(k) \in Entry
  <2>1. \A k \in Key : read_pair(table, k) \in Value \cup {NULL}
    BY <1>0, ReadType DEF IInv, TypeOK
  <2> QED BY <1>0, <1>3, <2>1, EntryType
<1>5. ReadsLater(t) = [j \in 1 .. Len(P) - i[t] + 1 |-> answer(P[i[t] + j - 1].key)]
  BY DEF ReadsLater
<1>6. PrintsLater(t) = ReadsLater(t)
  BY <1>1 DEF PrintsLater
<1>7. PrintsLater(t)' = rest
  <2>1. CASE pc'[t] = "apply"
    <3>1. PrintsLater(t)' = ReadsLater(t)'
      BY <1>1, <1>2, <2>1 DEF PrintsLater
    <3>2. ReadsLater(t)' =
            [j \in 1 .. Len(P) - (i[t] + 1) + 1 |->
               answer(P[(i[t] + 1) + j - 1].key)]
      BY <1>1, <1>2, <2>1 DEF ReadsLater, EntryOf
    <3>3. /\ Len(P) - (i[t] + 1) + 1 = Len(P) - i[t]
          /\ \A j \in 1 .. Len(P) - i[t] : (i[t] + 1) + j - 1 = i[t] + j
      BY <1>2
    <3> HIDE DEF answer
    <3> QED BY <3>1, <3>2, <3>3
  <2>2. CASE pc'[t] = "unlock"
    <3>1. PrintsLater(t)' = << >>
      BY <2>2 DEF PrintsLater
    <3>2. 1 .. Len(P) - i[t] = 1 .. 0
      BY <1>2, <2>2
    <3>3. rest = << >>
      BY <3>2
    <3> QED BY <3>1, <3>3
  <2> QED BY <1>2, <2>1, <2>2
<1> HIDE DEF answer
<1>8. /\ rest \in Seq(Entry) /\ Len(rest) = Len(P) - i[t]
      /\ ReadsLater(t) \in Seq(Entry) /\ Len(ReadsLater(t)) = Len(P) - i[t] + 1
  <2>1. Len(P) - i[t] \in Nat /\ Len(P) - i[t] + 1 \in Nat
    BY <1>2
  <2>2. \A j \in 1 .. Len(P) - i[t] : answer(P[i[t] + j].key) \in Entry
    <3>1. \A j \in 1 .. Len(P) - i[t] : i[t] + j \in DOMAIN P
      BY <1>2
    <3> QED BY <1>2, <1>4, <3>1
  <2>3. \A j \in 1 .. Len(P) - i[t] + 1 : answer(P[i[t] + j - 1].key) \in Entry
    <3>1. \A j \in 1 .. Len(P) - i[t] + 1 : i[t] + j - 1 \in DOMAIN P
      BY <1>2
    <3> QED BY <1>2, <1>4, <3>1
  <2>4. rest \in Seq(Entry) /\ Len(rest) = Len(P) - i[t]
    BY <2>1, <2>2
  <2>5. ReadsLater(t) \in Seq(Entry) /\ Len(ReadsLater(t)) = Len(P) - i[t] + 1
    BY <1>5, <2>1, <2>3
  <2> QED BY <2>4, <2>5
<1>9. /\ ReadsLater(t)[1] = answer(PairKey(t))
      /\ \A j \in 1 .. Len(rest) : ReadsLater(t)[j + 1] = rest[j]
  <2>1. 1 \in 1 .. Len(P) - i[t] + 1 /\ i[t] + 1 - 1 = i[t]
    BY <1>2
  <2>2. ReadsLater(t)[1] = answer(PairKey(t))
    BY <1>5, <2>1 DEF PairKey
  <2>3. ASSUME NEW j \in 1 .. Len(P) - i[t] PROVE ReadsLater(t)[j + 1] = rest[j]
    <3>1. j + 1 \in 1 .. Len(P) - i[t] + 1 /\ i[t] + (j + 1) - 1 = i[t] + j
      BY <1>2
    <3> QED BY <1>5, <3>1
  <2> QED BY <1>8, <2>2, <2>3
<1>10. out[f] \in Seq(Entry) /\ out'[f] = Append(out[f], answer(PairKey(t)))
  BY <1>0, <1>1, <1>3, PrintsAdds, OutType DEF IInv, answer
<1>11. out'[f] \o rest = out[f] \o ReadsLater(t)
  <2>1. answer(PairKey(t)) \in Entry
    BY <1>2, <1>4
  <2>2. Len(ReadsLater(t)) = Len(rest) + 1
    BY <1>2, <1>8
  <2>3. out[f] \in Seq(Entry) /\ rest \in Seq(Entry) /\ ReadsLater(t) \in Seq(Entry)
    BY <1>8, <1>10
  <2>4. ReadsLater(t)[1] = answer(PairKey(t))
    BY <1>9
  <2>5. \A j \in 1 .. Len(rest) : ReadsLater(t)[j + 1] = rest[j]
    BY <1>9
  <2> HIDE DEF rest
  <2>6. Append(out[f], answer(PairKey(t))) \o rest = out[f] \o ReadsLater(t)
    BY <2>1, <2>2, <2>3, <2>4, <2>5, PrintedFirst
  <2> QED BY <1>10, <2>6
<1>12. OutOf(t)' = OutOf(t)
  BY <1>1, <1>2, <1>6, <1>7, <1>11 DEF OutOf, InShow
<1>13. DoneOf(t)' = DoneOf(t)
  BY <1>1, <1>2 DEF DoneOf, NotYet, InShow, BeforeFork
<1>14. \A k \in Key : StoreOf(t, k)' = StoreOf(t, k)
  BY <1>1, <1>2 DEF StoreOf, ChangedLater
<1>15. AbstractBackups' = AbstractBackups
  BY <1>1, BackupsKept
<1> QED BY <1>1, <1>3, <1>12, <1>13, <1>14, <1>15, Stutters DEF Silent

\* DELETE reports one key less, or deletes one that it need not report.
LEMMA GoneNext ==
  ASSUME IInv, ChainsWellFormed, NEW t \in Thread, DeletePair(t)
  PROVE  /\ Gone(t) \in SUBSET Pending(t)
         /\ IF read_pair(table, PairKey(t)) = NULL
            THEN /\ i[t] \in Gone(t) /\ Gone(t)' = Gone(t) \ {i[t]}
            ELSE Gone(t)' = Gone(t)
<1> DEFINE P == Pairs(t)
           key == PairKey(t)
           value(j) == read_pair(table, P[j].key)
<1>1. /\ pc[t] = "apply" /\ Opcode(t) = "DELETE" /\ NextPair(t, "unlock")
      /\ args' = args /\ file' = file /\ offset' = offset
      /\ IF read_pair(table, key) # NULL THEN table' = delete_pair(table, key)
                                         ELSE table' = table
  BY DEF DeletePair, Applies, jobs
<1>2. /\ Len(P) \in Nat /\ DOMAIN P = 1 .. Len(P) /\ i[t] \in 1 .. Len(P)
      /\ key \in Key /\ \A j \in DOMAIN P : P[j].key \in Key
      /\ Pending(t) = i[t] .. Len(P) /\ Pending(t)' = i[t] + 1 .. Len(P)
      /\ Pairs(t)' = P
      /\ pc'[t] \in {"apply", "unlock"}
      /\ pc'[t] = "apply" => i'[t] = i[t] + 1
      /\ pc'[t] = "unlock" => i[t] = Len(P)
  BY <1>1, TurnOfApply
<1>3. \A k \in Key : read_pair(table', k) = NULL <=>
                       k = key \/ read_pair(table, k) = NULL
  BY <1>1, <1>2, TableDeleted
<1>4. ASSUME NEW j \in i[t] + 1 .. Len(P)
      PROVE  j \in Gone(t)' <=> j \in Gone(t)
  <2>1. j \in Pending(t) /\ j \in Pending(t)' /\ P[j].key \in Key
    BY <1>2
  <2>2. pc'[t] = "apply" /\ i'[t] = i[t] + 1
    BY <1>2
  <2>3. j \in Gone(t) <=>
          \/ read_pair(table, P[j].key) = NULL
          \/ \E l \in i[t] .. j - 1 : P[l].key = P[j].key
    BY <2>1 DEF Gone
  <2>4. j \in Gone(t)' <=>
          \/ read_pair(table', P[j].key) = NULL
          \/ \E l \in i[t] + 1 .. j - 1 : P[l].key = P[j].key
    BY <1>2, <2>1, <2>2 DEF Gone
  <2>5. (\E l \in i[t] .. j - 1 : P[l].key = P[j].key) <=>
          \/ P[j].key = key
          \/ \E l \in i[t] + 1 .. j - 1 : P[l].key = P[j].key
    <3>1. i[t] .. j - 1 = {i[t]} \cup (i[t] + 1 .. j - 1)
      BY <1>2
    <3>2. P[i[t]].key = key
      BY DEF PairKey
    <3> QED BY <3>1, <3>2
  <2>6. read_pair(table', P[j].key) = NULL <=>
          P[j].key = key \/ read_pair(table, P[j].key) = NULL
    BY <1>3, <2>1
  <2> QED BY <2>3, <2>4, <2>5, <2>6
<1>5. Gone(t) \in SUBSET Pending(t) /\ Gone(t)' \in SUBSET (i[t] + 1 .. Len(P))
  BY <1>2 DEF Gone
<1>6. i[t] \in Gone(t) <=> read_pair(table, key) = NULL
  <2>1. i[t] \in Pending(t)
    BY <1>2
  <2>2. i[t] .. i[t] - 1 = {}
    BY <1>2
  <2> QED BY <2>1, <2>2 DEF Gone, PairKey
<1>7. \A j \in Gone(t) : j = i[t] \/ j \in i[t] + 1 .. Len(P)
  BY <1>2, <1>5
<1>8. i[t] \notin i[t] + 1 .. Len(P)
  BY <1>2
<1>9. \A j : j \in Gone(t)' => j \in Gone(t) /\ j # i[t]
  BY <1>4, <1>5, <1>8
<1>10. \A j : j \in Gone(t) /\ j # i[t] => j \in Gone(t)'
  BY <1>4, <1>7
<1>11. Gone(t)' = Gone(t) \ {i[t]}
  BY <1>9, <1>10
<1>12. CASE read_pair(table, PairKey(t)) = NULL
  BY <1>5, <1>6, <1>11, <1>12
<1>13. CASE read_pair(table, PairKey(t)) # NULL
  <2>1. i[t] \notin Gone(t)
    BY <1>6, <1>13
  <2>2. Gone(t)' = Gone(t)
    BY <1>11, <2>1
  <2> QED BY <1>5, <1>13, <2>2
<1> QED BY <1>12, <1>13

LEMMA DeleteStutters ==
  ASSUME RInv, RInv', NEW t \in Thread, ThreadStep(t), DeletePair(t)
  PROVE  UNCHANGED Abstract!vars
<1> DEFINE P == Pairs(t)
           f == file[t]
           key == PairKey(t)
           missing == read_pair(table, key) = NULL
           miss(k) == EntryOf(t, k, NULL)
           G == Gone(t)
           H == Gone(t)'
<1>0. IInv /\ ChainsWellFormed
  BY DEF RInv
<1>1. /\ pc[t] = "apply" /\ Opcode(t) = "DELETE" /\ Mutates(t)
      /\ NextPair(t, "unlock")
      /\ args' = args /\ file' = file /\ offset' = offset
      /\ backups' = backups /\ running' = running
      /\ ~missing => table' = delete_pair(table, key) /\ out' = out
      /\ missing => table' = table /\ Prints(t, key, NULL)
  BY DEF DeletePair, Applies, Mutates, jobs, backing
<1>2. /\ Len(P) \in Nat /\ DOMAIN P = 1 .. Len(P) /\ i[t] \in 1 .. Len(P)
      /\ key \in Key /\ \A j \in DOMAIN P : P[j].key \in Key
      /\ Pending(t) = i[t] .. Len(P) /\ Pending(t)' = i[t] + 1 .. Len(P)
      /\ Pairs(t)' = P /\ Opcode(t)' = Opcode(t) /\ Mutates(t)'
      /\ pc'[t] \in {"apply", "unlock"}
  BY <1>0, <1>1, TurnOfApply
<1>3. f \in File
  BY <1>0, <1>1, AtWork DEF Idle
<1>4. \A k \in Key : miss(k) \in Entry
  BY <1>0, <1>3, EntryType
<1>5. /\ G \in SUBSET Pending(t)
      /\ IF missing THEN i[t] \in G /\ H = G \ {i[t]} ELSE H = G
  BY <1>0, GoneNext
<1>6. G \in SUBSET (1 .. Len(P)) /\ IsFiniteSet(G) /\ \A j \in G : i[t] <= j
  <2>1. G \in SUBSET (1 .. Len(P)) /\ \A j \in G : i[t] <= j
    BY <1>2, <1>5
  <2>2. IsFiniteSet(1 .. Len(P))
    BY <1>2, FS_Interval
  <2> QED BY <2>1, <2>2, FS_Subset
<1>7. H \in SUBSET (1 .. Len(P)) /\ IsFiniteSet(H)
  BY <1>5, <1>6, FS_Subset
<1>8. PrintsLater(t) = [n \in 1 .. Cardinality(G) |-> miss(P[Nth(G, n)].key)]
  BY <1>1 DEF PrintsLater, MissesLater
<1>9. PrintsLater(t)' = [n \in 1 .. Cardinality(H) |-> miss(P[Nth(H, n)].key)]
  <2>1. MissesLater(t)' = [n \in 1 .. Cardinality(H) |-> miss(P[Nth(H, n)].key)]
    BY <1>1, <1>2 DEF MissesLater, EntryOf, Nth
  <2>2. CASE pc'[t] = "apply"
    BY <1>1, <1>2, <2>1, <2>2 DEF PrintsLater
  <2>3. CASE pc'[t] = "unlock"
    <3>1. H = {}
      BY <2>3 DEF Gone, Pending
    <3>2. Cardinality(H) = 0
      BY <3>1, FS_EmptySet
    <3>3. PrintsLater(t)' = << >>
      BY <2>3 DEF PrintsLater
    <3> HIDE DEF H, miss
    <3> QED BY <3>2, <3>3
  <2> QED BY <1>2, <2>2, <2>3
<1>10. out[f] \in Seq(Entry)
  BY <1>0, <1>3, OutType DEF IInv
<1>11. OutOf(t) = out[f] \o PrintsLater(t) /\ OutOf(t)' = out'[f] \o PrintsLater(t)'
  BY <1>1, <1>2 DEF OutOf, InShow
<1>12. OutOf(t)' = OutOf(t)
  <2>1. CASE ~missing
    BY <1>1, <1>5, <1>8, <1>9, <1>11, <2>1
  <2>2. CASE missing
    <3> DEFINE q == PrintsLater(t)'
               r == PrintsLater(t)
    <3>1. /\ Cardinality(G) = Cardinality(H) + 1 /\ Cardinality(H) \in Nat
          /\ Nth(G, 1) = i[t]
          /\ \A n \in 1 .. Cardinality(H) : Nth(G, n + 1) = Nth(H, n)
      <4>1. G \in SUBSET Nat /\ i[t] \in G /\ H = G \ {i[t]}
        BY <1>5, <1>6, <2>2
      <4>2. G \in SUBSET Nat
        BY <4>1
      <4>3. \A j \in G : i[t] <= j
        BY <1>6
      <4>4. IsFiniteSet(G) /\ i[t] \in G
        BY <1>6, <4>1
      <4> HIDE DEF G, H
      <4>5. /\ Cardinality(G) = Cardinality(G \ {i[t]}) + 1
            /\ Cardinality(G \ {i[t]}) \in Nat
            /\ Nth(G, 1) = i[t]
            /\ \A n \in 1 .. Cardinality(G \ {i[t]}) :
                 Nth(G, n + 1) = Nth(G \ {i[t]}, n)
        BY <4>2, <4>3, <4>4, NthOfRest
      <4>6. H = G \ {i[t]}
        BY <4>1
      <4> QED BY <4>5, <4>6
    <3>2. \A n \in 1 .. Cardinality(G) : Nth(G, n) \in G
      <4>1. G \in SUBSET Nat
        BY <1>6
      <4> HIDE DEF G
      <4> QED BY <1>6, <4>1, NthFound
    <3>3. \A n \in 1 .. Cardinality(H) : Nth(H, n) \in H
      <4>1. H \in SUBSET Nat
        BY <1>7
      <4> HIDE DEF H
      <4> QED BY <1>7, <4>1, NthFound
    <3> HIDE DEF G, H, miss
    <3>4. \A n \in 1 .. Cardinality(G) : miss(P[Nth(G, n)].key) \in Entry
      BY <1>2, <1>4, <1>6, <3>2
    <3>5. \A n \in 1 .. Cardinality(H) : miss(P[Nth(H, n)].key) \in Entry
      BY <1>2, <1>4, <1>7, <3>3
    <3>6. r \in Seq(Entry) /\ Len(r) = Cardinality(G)
      BY <1>8, <3>1, <3>4
    <3>7. q \in Seq(Entry) /\ Len(q) = Cardinality(H)
      BY <1>9, <3>1, <3>5
    <3>8. r[1] = miss(key)
      BY <1>8, <3>1 DEF PairKey
    <3>9. ASSUME NEW j \in 1 .. Len(q) PROVE r[j + 1] = q[j]
      <4>1. j \in 1 .. Cardinality(H) /\ j + 1 \in 1 .. Cardinality(G)
        BY <3>1, <3>7
      <4>2. r[j + 1] = miss(P[Nth(G, j + 1)].key)
        BY <1>8, <4>1
      <4>3. q[j] = miss(P[Nth(H, j)].key)
        BY <1>9, <4>1
      <4> QED BY <3>1, <4>1, <4>2, <4>3
    <3>10. out'[f] = Append(out[f], miss(key)) /\ miss(key) \in Entry
      BY <1>0, <1>1, <1>2, <1>3, <1>4, <2>2, PrintsAdds DEF IInv, miss
    <3>11. Len(r) = Len(q) + 1
      BY <3>1, <3>6, <3>7
    <3>12. \A j \in 1 .. Len(q) : r[j + 1] = q[j]
      BY <3>9
    <3> HIDE DEF q, r
    <3>13. Append(out[f], miss(key)) \o q = out[f] \o r
      BY <1>10, <3>6, <3>7, <3>8, <3>10, <3>11, <3>12, PrintedFirst
    <3> QED BY <1>11, <3>10, <3>13 DEF q, r
  <2> QED BY <2>1, <2>2
<1>13. DoneOf(t)' = DoneOf(t)
  BY <1>1, <1>2 DEF DoneOf, NotYet, InShow, BeforeFork
<1>14. ASSUME NEW k \in Key PROVE StoreOf(t, k)' = StoreOf(t, k)
  <2>1. /\ ChangedLater(t, k) => LaterValue(t, k) = NULL
        /\ ChangedLater(t, k)' => LaterValue(t, k)' = NULL
    BY <1>1, <1>2 DEF LaterValue
  <2>2. read_pair(table', k) = IF k = key THEN NULL ELSE read_pair(table, k)
    BY <1>0, <1>1, <1>2, TableDeleted
  <2>3. ChangedLater(t, k) <=> ChangedLater(t, k)' \/ k = key
    <3>1. ChangedLater(t, k) <=> \E j \in i[t] .. Len(P) : P[j].key = k
      BY <1>1, <1>2 DEF ChangedLater
    <3>2. ChangedLater(t, k)' <=> \E j \in i[t] + 1 .. Len(P) : P[j].key = k
      BY <1>2 DEF ChangedLater
    <3>3. i[t] .. Len(P) = {i[t]} \cup (i[t] + 1 .. Len(P)) /\ P[i[t]].key = key
      BY <1>2 DEF PairKey
    <3> QED BY <3>1, <3>2, <3>3
  <2> QED BY <2>1, <2>2, <2>3 DEF StoreOf
<1>15. AbstractBackups' = AbstractBackups
  BY <1>1, BackupsKept
<1> QED BY <1>1, <1>3, <1>12, <1>13, <1>14, <1>15, Stutters DEF Silent

-----------------------------------------------------------------------------
(* The steps that a command takes effect with. *)

\* The command that a thread is at has yet to take effect.
LEMMA AtCurrent ==
  ASSUME RInv, NEW t \in Thread, pc[t] \notin Idle \cup {"command"}
  PROVE  /\ file[t] \in File /\ offset[file[t]] \in Nat \ {0}
         /\ offset[file[t]] \in DOMAIN files[file[t]]
         /\ offset[file[t]] <= Len(files[file[t]])
         /\ Current(t) = files[file[t]][offset[file[t]]]
         /\ Current(t) \in Cmd /\ Current(t).pairs \in Seq(Pair)
         /\ IssuedOf(t)
<1>1. IInv /\ IssuedOf(t)
  BY DEF RInv, Issued
<1>2. file[t] \in File
  BY <1>1, AtWork
<1>3. /\ files[file[t]] \in Seq(Cmd) /\ offset[file[t]] \in Nat
      /\ offset[file[t]] <= Len(files[file[t]])
  BY <1>1, <1>2 DEF IInv, TypeOK, Control
<1>4. offset[file[t]] > 0
  BY <1>1 DEF IssuedOf
<1>5. offset[file[t]] \in DOMAIN files[file[t]]
  BY <1>3, <1>4
<1>6. files[file[t]][offset[file[t]]] \in Cmd
  BY <1>3, <1>5
<1>7. Current(t) \in Cmd /\ Current(t).pairs \in Seq(Pair)
  BY <1>6 DEF Current, Cmd
<1> QED BY <1>1, <1>2, <1>3, <1>4, <1>5, <1>7 DEF Current

LEMMA TakesIt ==
  ASSUME RInv, RInv', NEW t \in Thread, ThreadStep(t),
         file' = file, offset' = offset,
         pc[t] \notin Idle \cup {"command"}, NotYet(t), ~NotYet(t)'
  PROVE  /\ file[t] \in File
         /\ Abstract!Takes(file[t], Current(t).op)
         /\ AbstractDone[file[t]] + 1 = offset[file[t]]
         /\ Abstract!Pairs(file[t]) = Current(t).pairs
         /\ \A key, value :
              Abstract!Answer(file[t], key, value) = EntryOf(t, key, value)
<1> DEFINE f == file[t]
<1>1. /\ f \in File /\ offset[f] \in Nat \ {0} /\ offset[f] <= Len(files[f])
      /\ Current(t) = files[f][offset[f]]
  BY AtCurrent
<1>2. /\ AbstractDone' = [AbstractDone EXCEPT ![f] = DoneOf(t)']
      /\ AbstractDone[f] = DoneOf(t) /\ files' = files
  BY <1>1, OwnMoves
<1>3. DoneOf(t) = offset[f] - 1 /\ DoneOf(t)' = offset[f]
  BY DEF DoneOf
<1>4. /\ AbstractDone[f] + 1 = offset[f] /\ AbstractDone[f] < Len(files[f])
      /\ AbstractDone' = [AbstractDone EXCEPT ![f] = AbstractDone[f] + 1]
  <2>1. (offset[f] - 1) + 1 = offset[f] /\ offset[f] - 1 < Len(files[f])
    <3>1. files[f] \in Seq(Cmd)
      BY <1>1 DEF RInv, IInv, TypeOK
    <3> QED BY <1>1, <3>1
  <2> QED BY <1>2, <1>3, <2>1
<1> HIDE DEF AbstractDone
<1>5. Abstract!Takes(f, Current(t).op)
  BY <1>1, <1>2, <1>4 DEF Abstract!Takes
<1>6. Abstract!Pairs(f) = Current(t).pairs
  BY <1>1, <1>4 DEF Abstract!Pairs
<1>7. \A key, value : Abstract!Answer(f, key, value) = EntryOf(t, key, value)
  BY <1>4 DEF Abstract!Answer, EntryOf
<1> QED BY <1>1, <1>4, <1>5, <1>6, <1>7

LEMMA SkipIsAtomic ==
  ASSUME RInv, RInv', NEW t \in Thread, ThreadStep(t), SkipCommand(t)
  PROVE  Abstract!Next
<1> DEFINE f == file[t]
<1>0. IInv /\ IInv' /\ PlainFacts /\ PlainFacts'
  BY FactsHold, FactsNext DEF RInv, Facts
<1>1. /\ pc[t] = "command" /\ pc' = pc /\ file' = file /\ table' = table
      /\ out' = out /\ backups' = backups /\ running' = running
      /\ offset' = [offset EXCEPT ![f] = @ + 1]
      /\ offset[f] < Len(files[f])
  BY DEF SkipCommand, AtCommand, ReadsCommand, backing, local
<1>2. f \in File
  BY <1>0, <1>1, AtWork DEF Idle
<1>3. PICK op \in {"WAIT", "INVALID"} : files[f][offset[f] + 1].op = op
  BY DEF SkipCommand, AtCommand
<1>4. /\ AbstractOut = [AbstractOut EXCEPT ![f] = OutOf(t)]
      /\ AbstractOut' = [AbstractOut EXCEPT ![f] = OutOf(t)']
      /\ AbstractDone' = [AbstractDone EXCEPT ![f] = DoneOf(t)']
      /\ AbstractDone[f] = DoneOf(t) /\ files' = files
  BY <1>1, <1>2, OwnMoves
<1>5. DoneOf(t) = offset[f] /\ DoneOf(t)' = offset[f] + 1
  BY <1>0, <1>1, <1>2 DEF DoneOf, NotYet, InShow, BeforeFork, IInv, TypeOK
<1>6. OutOf(t) = out[f] /\ OutOf(t)' = out[f]
  BY <1>0, <1>1, <1>2 DEF PlainFacts, InShow
<1>7. AbstractOut' = AbstractOut
  BY <1>4, <1>6
<1>8. AbstractStore' = AbstractStore /\ AbstractBackups' = AbstractBackups
  BY <1>1, StoreOfKept, StoreKept, BackupsKept
<1>9. Abstract!Takes(f, op)
  <2> HIDE DEF AbstractDone
  <2> QED BY <1>1, <1>3, <1>4, <1>5 DEF Abstract!Takes
<1>10. Abstract!Skip(f)
  BY <1>7, <1>8, <1>9 DEF Abstract!Skip
<1> QED BY <1>2, <1>10 DEF Abstract!Next

\* A thread that is about to read or change a key has it for itself.
KeysAlone ==
  \A t \in Thread : \A j \in Pending(t) : \A u \in Thread \ {t} :
    ~ChangedLater(u, Pairs(t)[j].key)

LEMMA KeysAreAlone == RInv => KeysAlone
<1> SUFFICES ASSUME RInv, NEW t \in Thread, NEW j \in Pending(t),
                    NEW u \in Thread \ {t}, ChangedLater(u, Pairs(t)[j].key)
             PROVE  FALSE
  BY DEF KeysAlone
<1> DEFINE k == Pairs(t)[j].key
<1>0. IInv
  BY DEF RInv
<1>1. k \in Key /\ hash(k) \in WriteHeld(t) \cup ReadHeld(t)
  BY <1>0, PendingLocked
<1> HIDE DEF k
<1>2. hash(k) \in WriteHeld(u) /\ hash(k) \in Slot
  BY <1>0, <1>1, ChangesLocked DEF k
<1> QED BY <1>0, <1>1, <1>2, WriterAlone

LEMMA KeysAloneNext == RInv' => KeysAlone'
BY KeysAreAlone, PTL

\* With its last lock a command takes effect on all its pairs.
LEMMA LastLock ==
  ASSUME RInv, RInv', NEW t \in Thread, ThreadStep(t),
         LockSlot(t) \/ SkipSlot(t), pc'[t] = "apply"
  PROVE  /\ pc[t] = "lock" /\ file' = file /\ table' = table /\ out' = out
         /\ offset' = offset /\ backups' = backups /\ running' = running
         /\ NotYet(t) /\ ~NotYet(t)'
         /\ file[t] \in File
         /\ i'[t] = 1 /\ Pairs(t)' = Pairs(t) /\ Opcode(t)' = Opcode(t)
         /\ (Mutates(t)' <=> Mutates(t))
         /\ Opcode(t) = Current(t).op /\ Opcode(t) \in KeyOps
         /\ Pairs(t) = insertionSort(Current(t).pairs)
         /\ Current(t).pairs \in Seq(Pair)
         /\ Len(Pairs(t)) = Len(Current(t).pairs) /\ Len(Pairs(t)) \in Nat
         /\ DOMAIN Pairs(t) = 1 .. Len(Pairs(t))
         /\ DOMAIN Current(t).pairs = 1 .. Len(Pairs(t))
         /\ \A j \in 1 .. Len(Pairs(t)) : Pairs(t)[j].key \in Key
         /\ Pending(t)' = 1 .. Len(Pairs(t))
<1>0. IInv /\ IInv'
  BY DEF RInv
<1>1. /\ pc[t] = "lock" /\ file' = file /\ table' = table /\ out' = out
      /\ offset' = offset /\ backups' = backups /\ running' = running
      /\ args' = args
  BY DEF LockSlot, SkipSlot, jobs, backing
<1>2. i'[t] = 1
  BY <1>0, <1>1 DEF LockSlot, SkipSlot, NextPair, GoTo, IInv, TypeOK
<1>3. /\ Pairs(t)' = Pairs(t) /\ Opcode(t)' = Opcode(t)
      /\ (Mutates(t)' <=> Mutates(t))
  BY <1>1 DEF Pairs, Opcode, Mutates
<1>4. NotYet(t) /\ ~NotYet(t)'
  BY <1>1 DEF NotYet, InShow, BeforeFork
<1>5. /\ file[t] \in File /\ Current(t).pairs \in Seq(Pair) /\ IssuedOf(t)
  BY <1>1, AtCurrent DEF Idle
<1>6. /\ Opcode(t) = Current(t).op
      /\ Pairs(t) = insertionSort(Current(t).pairs)
  BY <1>1, <1>5 DEF IssuedOf
<1>7. Opcode(t) \in KeyOps
  BY <1>0, <1>1 DEF IInv, Control, ControlOf, Locking
<1>8. \A p \in Pair : p.key \in Nat /\ p.key \in Key
  BY TableAssumption DEF Pair
<1>9. /\ Pairs(t) \in Seq(Pair) /\ DOMAIN Pairs(t) = DOMAIN Current(t).pairs
  BY <1>5, <1>6, <1>8, SortType
<1>10. /\ Len(Pairs(t)) \in Nat /\ Len(Pairs(t)) = Len(Current(t).pairs)
       /\ DOMAIN Pairs(t) = 1 .. Len(Pairs(t))
       /\ DOMAIN Current(t).pairs = 1 .. Len(Pairs(t))
  BY <1>5, <1>9
<1>11. \A j \in 1 .. Len(Pairs(t)) : Pairs(t)[j].key \in Key
  <2>1. \A j \in 1 .. Len(Pairs(t)) : Pairs(t)[j] \in Pair
    BY <1>9, <1>10
  <2> QED BY <1>8, <2>1
<1>12. Pending(t)' = 1 .. Len(Pairs(t))
  BY <1>2, <1>3 DEF Pending
<1> QED BY <1>1, <1>2, <1>3, <1>4, <1>5, <1>6, <1>7, <1>10, <1>11, <1>12

\* At that instant no other command is to change a key of it.
LEMMA LastLockStore ==
  ASSUME RInv, RInv', NEW t \in Thread, ThreadStep(t),
         LockSlot(t) \/ SkipSlot(t), pc'[t] = "apply"
  PROVE  /\ \A j \in 1 .. Len(Pairs(t)) :
              AbstractStore[Pairs(t)[j].key] = read_pair(table, Pairs(t)[j].key)
         /\ \A k \in Key :
              AbstractStore'[k] =
                IF Mutates(t) /\ \E j \in 1 .. Len(Pairs(t)) : Pairs(t)[j].key = k
                THEN LaterValue(t, k)' ELSE AbstractStore[k]
<1>0. /\ IInv /\ FilesHandedOutOnce /\ StoreFacts /\ StoreFacts' /\ KeysAlone'
  BY FactsHold, FactsNext, KeysAloneNext DEF RInv, Facts
<1>1. /\ pc[t] = "lock" /\ table' = table
      /\ Pairs(t)' = Pairs(t) /\ (Mutates(t)' <=> Mutates(t))
      /\ \A j \in 1 .. Len(Pairs(t)) : Pairs(t)[j].key \in Key
      /\ Pending(t)' = 1 .. Len(Pairs(t))
  BY LastLock
<1>2. \A k \in Key : ~ChangedLater(t, k) /\ StoreOf(t, k) = read_pair(table, k)
  BY <1>1 DEF StoreOf, ChangedLater, Pending
<1>3. ASSUME NEW j \in 1 .. Len(Pairs(t))
      PROVE  AbstractStore[Pairs(t)[j].key] = read_pair(table, Pairs(t)[j].key)
  <2>1. PICK k \in Key : k = Pairs(t)[j].key
    BY <1>1
  <2>2. ASSUME NEW u \in Thread \ {t} PROVE ~ChangedLater(u, k)
    <3>1. j \in Pending(t)' /\ Pairs(t)'[j].key = k
      BY <1>1, <2>1
    <3>2. ~ChangedLater(u, k)'
      BY <1>0, <3>1 DEF KeysAlone
    <3>3. ChangedLater(u, k)' <=> ChangedLater(u, k)
      BY <1>0, OthersStore
    <3> QED BY <3>2, <3>3
  <2>3. \A u \in Thread : ~ChangedLater(u, k)
    BY <1>2, <2>2
  <2> QED BY <1>0, <2>1, <2>3 DEF StoreFacts
<1>4. ASSUME NEW k \in Key
      PROVE  AbstractStore'[k] =
               IF Mutates(t) /\ \E j \in 1 .. Len(Pairs(t)) : Pairs(t)[j].key = k
               THEN LaterValue(t, k)' ELSE AbstractStore[k]
  <2>1. ChangedLater(t, k)' <=>
          Mutates(t) /\ \E j \in 1 .. Len(Pairs(t)) : Pairs(t)[j].key = k
    BY <1>1 DEF ChangedLater
  <2>2. CASE ChangedLater(t, k)'
    <3>1. AbstractStore'[k] = LaterValue(t, k)'
      BY <1>0, <2>2 DEF StoreFacts
    <3> QED BY <2>1, <2>2, <3>1
  <2>3. CASE ~ChangedLater(t, k)'
    <3>1. StoreOf(t, k)' = read_pair(table, k)
      BY <1>1, <2>3 DEF StoreOf
    <3>2. AbstractStore'[k] = AbstractStore[k]
      BY <1>2, <3>1, KeyMoves
    <3> QED BY <2>1, <2>3, <3>2
  <2> QED BY <2>2, <2>3
<1> QED BY <1>3, <1>4

LEMMA PairKeys == \A p \in Pair : p.key \in Nat /\ p.key \in Key
BY TableAssumption DEF Pair

\* The sorted arguments name the keys that the command names.
LEMMA SortedKeys ==
  ASSUME NEW pairs \in Seq(Pair), NEW k
  PROVE  (\E j \in DOMAIN insertionSort(pairs) : insertionSort(pairs)[j].key = k)
           <=> (\E j \in DOMAIN pairs : pairs[j].key = k)
<1> DEFINE sorted == insertionSort(pairs)
<1>1. DOMAIN sorted = DOMAIN pairs
  BY PairKeys, SortType
<1>2. \A r \in DOMAIN pairs :
        /\ WithRank(pairs, r) \in DOMAIN pairs
        /\ sorted[r] = pairs[WithRank(pairs, r)]
  BY PairKeys, SortPermutes
<1>3. \A n \in DOMAIN pairs : \E r \in DOMAIN pairs : WithRank(pairs, r) = n
  BY PairKeys, SortPermutes
<1> HIDE DEF sorted
<1>4. ASSUME NEW j \in DOMAIN sorted, sorted[j].key = k
      PROVE  \E n \in DOMAIN pairs : pairs[n].key = k
  BY <1>1, <1>2, <1>4
<1>5. ASSUME NEW n \in DOMAIN pairs, pairs[n].key = k
      PROVE  \E j \in DOMAIN sorted : sorted[j].key = k
  <2>1. PICK r \in DOMAIN pairs : WithRank(pairs, r) = n
    BY <1>3
  <2> QED BY <1>1, <1>2, <1>5, <2>1
<1> QED BY <1>4, <1>5 DEF sorted

\* The last pair with a key comes last among the sorted ones too.
LEMMA LastIsWritten ==
  ASSUME NEW pairs \in Seq(Pair), NEW m \in DOMAIN pairs,
         \A l \in DOMAIN pairs :
           insertionSort(pairs)[l].key = insertionSort(pairs)[m].key => l <= m
  PROVE  Abstract!Written(pairs, insertionSort(pairs)[m].key)
           = insertionSort(pairs)[m].value
<1> DEFINE sorted == insertionSort(pairs)
           k == sorted[m].key
           w == WithRank(pairs, m)
           At == {j \in DOMAIN pairs : pairs[j].key = k}
<1>1. Len(pairs) \in Nat /\ DOMAIN pairs = 1 .. Len(pairs)
  OBVIOUS
<1>2. \A r \in DOMAIN pairs :
        /\ WithRank(pairs, r) \in DOMAIN pairs
        /\ sorted[r] = pairs[WithRank(pairs, r)]
  BY PairKeys, SortPermutes
<1>3. \A n \in DOMAIN pairs : \E r \in DOMAIN pairs : WithRank(pairs, r) = n
  BY PairKeys, SortPermutes
<1>4. w \in DOMAIN pairs /\ sorted[m] = pairs[w]
  BY <1>2
<1>5. ASSUME NEW n \in At PROVE n <= w
  <2>1. PICK r \in DOMAIN pairs : WithRank(pairs, r) = n
    BY <1>3
  <2>2. sorted[r] = pairs[n] /\ sorted[r].key = k
    BY <1>2, <2>1
  <2>3. r <= m
    BY <2>2
  <2>4. CASE r = m
    BY <1>1, <1>4, <2>1, <2>4
  <2>5. CASE r # m
    <3>1. r < m
      BY <1>1, <2>3, <2>5
    <3>2. r < m <=> WithRank(pairs, r) < WithRank(pairs, m)
      BY <2>2, PairKeys, SortStable
    <3> QED BY <1>1, <1>4, <2>1, <3>1, <3>2
  <2> QED BY <2>4, <2>5
<1>6. At \in SUBSET (1 .. Len(pairs)) /\ w \in At
  BY <1>1, <1>4
<1>7. (CHOOSE j \in At : \A l \in At : l <= j) = w
  <2> HIDE DEF At, w
  <2> QED BY <1>1, <1>5, <1>6, LastAt
<1>8. Abstract!Written(pairs, k) = pairs[CHOOSE j \in At : \A l \in At : l <= j].value
  BY DEF Abstract!Written
<1> QED BY <1>4, <1>7, <1>8

LEMMA WriteIsAtomic ==
  ASSUME RInv, RInv', NEW t \in Thread, ThreadStep(t),
         LockSlot(t) \/ SkipSlot(t), pc'[t] = "apply", Opcode(t) = "WRITE"
  PROVE  Abstract!Next
<1> DEFINE f == file[t]
           P == Current(t).pairs
           N == Len(Pairs(t))
           named(k) == \E j \in DOMAIN P : P[j].key = k
<1>0. PlainFacts
  BY FactsHold DEF Facts
<1>1. /\ pc[t] = "lock" /\ file' = file /\ out' = out /\ offset' = offset
      /\ backups' = backups /\ running' = running
      /\ NotYet(t) /\ ~NotYet(t)' /\ f \in File
      /\ Pairs(t)' = Pairs(t) /\ Opcode(t)' = Opcode(t)
      /\ Opcode(t) = Current(t).op
      /\ Pairs(t) = insertionSort(P) /\ P \in Seq(Pair)
      /\ N \in Nat /\ DOMAIN Pairs(t) = 1 .. N /\ DOMAIN P = 1 .. N
      /\ Pending(t)' = 1 .. N
  BY LastLock
<1>2. /\ Abstract!Takes(f, "WRITE") /\ Abstract!Pairs(f) = P
  BY <1>1, TakesIt DEF Idle
<1>3. AbstractOut' = AbstractOut
  <2>1. OutOf(t) = out[f]
    BY <1>0, <1>1 DEF PlainFacts, InShow
  <2>2. PrintsLater(t)' = << >>
    BY <1>1 DEF PrintsLater
  <2>3. OutOf(t)' = out[f] \o << >>
    BY <1>1, <2>2 DEF OutOf, InShow
  <2>4. out[f] \o << >> = out[f]
    BY <1>1, OutType DEF RInv, IInv
  <2>5. /\ AbstractOut = [AbstractOut EXCEPT ![f] = OutOf(t)]
        /\ AbstractOut' = [AbstractOut EXCEPT ![f] = OutOf(t)']
    BY <1>1, OwnMoves
  <2> QED BY <2>1, <2>3, <2>4, <2>5
<1>4. ASSUME NEW k \in Key
      PROVE  AbstractStore'[k] = IF named(k) THEN Abstract!Written(P, k)
                                 ELSE AbstractStore[k]
  <2>1. Mutates(t)
    BY DEF Mutates
  <2>2. named(k) <=> \E j \in 1 .. N : Pairs(t)[j].key = k
    <3>1. P \in Seq(Pair)
      BY <1>1
    <3>2. (\E j \in DOMAIN insertionSort(P) : insertionSort(P)[j].key = k)
            <=> named(k)
      BY <3>1, SortedKeys
    <3>3. Pairs(t) = insertionSort(P) /\ DOMAIN Pairs(t) = 1 .. N
      BY <1>1
    <3> HIDE DEF named
    <3> QED BY <3>2, <3>3
  <2>3. AbstractStore'[k] = IF named(k) THEN LaterValue(t, k)' ELSE AbstractStore[k]
    BY <2>1, <2>2, LastLockStore
  <2>4. ASSUME named(k) PROVE LaterValue(t, k)' = Abstract!Written(P, k)
    <3> DEFINE At == {j \in 1 .. N : Pairs(t)[j].key = k}
    <3>1. LaterValue(t, k)' = Pairs(t)[CHOOSE j \in At : \A l \in At : l <= j].value
      BY <1>1 DEF LaterValue
    <3>2. At \in SUBSET (1 .. N) /\ At # {}
      BY <2>2, <2>4
    <3>3. PICK m \in At : \A l \in At : l <= m
      BY <1>1, <3>2, GreatestNumber
    <3>4. (CHOOSE j \in At : \A l \in At : l <= j) = m
      <4> HIDE DEF At
      <4> QED BY <1>1, <3>2, <3>3, LastAt
    <3>5. m \in DOMAIN P /\ insertionSort(P)[m].key = k
      BY <1>1, <3>3
    <3>6. \A l \in DOMAIN P : insertionSort(P)[l].key = k => l <= m
      BY <1>1, <3>3
    <3>7. Abstract!Written(P, k) = insertionSort(P)[m].value
      BY <1>1, <3>5, <3>6, LastIsWritten
    <3> QED BY <1>1, <3>1, <3>4, <3>7
  <2> QED BY <2>3, <2>4
<1>5. AbstractStore' = [k \in Key |-> AbstractStore'[k]]
  BY DEF AbstractStore
<1>6. AbstractBackups' = AbstractBackups
  BY <1>1, BackupsKept
<1>7. AbstractStore' = [k \in Key |->
                          IF named(k) THEN Abstract!Written(P, k)
                          ELSE AbstractStore[k]]
  <2> HIDE DEF AbstractStore, named
  <2> QED BY <1>4, <1>5
<1>8. Abstract!Write(f)
  BY <1>2, <1>3, <1>6, <1>7 DEF Abstract!Write
<1> QED BY <1>1, <1>8 DEF Abstract!Next

LEMMA ReadIsAtomic ==
  ASSUME RInv, RInv', NEW t \in Thread, ThreadStep(t),
         LockSlot(t) \/ SkipSlot(t), pc'[t] = "apply", Opcode(t) = "READ"
  PROVE  Abstract!Next
<1> DEFINE f == file[t]
           P == Current(t).pairs
           N == Len(Pairs(t))
           value(k) == read_pair(table, k)
           answers == [j \in DOMAIN P |-> EntryOf(t, P[j].key, AbstractStore[P[j].key])]
           p == [j \in 1 .. N |-> WithRank(P, j)]
           a == [j \in DOMAIN answers |-> answers[p[j]]]
<1>0. PlainFacts /\ IInv
  BY FactsHold DEF Facts, RInv
<1>1. /\ pc[t] = "lock" /\ file' = file /\ table' = table /\ out' = out
      /\ offset' = offset /\ backups' = backups /\ running' = running
      /\ NotYet(t) /\ ~NotYet(t)' /\ f \in File
      /\ i'[t] = 1 /\ Pairs(t)' = Pairs(t) /\ Opcode(t)' = Opcode(t)
      /\ Opcode(t) = Current(t).op
      /\ Pairs(t) = insertionSort(P) /\ P \in Seq(Pair)
      /\ N \in Nat /\ DOMAIN Pairs(t) = 1 .. N /\ DOMAIN P = 1 .. N
      /\ \A j \in 1 .. N : Pairs(t)[j].key \in Key
  BY LastLock
<1>2. /\ Abstract!Takes(f, "READ") /\ Abstract!Pairs(f) = P
      /\ \A k, v : Abstract!Answer(f, k, v) = EntryOf(t, k, v)
  BY <1>1, TakesIt DEF Idle
<1>3. ASSUME NEW j \in 1 .. N
      PROVE  /\ p[j] \in 1 .. N /\ Pairs(t)[j] = P[p[j]]
             /\ AbstractStore[P[p[j]].key] = value(Pairs(t)[j].key)
  <2>1. WithRank(P, j) \in DOMAIN P /\ insertionSort(P)[j] = P[WithRank(P, j)]
    BY <1>1, PairKeys, SortPermutes
  <2>2. AbstractStore[Pairs(t)[j].key] = value(Pairs(t)[j].key)
    BY LastLockStore
  <2> QED BY <1>1, <2>1, <2>2
<1>4. p \in Abstract!Permutations(N)
  <2>1. p \in [1 .. N -> 1 .. N]
    BY <1>3
  <2>2. \A j, l \in DOMAIN P : WithRank(P, j) = WithRank(P, l) => j = l
    BY <1>1, PairKeys, SortPermutes
  <2>3. \A j, l \in 1 .. N : p[j] = p[l] => j = l
    BY <1>1, <2>2
  <2> HIDE DEF p
  <2> QED BY <2>1, <2>3 DEF Abstract!Permutations
<1>5. DOMAIN answers = 1 .. N /\ Len(answers) = N
  BY <1>1
<1>6. a \in Abstract!Arrangements(answers)
  <2> HIDE DEF p, answers
  <2> QED BY <1>4, <1>5 DEF Abstract!Arrangements
<1>7. a = [j \in 1 .. N |-> EntryOf(t, Pairs(t)[j].key, value(Pairs(t)[j].key))]
  <2>1. ASSUME NEW j \in 1 .. N
        PROVE  answers[p[j]] = EntryOf(t, Pairs(t)[j].key, value(Pairs(t)[j].key))
    <3>1. p[j] \in 1 .. N /\ Pairs(t)[j] = P[p[j]]
          /\ AbstractStore[P[p[j]].key] = value(Pairs(t)[j].key)
      BY <1>3
    <3> HIDE DEF p, value
    <3>2. answers[p[j]] = EntryOf(t, P[p[j]].key, AbstractStore[P[p[j]].key])
      BY <1>1, <3>1
    <3> QED BY <3>1, <3>2
  <2> HIDE DEF p, value, answers
  <2> QED BY <1>5, <2>1
<1>8. PrintsLater(t)' = a
  <2>1. PrintsLater(t)' = ReadsLater(t)'
    BY <1>1 DEF PrintsLater
  <2>2. ReadsLater(t)' =
          [j \in 1 .. N - 1 + 1 |->
             EntryOf(t, Pairs(t)[1 + j - 1].key, value(Pairs(t)[1 + j - 1].key))]
    BY <1>1 DEF ReadsLater, EntryOf
  <2>3. N - 1 + 1 = N /\ \A j \in 1 .. N : 1 + j - 1 = j
    BY <1>1
  <2> HIDE DEF value, a
  <2> QED BY <1>7, <2>1, <2>2, <2>3
<1>9. OutOf(t) = out[f] /\ OutOf(t)' = out[f] \o a
  <2>1. OutOf(t) = out[f]
    BY <1>0, <1>1 DEF PlainFacts, InShow
  <2>2. OutOf(t)' = out[f] \o PrintsLater(t)'
    BY <1>1 DEF OutOf, InShow
  <2> QED BY <1>8, <2>1, <2>2
<1>10. AbstractOut' = [AbstractOut EXCEPT ![f] = AbstractOut[f] \o a]
  <2>1. /\ AbstractOut' = [AbstractOut EXCEPT ![f] = OutOf(t)']
        /\ AbstractOut[f] = OutOf(t)
    BY <1>1, OwnMoves
  <2> QED BY <1>9, <2>1
<1>11. AbstractStore' = AbstractStore
  <2>1. \A k \in Key : AbstractStore'[k] = AbstractStore[k]
    <3>1. ~Mutates(t)
      BY DEF Mutates
    <3> QED BY <3>1, LastLockStore
  <2>2. /\ AbstractStore = [k \in Key |-> AbstractStore[k]]
        /\ AbstractStore' = [k \in Key |-> AbstractStore'[k]]
    BY DEF AbstractStore
  <2> HIDE DEF AbstractStore
  <2> QED BY <2>1, <2>2
<1>12. AbstractBackups' = AbstractBackups
  BY <1>1, BackupsKept
<1>13. Abstract!Prints(f, answers)
  <2> HIDE DEF a, answers, AbstractOut
  <2> QED BY <1>6, <1>10 DEF Abstract!Prints
<1>14. Abstract!Read(f)
  <2>1. answers = [j \in DOMAIN P |->
                     Abstract!Answer(f, P[j].key, AbstractStore[P[j].key])]
    BY <1>2
  <2> QED BY <1>2, <1>11, <1>12, <1>13, <2>1 DEF Abstract!Read
<1> QED BY <1>1, <1>14 DEF Abstract!Next

\* AtomicKVS has its own copy of Cardinality.
LEMMA SameCardinality ==
  ASSUME NEW S PROVE Abstract!Cardinality(S) = Cardinality(S)
BY DEF Abstract!Cardinality, Cardinality

\* The keys that DELETE will report are those missing at its instant.
LEMMA DeleteIsAtomic ==
  ASSUME RInv, RInv', NEW t \in Thread, ThreadStep(t),
         LockSlot(t) \/ SkipSlot(t), pc'[t] = "apply", Opcode(t) = "DELETE"
  PROVE  Abstract!Next
<1> DEFINE f == file[t]
           P == Current(t).pairs
           N == Len(Pairs(t))
           G == Gone(t)'
           gone == {j \in DOMAIN P : Abstract!Missing(P, j)}
           g == [r \in G |-> WithRank(P, r)]
           at == [n \in 1 .. Cardinality(gone) |-> WithRank(P, Nth(G, n))]
           named(k) == \E j \in DOMAIN P : P[j].key = k
<1>0. PlainFacts /\ IInv
  BY FactsHold DEF Facts, RInv
<1>1. /\ pc[t] = "lock" /\ file' = file /\ table' = table /\ out' = out
      /\ offset' = offset /\ backups' = backups /\ running' = running
      /\ NotYet(t) /\ ~NotYet(t)' /\ f \in File
      /\ i'[t] = 1 /\ Pairs(t)' = Pairs(t) /\ Opcode(t)' = Opcode(t)
      /\ Opcode(t) = Current(t).op
      /\ Pairs(t) = insertionSort(P) /\ P \in Seq(Pair)
      /\ N \in Nat /\ DOMAIN Pairs(t) = 1 .. N /\ DOMAIN P = 1 .. N
      /\ \A j \in 1 .. N : Pairs(t)[j].key \in Key
      /\ Pending(t)' = 1 .. N
  BY LastLock
<1>2. /\ Abstract!Takes(f, "DELETE") /\ Abstract!Pairs(f) = P
      /\ \A k, v : Abstract!Answer(f, k, v) = EntryOf(t, k, v)
  BY <1>1, TakesIt DEF Idle
<1>3. /\ \A r \in 1 .. N : WithRank(P, r) \in 1 .. N
                           /\ Pairs(t)[r] = P[WithRank(P, r)]
      /\ \A q, r \in 1 .. N : WithRank(P, q) = WithRank(P, r) => q = r
      /\ \A n \in 1 .. N : \E r \in 1 .. N : WithRank(P, r) = n
  <2>1. \A r \in DOMAIN P : /\ WithRank(P, r) \in DOMAIN P
                            /\ insertionSort(P)[r] = P[WithRank(P, r)]
    BY <1>1, PairKeys, SortPermutes
  <2>2. \A q, r \in DOMAIN P : WithRank(P, q) = WithRank(P, r) => q = r
    BY <1>1, PairKeys, SortPermutes
  <2>3. \A n \in DOMAIN P : \E r \in DOMAIN P : WithRank(P, r) = n
    BY <1>1, PairKeys, SortPermutes
  <2>4. \A r \in 1 .. N : WithRank(P, r) \in 1 .. N /\ Pairs(t)[r] = P[WithRank(P, r)]
    BY <1>1, <2>1
  <2>5. \A n \in 1 .. N : \E r \in 1 .. N : WithRank(P, r) = n
    BY <1>1, <2>3
  <2>6. \A q, r \in 1 .. N : WithRank(P, q) = WithRank(P, r) => q = r
    BY <1>1, <2>2
  <2> QED BY <2>4, <2>5, <2>6
<1>4. \A q, r \in 1 .. N : Pairs(t)[q].key = Pairs(t)[r].key =>
        (q < r <=> WithRank(P, q) < WithRank(P, r))
  <2>1. \A q, r \in DOMAIN P : insertionSort(P)[q].key = insertionSort(P)[r].key =>
          (q < r <=> WithRank(P, q) < WithRank(P, r))
    BY <1>1, PairKeys, SortStable
  <2> QED BY <1>1, <2>1
<1>5. G \in SUBSET (1 .. N)
  BY <1>1 DEF Gone
<1>6. ASSUME NEW r \in 1 .. N PROVE r \in G <=> WithRank(P, r) \in gone
  <2>1. r \in G <=> \/ read_pair(table, Pairs(t)[r].key) = NULL
                    \/ \E l \in 1 .. r - 1 : Pairs(t)[l].key = Pairs(t)[r].key
    BY <1>1 DEF Gone
  <2>2. PICK w \in 1 .. N : w = WithRank(P, r)
    BY <1>3
  <2>3. Pairs(t)[r] = P[w]
    BY <1>3, <2>2
  <2>4. AbstractStore[P[w].key] = read_pair(table, P[w].key)
    BY <2>3, LastLockStore
  <2>5. w \in gone <=> \/ AbstractStore[P[w].key] = NULL
                       \/ \E l \in 1 .. w - 1 : P[l].key = P[w].key
    BY <1>1, <2>2 DEF Abstract!Missing
  <2>6. (\E l \in 1 .. r - 1 : Pairs(t)[l].key = Pairs(t)[r].key)
          <=> \E l \in 1 .. w - 1 : P[l].key = P[w].key
    <3>1. ASSUME NEW l \in 1 .. r - 1, Pairs(t)[l].key = Pairs(t)[r].key
          PROVE  \E n \in 1 .. w - 1 : P[n].key = P[w].key
      <4>1. l \in 1 .. N /\ l < r
        BY <1>1
      <4>2. PICK n \in 1 .. N : n = WithRank(P, l)
        BY <1>3, <4>1
      <4>3. n < w
        BY <1>4, <2>2, <3>1, <4>1, <4>2
      <4>4. P[n].key = P[w].key
        BY <1>3, <2>3, <3>1, <4>1, <4>2
      <4>5. n \in 1 .. w - 1
        BY <4>3
      <4> QED BY <4>4, <4>5
    <3>2. ASSUME NEW n \in 1 .. w - 1, P[n].key = P[w].key
          PROVE  \E l \in 1 .. r - 1 : Pairs(t)[l].key = Pairs(t)[r].key
      <4>1. n \in 1 .. N /\ n < w
        BY <1>1
      <4>2. PICK l \in 1 .. N : WithRank(P, l) = n
        BY <1>3, <4>1
      <4>3. Pairs(t)[l].key = Pairs(t)[r].key
        BY <1>3, <2>3, <3>2, <4>2
      <4>4. l < r
        BY <1>4, <2>2, <4>1, <4>2, <4>3
      <4>5. l \in 1 .. r - 1
        BY <4>4
      <4> QED BY <4>3, <4>5
    <3> QED BY <3>1, <3>2
  <2> HIDE DEF G, gone
  <2> QED BY <2>1, <2>2, <2>3, <2>4, <2>5, <2>6
<1>7. gone \in SUBSET (1 .. N)
  BY <1>1
<1>8. IsFiniteSet(G) /\ G \in SUBSET Nat
  <2>1. 1 \in Int /\ N \in Int /\ 1 .. N \in SUBSET Nat
    BY <1>1
  <2>2. IsFiniteSet(1 .. N)
    BY <2>1, FS_Interval
  <2> HIDE DEF G
  <2> QED BY <1>5, <2>1, <2>2, FS_Subset
<1>9. Cardinality(gone) = Cardinality(G)
  <2> HIDE DEF G, gone
  <2>1. g \in [G -> gone]
    BY <1>5, <1>6
  <2>2. \A x, y \in G : g[x] = g[y] => x = y
    BY <1>3, <1>5
  <2>3. \A z \in gone : \E x \in G : g[x] = z
    <3> SUFFICES ASSUME NEW z \in gone PROVE \E x \in G : g[x] = z
      OBVIOUS
    <3>1. PICK r \in 1 .. N : WithRank(P, r) = z
      BY <1>3, <1>7
    <3>2. r \in G
      BY <1>6, <3>1
    <3> QED BY <3>1, <3>2
  <2> HIDE DEF g
  <2> QED BY <1>8, <2>1, <2>2, <2>3, SameNumber
<1>10. ASSUME NEW n \in 1 .. Cardinality(gone)
       PROVE  /\ Nth(G, n) \in G /\ UpTo(G, Nth(G, n)) = n
              /\ at[n] = WithRank(P, Nth(G, n)) /\ at[n] \in gone
              /\ P[at[n]] = Pairs(t)[Nth(G, n)]
  <2> HIDE DEF G, gone
  <2>1. Nth(G, n) \in G /\ UpTo(G, Nth(G, n)) = n
    <3>1. n \in 1 .. Cardinality(G)
      BY <1>9
    <3> QED BY <1>8, <3>1, NthFound
  <2> QED BY <1>3, <1>5, <1>6, <2>1
<1>11. at \in [1 .. Cardinality(gone) -> gone]
  <2> HIDE DEF G, gone
  <2> QED BY <1>10
<1>12. \A j, l \in DOMAIN at : at[j] = at[l] => j = l
  <2> SUFFICES ASSUME NEW j \in 1 .. Cardinality(gone),
                      NEW l \in 1 .. Cardinality(gone), at[j] = at[l]
               PROVE  j = l
    OBVIOUS
  <2>1. WithRank(P, Nth(G, j)) = WithRank(P, Nth(G, l))
    BY <1>10
  <2>2. Nth(G, j) \in 1 .. N /\ Nth(G, l) \in 1 .. N
    BY <1>5, <1>10
  <2>3. Nth(G, j) = Nth(G, l)
    BY <1>3, <2>1, <2>2
  <2>4. UpTo(G, Nth(G, j)) = j /\ UpTo(G, Nth(G, l)) = l
    BY <1>10
  <2> QED BY <2>3, <2>4
<1>13. PrintsLater(t)' = [n \in DOMAIN at |-> EntryOf(t, P[at[n]].key, NULL)]
  <2>1. PrintsLater(t)' = MissesLater(t)'
    BY <1>1 DEF PrintsLater
  <2>2. MissesLater(t)' = [n \in 1 .. Cardinality(G) |->
                             EntryOf(t, Pairs(t)[Nth(G, n)].key, NULL)]
    BY <1>1 DEF MissesLater, EntryOf, Nth
  <2> HIDE DEF G, gone
  <2>3. DOMAIN at = 1 .. Cardinality(G)
    BY <1>9
  <2>4. \A n \in 1 .. Cardinality(G) : P[at[n]] = Pairs(t)[Nth(G, n)]
    BY <1>9, <1>10
  <2> HIDE DEF at
  <2> QED BY <2>1, <2>2, <2>3, <2>4
<1> HIDE DEF at, G, gone
<1>14. AbstractOut' = [AbstractOut EXCEPT ![f] =
         AbstractOut[f] \o [n \in DOMAIN at |-> Abstract!Answer(f, P[at[n]].key, NULL)]]
  <2>1. OutOf(t) = out[f]
    BY <1>0, <1>1 DEF PlainFacts, InShow
  <2>2. OutOf(t)' = out[f] \o PrintsLater(t)'
    BY <1>1 DEF OutOf, InShow
  <2>3. /\ AbstractOut' = [AbstractOut EXCEPT ![f] = OutOf(t)']
        /\ AbstractOut[f] = OutOf(t)
    BY <1>1, OwnMoves
  <2>4. PrintsLater(t)' =
          [n \in DOMAIN at |-> Abstract!Answer(f, P[at[n]].key, NULL)]
    BY <1>2, <1>13
  <2> HIDE DEF AbstractOut
  <2> QED BY <2>1, <2>2, <2>3, <2>4
<1>15. AbstractStore' = [k \in Key |-> IF named(k) THEN NULL ELSE AbstractStore[k]]
  <2>1. ASSUME NEW k \in Key
        PROVE  AbstractStore'[k] = IF named(k) THEN NULL ELSE AbstractStore[k]
    <3>1. Mutates(t)
      BY DEF Mutates
    <3>2. named(k) <=> \E j \in 1 .. N : Pairs(t)[j].key = k
      <4>1. P \in Seq(Pair)
        BY <1>1
      <4>2. (\E j \in DOMAIN insertionSort(P) : insertionSort(P)[j].key = k)
              <=> named(k)
        BY <4>1, SortedKeys
      <4>3. Pairs(t) = insertionSort(P) /\ DOMAIN Pairs(t) = 1 .. N
        BY <1>1
      <4> HIDE DEF named
      <4> QED BY <4>2, <4>3
    <3>3. LaterValue(t, k)' = NULL
      BY <1>1 DEF LaterValue
    <3> QED BY <3>1, <3>2, <3>3, LastLockStore
  <2>2. AbstractStore' = [k \in Key |-> AbstractStore'[k]]
    BY DEF AbstractStore
  <2> HIDE DEF AbstractStore, named
  <2> QED BY <2>1, <2>2
<1>16. AbstractBackups' = AbstractBackups
  BY <1>1, BackupsKept
<1>17. Abstract!Delete(f)
  <2> HIDE DEF AbstractOut, AbstractStore
  <2>1. gone = {j \in DOMAIN Abstract!Pairs(f) : Abstract!Missing(Abstract!Pairs(f), j)}
    BY <1>2 DEF gone
  <2>2. Abstract!Cardinality(gone) = Cardinality(gone)
    BY SameCardinality
  <2>3. AbstractOut' = [AbstractOut EXCEPT ![f] =
          AbstractOut[f] \o [j \in DOMAIN at |->
            Abstract!Answer(f, Abstract!Pairs(f)[at[j]].key, NULL)]]
    BY <1>2, <1>14
  <2>4. AbstractStore' = [k \in Key |->
          IF \E j \in DOMAIN Abstract!Pairs(f) : Abstract!Pairs(f)[j].key = k
          THEN NULL ELSE AbstractStore[k]]
    BY <1>2, <1>15
  <2>5. Abstract!Takes(f, "DELETE")
    BY <1>2
  <2> QED BY <1>11, <1>12, <1>16, <2>1, <2>2, <2>3, <2>4, <2>5 DEF Abstract!Delete
<1> QED BY <1>1, <1>17 DEF Abstract!Next

\* A SHOW that ends has printed the store, if it has kept writers out.
LEMMA ShowIsAtomic ==
  ASSUME RInv, RInv', NEW t \in Thread, ThreadStep(t), ShowEnd(t)
  PROVE  Abstract!Next
<1> DEFINE f == file[t]
           n == Settled(f)
           L == Len(out[f])
           before == SubSeq(out[f], 1, n)
           at == [j \in 1 .. L - n |-> out[f][n + j].key]
<1>0. /\ IInv /\ IInv' /\ FilesHandedOutOnce /\ Printed /\ ShowsOf(t)
      /\ SettledFacts /\ StoreFacts /\ PlainFacts'
  BY FactsHold, FactsNext DEF RInv, Facts, ShowsRight
<1>1. /\ pc[t] = "showslot" /\ pc'[t] = "command" /\ i[t] = TABLE_SIZE
      /\ file' = file /\ table' = table /\ out' = out /\ offset' = offset
      /\ backups' = backups /\ running' = running
  BY <1>0 DEF ShowEnd, local, jobs, backing, GoTo, IInv, TypeOK
<1>2. /\ f \in File /\ offset[f] \in Nat \ {0} /\ IssuedOf(t)
  BY <1>1, AtCurrent DEF Idle
<1>3. Current(t).op = "SHOW"
  BY <1>1, <1>2 DEF IssuedOf, InShow
<1>4. /\ NotYet(t) /\ ~NotYet(t)'
  BY <1>1 DEF NotYet, InShow, BeforeFork
<1>5. /\ Abstract!Takes(f, "SHOW") /\ AbstractDone[f] + 1 = offset[f]
      /\ \A k, v : Abstract!Answer(f, k, v) = EntryOf(t, k, v)
  BY <1>1, <1>3, <1>4, TakesIt DEF Idle
<1>6. AbstractStore' = AbstractStore /\ AbstractBackups' = AbstractBackups
  BY <1>1, StoreOfKept, StoreKept, BackupsKept
<1>7. /\ out[f] \in Seq(Entry) /\ L \in Nat /\ DOMAIN out[f] = 1 .. L
      /\ \A m \in DOMAIN out[f] : out[f][m] \in Entry /\ out[f][m].at \in Nat
  BY <1>0, <1>2, OutType DEF IInv
<1>8. /\ n \in 0 .. L
      /\ \A m \in DOMAIN out[f] : m <= n <=> out[f][m].at < offset[f]
  BY <1>0, <1>2 DEF SettledFacts
<1>9. \A m \in 1 .. L : n < m <=> out[f][m].at = offset[f]
  <2>1. \A m \in DOMAIN out[f] : out[f][m].at <= offset[f]
    BY <1>0, <1>2 DEF Printed
  <2> HIDE DEF n
  <2> QED BY <1>2, <1>7, <1>8, <2>1
<1>10. /\ before \in Seq(Entry) /\ Len(before) = n
       /\ \A m \in 1 .. n : before[m] = out[f][m]
  <2>1. n \in Nat /\ \A m \in 1 .. n : out[f][m] \in Entry
    BY <1>7, <1>8
  <2> HIDE DEF n
  <2>2. /\ Len(before) = IF 1 <= n THEN n - 1 + 1 ELSE 0
        /\ \A m \in 1 .. n - 1 + 1 : before[m] = out[f][1 + m - 1]
    BY <2>1, SubSeqProperties
  <2>3. before \in Seq(Entry)
    BY <2>1, SubSeqProperties
  <2> QED BY <2>1, <2>2, <2>3
<1>11. OutOf(t) = before /\ OutOf(t)' = out[f]
  BY <1>0, <1>1, <1>2 DEF OutOf, InShow, PlainFacts
<1>12. /\ AbstractOut[f] = before /\ AbstractOut'[f] = out[f]
       /\ AbstractOut' = [AbstractOut EXCEPT ![f] = out[f]]
  <2>1. /\ AbstractOut' = [AbstractOut EXCEPT ![f] = OutOf(t)']
        /\ AbstractOut[f] = OutOf(t)
    BY <1>1, <1>2, OwnMoves
  <2>2. AbstractOut = [g \in File |-> AbstractOut[g]]
    BY DEF AbstractOut
  <2> HIDE DEF AbstractOut
  <2> QED BY <1>2, <1>11, <2>1, <2>2
<1>13. CASE ~UseRwlock
  <2>1. Abstract!PrintsAnything(f)
    <3>1. Len(AbstractOut'[f]) >= Len(AbstractOut[f])
      BY <1>7, <1>8, <1>10, <1>12
    <3>2. ASSUME NEW m \in DOMAIN out[f]
          PROVE  IF m <= Len(before) THEN out[f][m] = before[m]
                 ELSE out[f][m].at = offset[f]
      <4>1. m \in 1 .. L /\ (m <= n \/ n < m)
        BY <1>7, <1>8
      <4> HIDE DEF n, before
      <4> QED BY <1>8, <1>9, <1>10, <4>1
    <3> HIDE DEF AbstractOut, AbstractDone, before
    <3>3. \A m \in DOMAIN AbstractOut'[f] :
            IF m <= Len(AbstractOut[f]) THEN AbstractOut'[f][m] = AbstractOut[f][m]
            ELSE AbstractOut'[f][m].at = AbstractDone[f] + 1
      BY <1>5, <1>12, <3>2
    <3> QED BY <1>12, <3>1, <3>3 DEF Abstract!PrintsAnything
  <2>2. Abstract!Show(f)
    BY <1>5, <1>6, <1>13, <2>1 DEF Abstract!Show
  <2> QED BY <1>2, <2>2 DEF Abstract!Next
<1>14. CASE UseRwlock
  <2> DEFINE Present == {k \in Key : AbstractStore[k] # NULL}
  <2>1. \A k \in Key : AbstractStore[k] = read_pair(table, k)
    <3>1. ASSUME NEW u \in Thread PROVE ~TableReader(u)
      BY <1>0, <1>1, <1>14, WriterOfTable DEF TableWriter
    <3>2. ASSUME NEW u \in Thread, NEW k \in Key PROVE ~ChangedLater(u, k)
      BY <3>1 DEF TableReader, ChangedLater, Pending, Locking
    <3> QED BY <1>0, <3>2 DEF StoreFacts
  <2>2. \A m \in 1 .. L : m \in Shown(t) <=> n < m
    BY <1>7, <1>9 DEF Shown
  <2>3. \A k \in Key : Passed(t, k)
    <3>1. \A k \in Key : hash(k) \in Slot
      BY HashType
    <3>2. \A s \in Slot : s < TABLE_SIZE
      BY TableAssumption DEF Slot
    <3> QED BY <1>1, <3>1, <3>2 DEF Passed
  <2>4. /\ \A m \in Shown(t) :
             /\ out[f][m].key \in Key /\ out[f][m].value # NULL
             /\ out[f][m].value = read_pair(table, out[f][m].key)
             /\ \A l \in Shown(t) : out[f][l].key = out[f][m].key => l = m
        /\ \A k \in Key : read_pair(table, k) # NULL =>
             \E m \in Shown(t) : out[f][m].key = k
    BY <1>0, <1>1, <1>14, <2>3 DEF ShowsOf, InShow
  <2>5. ASSUME NEW j \in 1 .. L - n
        PROVE  /\ n + j \in Shown(t) /\ n + j \in 1 .. L
               /\ at[j] = out[f][n + j].key /\ at[j] \in Present
               /\ out[f][n + j] = EntryOf(t, at[j], AbstractStore[at[j]])
    <3>1. n + j \in 1 .. L /\ n < n + j
      BY <1>7, <1>8
    <3> HIDE DEF n
    <3>2. n + j \in Shown(t)
      BY <2>2, <3>1
    <3>3. out[f][n + j].key \in Key /\ AbstractStore[out[f][n + j].key] # NULL
          /\ AbstractStore[out[f][n + j].key] = out[f][n + j].value
      BY <2>1, <2>4, <3>2
    <3>4. out[f][n + j].at = offset[f]
      BY <1>9, <3>1
    <3>5. out[f][n + j] \in Entry
      BY <1>7, <3>1
    <3>6. out[f][n + j] = [at    |-> out[f][n + j].at,
                           key   |-> out[f][n + j].key,
                           value |-> out[f][n + j].value]
      BY <3>5 DEF Entry
    <3>7. out[f][n + j] = EntryOf(t, out[f][n + j].key,
                                  AbstractStore[out[f][n + j].key])
      BY <3>3, <3>4, <3>6 DEF EntryOf
    <3> QED BY <3>1, <3>2, <3>3, <3>7
  <2>6. at \in [1 .. L - n -> Present]
    <3> HIDE DEF n, Present
    <3> QED BY <2>5
  <2>7. \A j, l \in 1 .. L - n : at[j] = at[l] => j = l
    <3> SUFFICES ASSUME NEW j \in 1 .. L - n, NEW l \in 1 .. L - n, at[j] = at[l]
                 PROVE  j = l
      OBVIOUS
    <3> HIDE DEF n, Present
    <3>1. n + j \in Shown(t) /\ n + l \in Shown(t)
          /\ out[f][n + j].key = out[f][n + l].key
      BY <2>5
    <3>2. n + j = n + l
      BY <2>4, <3>1
    <3> QED BY <1>8, <3>2
  <2>8. \A k \in Present : \E j \in 1 .. L - n : at[j] = k
    <3> SUFFICES ASSUME NEW k \in Present PROVE \E j \in 1 .. L - n : at[j] = k
      OBVIOUS
    <3>1. PICK m \in Shown(t) : out[f][m].key = k
      BY <2>1, <2>4
    <3>2. m \in 1 .. L
      BY <1>7 DEF Shown
    <3>3. n < m
      BY <2>2, <3>2
    <3>4. m - n \in 1 .. L - n /\ n + (m - n) = m
      BY <1>7, <1>8, <3>2, <3>3
    <3>5. at[m - n] = k
      BY <3>1, <3>4
    <3> QED BY <3>4, <3>5
  <2>9. Cardinality(Present) = L - n /\ L - n \in Nat
    <3>1. L - n \in Nat
      BY <1>7, <1>8
    <3>2. IsFiniteSet(1 .. L - n) /\ Cardinality(1 .. L - n) = L - n
      BY <3>1, FS_Interval
    <3> HIDE DEF at, n, Present
    <3> DEFINE I == 1 .. L - n
    <3>3. IsFiniteSet(I) /\ at \in [I -> Present]
      BY <2>6, <3>2
    <3>4. \A j, l \in I : at[j] = at[l] => j = l
      BY <2>7
    <3>5. \A k \in Present : \E j \in I : at[j] = k
      BY <2>8
    <3>6. Cardinality(I) = L - n
      BY <3>2
    <3> HIDE DEF I
    <3>7. Cardinality(Present) = Cardinality(I)
      BY <3>3, <3>4, <3>5, SameNumber
    <3> QED BY <3>1, <3>6, <3>7
  <2>10. out[f] = before \o [j \in DOMAIN at |->
                               Abstract!Answer(f, at[j], AbstractStore[at[j]])]
    <3> DEFINE shown == [j \in 1 .. L - n |-> out[f][n + j]]
    <3>1. [j \in DOMAIN at |-> Abstract!Answer(f, at[j], AbstractStore[at[j]])]
            = shown
      <4>1. \A j \in 1 .. L - n :
              Abstract!Answer(f, at[j], AbstractStore[at[j]]) = out[f][n + j]
        <5> HIDE DEF n
        <5> QED BY <1>5, <2>5
      <4>2. DOMAIN at = 1 .. L - n
        OBVIOUS
      <4> HIDE DEF at, n
      <4> QED BY <4>1, <4>2
    <3> HIDE DEF n, before
    <3>2. shown \in Seq(Entry) /\ Len(shown) = L - n
      <4>1. \A j \in 1 .. L - n : out[f][n + j] \in Entry
        BY <1>7, <2>5
      <4> QED BY <2>9, <4>1
    <3>3. /\ before \o shown \in Seq(Entry) /\ Len(before \o shown) = n + (L - n)
          /\ \A m \in 1 .. n + (L - n) :
               (before \o shown)[m] = IF m <= n THEN before[m] ELSE shown[m - n]
      <4>1. before \in Seq(Entry) /\ Len(before) = n
        BY <1>10
      <4> HIDE DEF shown
      <4>2. before \o shown \in Seq(Entry)
        BY <3>2, <4>1, ConcatProperties
      <4>3. Len(before \o shown) = n + (L - n)
        BY <3>2, <4>1, ConcatProperties
      <4>4. \A m \in 1 .. n + (L - n) :
              (before \o shown)[m] = IF m <= n THEN before[m] ELSE shown[m - n]
        BY <3>2, <4>1, ConcatProperties
      <4> QED BY <4>2, <4>3, <4>4
    <3>4. n + (L - n) = L /\ n \in 0 .. L
      BY <1>7, <1>8
    <3>5. ASSUME NEW m \in 1 .. L PROVE out[f][m] = (before \o shown)[m]
      <4>1. CASE m <= n
        BY <1>10, <3>3, <3>4, <4>1
      <4>2. CASE ~(m <= n)
        <5>1. m - n \in 1 .. L - n /\ n + (m - n) = m
          BY <1>7, <3>4, <4>2
        <5>2. (before \o shown)[m] = shown[m - n]
          BY <3>3, <3>4, <4>2
        <5> QED BY <5>1, <5>2
      <4> QED BY <4>1, <4>2
    <3>6. out[f] = before \o shown
      <4> HIDE DEF shown
      <4>1. Len(out[f]) = Len(before \o shown)
        BY <3>3, <3>4
      <4>2. before \o shown \in Seq(Entry)
        BY <3>3
      <4> QED BY <1>7, <3>5, <4>1, <4>2, SeqEqual
    <3> QED BY <3>1, <3>6
  <2>11. Abstract!Show(f)
    <3> DEFINE shown == [j \in DOMAIN at |->
                           Abstract!Answer(f, at[j], AbstractStore[at[j]])]
    <3>1. Abstract!Present = Present /\ Abstract!Cardinality(Present) = L - n
      BY <2>9, SameCardinality DEF Abstract!Present
    <3>2. AbstractOut' = [AbstractOut EXCEPT ![f] = AbstractOut[f] \o shown]
      BY <1>12, <2>10
    <3>3. at \in [1 .. Abstract!Cardinality(Abstract!Present) -> Abstract!Present]
      BY <2>6, <3>1
    <3>4. \A j, l \in DOMAIN at : at[j] = at[l] => j = l
      BY <2>7
    <3> HIDE DEF at, AbstractOut, AbstractStore
    <3> QED BY <1>5, <1>6, <1>14, <3>2, <3>3, <3>4 DEF Abstract!Show
  <2> QED BY <1>2, <2>11 DEF Abstract!Next
<1> QED BY <1>13, <1>14, StoreAssumption

\* fork copies a table that no command is to change.
LEMMA ForkedTable ==
  ASSUME RInv, NEW t \in Thread, pc[t] = "fork"
  PROVE  \A k \in Key : AbstractStore[k] = read_pair(table, k)
<1>0. IInv /\ StoreFacts
  BY FactsHold DEF RInv, Facts
<1>1. ASSUME NEW u \in Thread, NEW k \in Key PROVE ~ChangedLater(u, k)
  <2>1. CASE u = t
    BY <2>1 DEF ChangedLater, Pending
  <2>2. CASE u # t
    <3> SUFFICES ASSUME ChangedLater(u, k) PROVE FALSE
      OBVIOUS
    <3>1. hash(k) \in WriteHeld(u) /\ hash(k) \in Slot
      BY <1>0, ChangesLocked
    <3>2. hash(k) \in ReadHeld(t)
      BY <3>1 DEF ReadHeld, Locking
    <3> QED BY <1>0, <2>2, <3>1, <3>2, WriterAlone
  <2> QED BY <2>1, <2>2
<1> QED BY <1>0, <1>1 DEF StoreFacts

LEMMA BackupIsAtomic ==
  ASSUME RInv, RInv', NEW t \in Thread, ThreadStep(t), Fork(t) \/ ForkFails(t)
  PROVE  Abstract!Next
<1> DEFINE f == file[t]
           n == Cardinality({j \in 1 .. AbstractDone[f] + 1 : files[f][j].op = "BACKUP"})
           contents == {<<k, AbstractStore[k]>> : k \in Abstract!Present}
           bck == [file |-> f, n |-> n, contents |-> contents]
           child == [file |-> f, n |-> total_backups[t] + 1, snapshot |-> table]
<1>0. IInv /\ IInv' /\ PlainFacts /\ PlainFacts' /\ CountedOf(t)
  BY FactsHold, FactsNext DEF RInv, Facts, Counted
<1>1. /\ pc[t] = "fork" /\ pc'[t] = "unlockall"
      /\ file' = file /\ table' = table /\ out' = out /\ offset' = offset
      /\ backups' = backups
  BY <1>0 DEF Fork, ForkFails, jobs, GoTo, IInv, TypeOK
<1>2. /\ f \in File /\ offset[f] \in Nat \ {0} /\ IssuedOf(t)
  BY <1>1, AtCurrent DEF Idle
<1>3. Current(t).op = "BACKUP"
  BY <1>1, <1>2 DEF IssuedOf, BeforeFork
<1>4. NotYet(t) /\ ~NotYet(t)'
  BY <1>1 DEF NotYet, InShow, BeforeFork
<1>5. Abstract!Takes(f, "BACKUP") /\ AbstractDone[f] + 1 = offset[f]
  BY <1>1, <1>3, <1>4, TakesIt DEF Idle
<1>6. AbstractStore' = AbstractStore
  BY <1>1, StoreOfKept, StoreKept
<1>7. AbstractOut' = AbstractOut
  <2>1. OutOf(t) = out[f] /\ OutOf(t)' = out[f]
    BY <1>0, <1>1, <1>2 DEF PlainFacts, InShow
  <2>2. /\ AbstractOut = [AbstractOut EXCEPT ![f] = OutOf(t)]
        /\ AbstractOut' = [AbstractOut EXCEPT ![f] = OutOf(t)']
    BY <1>1, <1>2, OwnMoves
  <2> QED BY <2>1, <2>2
<1>8. n = total_backups[t] + 1
  <2>1. f # NoFile
    BY <1>2, StoreAssumption DEF File
  <2>2. BackupsUpTo(f, offset[f]) = total_backups[t] + 1
    BY <1>0, <1>1, <2>1 DEF CountedOf, BeforeFork
  <2> HIDE DEF AbstractDone
  <2> QED BY <1>5, <2>2 DEF BackupsUpTo
<1>9. contents = Contents(table)
  <2>1. \A k \in Key : AbstractStore[k] = read_pair(table, k)
    BY <1>1, ForkedTable
  <2>2. Abstract!Present = {k \in Key : read_pair(table, k) # NULL}
    <3> HIDE DEF AbstractStore
    <3> QED BY <2>1 DEF Abstract!Present
  <2> DEFINE Here == {k \in Key : read_pair(table, k) # NULL}
  <2>3. \A k \in Here : AbstractStore[k] = read_pair(table, k)
    BY <2>1
  <2>4. {<<k, AbstractStore[k]>> : k \in Here} = {<<k, read_pair(table, k)>> : k \in Here}
    <3> HIDE DEF Here, AbstractStore
    <3> QED BY <2>3
  <2>5. contents = {<<k, AbstractStore[k]>> : k \in Here}
    BY <2>2
  <2>6. Contents(table) = {<<k, read_pair(table, k)>> : k \in Here}
    BY DEF Contents
  <2> QED BY <2>4, <2>5, <2>6
<1>10. \/ AbstractBackups' = AbstractBackups \cup {bck}
       \/ ForkMayFail /\ AbstractBackups' = AbstractBackups
  <2>1. CASE Fork(t)
    <3>1. running' = running \cup {child}
      BY <2>1 DEF Fork
    <3>2. FileOf(child) = bck
      BY <1>8, <1>9 DEF FileOf
    <3>3. AbstractBackups' = backups \cup {FileOf(c) : c \in running'}
      BY <1>1 DEF AbstractBackups, FileOf
    <3> HIDE DEF child, bck
    <3>4. {FileOf(c) : c \in running'} = {FileOf(c) : c \in running} \cup {FileOf(child)}
      BY <3>1
    <3>5. AbstractBackups' = AbstractBackups \cup {bck}
      BY <3>2, <3>3, <3>4 DEF AbstractBackups
    <3> QED BY <3>5
  <2>2. CASE ForkFails(t)
    <3>1. ForkMayFail /\ running' = running
      BY <2>2 DEF ForkFails
    <3> QED BY <1>1, <3>1, BackupsKept
  <2> QED BY <2>1, <2>2
<1>11. Abstract!Backup(f)
  <2>1. Abstract!Cardinality({j \in 1 .. AbstractDone[f] + 1 : files[f][j].op = "BACKUP"})
          = n
    BY SameCardinality
  <2> HIDE DEF n, AbstractDone, AbstractStore, AbstractOut, AbstractBackups
  <2>2. \/ AbstractBackups' = AbstractBackups \cup {bck}
        \/ ForkMayFail /\ AbstractBackups' = AbstractBackups
    BY <1>10
  <2> QED BY <1>5, <1>6, <1>7, <2>1, <2>2 DEF Abstract!Backup
<1> QED BY <1>2, <1>11 DEF Abstract!Next

-----------------------------------------------------------------------------
(* The engine implements AtomicKVS. *)

LEMMA ThreadStepIsAtomic ==
  ASSUME RInv, RInv', NEW t \in Thread, ThreadStep(t)
  PROVE  Abstract!Next \/ UNCHANGED Abstract!vars
<1>1. CASE TakesFiles(t) \/ EndOfFile(t)
  BY <1>1, FileStutters
<1>2. CASE StartKeyCommand(t) \/ StartShow(t) \/ StartBackup(t)
  BY <1>2, StartStutters
<1>3. CASE SkipCommand(t)
  BY <1>3, SkipIsAtomic
<1>4. CASE LockSlot(t) \/ SkipSlot(t)
  <2>1. CASE pc'[t] # "apply"
    BY <1>4, <2>1, LockStutters
  <2>2. CASE pc'[t] = "apply"
    <3>1. Opcode(t) \in KeyOps
      BY <1>4, <2>2, LastLock
    <3> QED BY <1>4, <2>2, <3>1, WriteIsAtomic, ReadIsAtomic, DeleteIsAtomic
            DEF KeyOps
  <2> QED BY <2>1, <2>2
<1>5. CASE \/ RdLockTable(t) \/ UnlockSlot(t) \/ UnlockTable(t)
           \/ LockBackups(t) \/ WaitChild(t) \/ WaitNone(t) \/ RdLockSlot(t)
           \/ UnlockAllSlots(t) \/ UnlockBackups(t)
  <2>1. pc'[t] # "apply"
    BY <1>5 DEF RdLockTable, UnlockSlot, UnlockTable, LockBackups, WaitChild,
                WaitNone, RdLockSlot, UnlockAllSlots, UnlockBackups, GoTo,
                RInv, IInv, TypeOK
  <2> QED BY <1>5, <2>1, LockStutters
<1>6. CASE WritePair(t)
  BY <1>6, WriteStutters
<1>7. CASE ReadPair(t)
  BY <1>7, ReadStutters
<1>8. CASE DeletePair(t)
  BY <1>8, DeleteStutters
<1>9. CASE \/ ShowLock(t) \/ ShowSlot(t) \/ ShowNode(t) \/ ShowNextSlot(t)
           \/ ShowTorn(t) \/ ShowFreed(t) \/ ShowCrash(t)
  BY <1>9, ShowStutters
<1>10. CASE ShowEnd(t)
  BY <1>10, ShowIsAtomic
<1>11. CASE Fork(t) \/ ForkFails(t)
  BY <1>11, BackupIsAtomic
<1> QED BY <1>1, <1>2, <1>3, <1>4, <1>5, <1>6, <1>7, <1>8, <1>9, <1>10, <1>11
        DEF ThreadStep, Starts, KeyCommand, Shows, BacksUp

\* A child writes the file that its fork has settled.
LEMMA ChildStutters ==
  ASSUME NEW c \in running, ChildBackup(c)
  PROVE  AbstractBackups' = AbstractBackups
<1>1. /\ backups' = backups \cup {FileOf(c)} /\ running' = running \ {c}
  BY DEF ChildBackup, FileOf
<1>2. AbstractBackups' = backups' \cup {FileOf(d) : d \in running'}
  BY DEF AbstractBackups, FileOf
<1>3. {FileOf(d) : d \in running} = {FileOf(c)} \cup {FileOf(d) : d \in running \ {c}}
  OBVIOUS
<1> QED BY <1>1, <1>2, <1>3 DEF AbstractBackups

LEMMA OtherStutters ==
  ASSUME MainStep \/ ChildStep \/ Terminated \/ UNCHANGED vars
  PROVE  UNCHANGED Abstract!vars
<1>1. UNCHANGED <<table, locks, out, jobs, pc, local>>
  BY ProcessesApart
<1>2. /\ table' = table /\ out' = out /\ offset' = offset /\ files' = files
      /\ pc' = pc /\ file' = file /\ args' = args /\ i' = i
  BY <1>1 DEF jobs, local
<1>3. AbstractBackups' = AbstractBackups
  <2>1. CASE ChildStep
    BY <2>1, ChildStutters DEF ChildStep
  <2>2. CASE MainStep \/ Terminated \/ UNCHANGED vars
    <3>1. backups' = backups /\ running' = running
      BY <2>2 DEF MainStep, MainJoin, MainReap, MainSpin, MainExit, Terminated,
                  vars, backing
    <3> QED BY <3>1, BackupsKept
  <2> QED BY <2>1, <2>2
<1>4. AbstractStore' = AbstractStore
  BY <1>2 DEF AbstractStore, ChangedLater, LaterValue, Pending, Pairs, Opcode,
              Mutates
<1>5. AbstractDone' = AbstractDone
  BY <1>2 DEF AbstractDone, NotYet
<1>6. AbstractOut' = AbstractOut
  BY <1>2 DEF AbstractOut, OutOf, PrintsLater, ReadsLater, MissesLater, Gone,
              Nth, EntryOf, Settled, Pending, Pairs, Opcode
<1> QED BY <1>2, <1>3, <1>4, <1>5, <1>6 DEF Abstract!vars

\* Nothing was done, nothing is stored.
LEMMA InitIsAtomic == Init => Abstract!Init
<1> SUFFICES ASSUME Init PROVE Abstract!Init
  OBVIOUS
<1>1. /\ \A t \in Thread : pc[t] = "fetch" /\ file[t] = NoFile
      /\ running = {} /\ backups = {}
      /\ offset = [f \in File |-> 0] /\ out = [f \in File |-> << >>]
      /\ table = create_hash_table
  BY DEF Init
<1>2. AbstractDone = [f \in File |-> 0]
  BY <1>1 DEF AbstractDone, NotYet, InShow, BeforeFork
<1>3. AbstractStore = [k \in Key |-> NULL]
  <2>1. \A t \in Thread, k \in Key : ~ChangedLater(t, k)
    BY <1>1 DEF ChangedLater, Pending
  <2>2. \A k \in Key : read_pair(table, k) = NULL
    BY <1>1, HashType DEF create_hash_table, read_pair, InChain
  <2> QED BY <2>1, <2>2 DEF AbstractStore
<1>4. AbstractOut = [f \in File |-> << >>]
  <2>1. \A f \in File, t \in Thread : file[t] # f
    BY <1>1, StoreAssumption DEF File
  <2> QED BY <1>1, <2>1 DEF AbstractOut
<1>5. AbstractBackups = {}
  BY <1>1 DEF AbstractBackups
<1> QED BY <1>2, <1>3, <1>4, <1>5 DEF Abstract!Init

(***************************************************************************)
(* Every run of the threads is one of AtomicKVS: each command of a job     *)
(* file takes effect at one instant, in the order of the file, and what it *)
(* prints and saves is the store of that instant; only the SHOW of Part 2  *)
(* may print anything.  So for any number of threads, files and keys.      *)
(***************************************************************************)
THEOREM EngineIsAtomic == Spec => RefinesAtomic
<1>1. ASSUME RInv, RInv', [Next]_vars
      PROVE  [Abstract!Next]_Abstract!vars
  <2>1. CASE \E t \in Thread : ThreadStep(t)
    BY <1>1, <2>1, ThreadStepIsAtomic
  <2>2. CASE MainStep \/ ChildStep \/ Terminated \/ UNCHANGED vars
    BY <2>2, OtherStutters
  <2> QED BY <1>1, <2>1, <2>2 DEF Next
<1> QED BY <1>1, InitIsAtomic, RefinementInvariant, PTL
        DEF Spec, RefinesAtomic, Abstract!Spec

(***************************************************************************)
(* The lock of Part 1 (kvs.h:27) is what keeps a SHOW from reading a node  *)
(* that a DELETE frees: with it, and only so, the process never dies of an *)
(* invalid access.  A crash is no step of AtomicKVS, but the refinement    *)
(* would allow one, since nothing that was printed changes.                *)
(***************************************************************************)
THEOREM LockedShowNeverCrashes ==
  ASSUME UseRwlock
  PROVE  Spec => []~crashed
<1>1. Init => ~crashed
  BY DEF Init
<1>2. RInv /\ ~crashed /\ [Next]_vars => ~crashed'
  <2> SUFFICES ASSUME RInv, ~crashed, [Next]_vars PROVE ~crashed'
    OBVIOUS
  <2>1. ASSUME NEW t \in Thread, ThreadStep(t) PROVE ~crashed'
    <3>1. ~ShowCrash(t)
      <4>1. IInv /\ ShowsOf(t)
        BY DEF RInv, ShowsRight
      <4> QED BY <4>1, ShowClean DEF ShowCrash
    <3>2. crashed' = crashed
      BY <2>1, <3>1
         DEF ThreadStep, TakesFiles, Starts, KeyCommand, Shows, BacksUp,
             LockFiles, NoMoreFiles, TakeFile, StartKeyCommand, StartShow,
             StartBackup, SkipCommand, EndOfFile, RdLockTable, LockSlot,
             SkipSlot, WritePair, ReadPair, DeletePair, UnlockSlot,
             UnlockTable, ShowLock, ShowSlot, ShowNode, ShowNextSlot, ShowEnd,
             ShowTorn, ShowFreed, LockBackups, WaitChild, WaitNone,
             RdLockSlot, Fork, ForkFails, UnlockAllSlots, UnlockBackups,
             process
    <3> QED BY <3>2
  <2>2. CASE MainStep \/ ChildStep \/ Terminated \/ UNCHANGED vars
    BY <2>2 DEF MainStep, MainJoin, MainReap, MainSpin, MainExit, ChildStep,
                ChildBackup, Terminated, vars, process
  <2> QED BY <2>1, <2>2 DEF Next
<1> QED BY <1>1, <1>2, RefinementInvariant, PTL DEF Spec

=============================================================================
