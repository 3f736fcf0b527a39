------------------------------- MODULE RWLock -------------------------------
(***************************************************************************)
(* The POSIX locks the server relies on, as the values they go through.    *)
(*                                                                         *)
(* A pthread_rwlock_t of the default kind admits a reader whenever no      *)
(* writer holds it, even if a writer waits (readers are preferred), and a  *)
(* writer when nobody holds it.  No thread of this program locks again a   *)
(* lock it holds, so a lock remembers only the set of its readers.         *)
(***************************************************************************)
CONSTANTS Thread, NoThread

ASSUME NoThreadAssumption == NoThread \notin Thread

Owner == Thread \cup {NoThread}

RWLocks == [readers : SUBSET Thread, writer : Owner]

Unlocked == [readers |-> {}, writer |-> NoThread]

\* What pthread_rwlock_rdlock and pthread_rwlock_wrlock wait for.
CanRead(lock)  == lock.writer = NoThread
CanWrite(lock) == lock.writer = NoThread /\ lock.readers = {}

ReadLocked(lock, t)  == [lock EXCEPT !.readers = @ \cup {t}]
WriteLocked(lock, t) == [lock EXCEPT !.writer = t]

Holds(lock, t) == t \in lock.readers \/ t = lock.writer

\* pthread_rwlock_unlock by t, which holds the lock in one way or the other.
Released(lock, t) ==
  IF lock.writer = t THEN [lock EXCEPT !.writer = NoThread]
                     ELSE [lock EXCEPT !.readers = @ \ {t}]

=============================================================================
