----------------------------- MODULE MCKVStore -----------------------------
(***************************************************************************)
(* Instances of KVStore for TLC: two chains, keys on both, three job files *)
(* for two threads, and workloads chosen so that commands of different     *)
(* files meet on the same chains.                                          *)
(***************************************************************************)
EXTENDS KVStoreRefinement, TLC

CONSTANTS t1, t2, v1, v2

MCThread == {t1, t2}
MCValue  == {v1, v2}

\* Keys "a", "ab" and "b", and the uppercase "B".
a1 == 97 * CHAR_BASE
a2 == 97 * CHAR_BASE + 1
b1 == 98 * CHAR_BASE
B1 == 66 * CHAR_BASE

MCKey == {a1, a2, b1}
MCMixedKey == {a1, b1, B1}

write(keys, values) ==
  [op |-> "WRITE",
   pairs |-> [j \in DOMAIN keys |-> [key |-> keys[j], value |-> values[j]]]]
OnKeys(op, keys) ==
  [op |-> op, pairs |-> [j \in DOMAIN keys |-> [key |-> keys[j], value |-> NULL]]]
read(keys)   == OnKeys("READ", keys)
delete(keys) == OnKeys("DELETE", keys)
show    == OnKeys("SHOW", << >>)
backup  == OnKeys("BACKUP", << >>)
wait    == OnKeys("WAIT", << >>)
invalid == OnKeys("INVALID", << >>)

Jobs(j0, j1, j2) == (0 :> j0) @@ (1 :> j1) @@ (2 :> j2)

\* Writers and readers of several keys, given in different orders and twice.
KeyJobs ==
  Jobs(<<write(<<b1, a1>>, <<v1, v1>>), read(<<b1, a1>>)>>,
       <<write(<<a1, b1, a1>>, <<v2, v2, v1>>), delete(<<b1, a1, b1>>)>>,
       <<read(<<a1, b1, a1>>)>>)

\* Deletes against writes and SHOW, with two keys on one chain.
ShowJobs ==
  Jobs(<<write(<<a2, a1, b1>>, <<v1, v1, v1>>), delete(<<a1, b1>>)>>,
       <<show, write(<<a1, b1>>, <<v2, v2>>)>>,
       <<invalid, show>>)

\* Several backups in one file and in two, between changes.
BackupJobs ==
  Jobs(<<write(<<a1, b1>>, <<v1, v1>>), backup, wait, backup>>,
       <<delete(<<b1>>), backup>>,
       <<backup>>)

\* Backups only, to have more of them than the limit.
ForkJobs ==
  Jobs(<<backup, backup>>, <<write(<<a1, b1>>, <<v1, v1>>), backup>>, << >>)

\* "B" sorts before "a" and hashes after it.
MixedJobs ==
  Jobs(<<write(<<B1, a1>>, <<v1, v1>>)>>, <<write(<<a1, b1>>, <<v2, v2>>)>>,
       << >>)

MCJobSets   == {KeyJobs, ShowJobs, BackupJobs}
MCForkSets  == MCJobSets \cup {ForkJobs}
MCMixed     == {MixedJobs}

=============================================================================
