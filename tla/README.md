# Verification of the IST-KVS key-value store

This directory models the program in `src/`: the key-value store of
Part 1 (`src/SO-Parte1`, exercises 1 to 3) and its client-server version of
Part 2 (`src/SOParte2`). The models are TLA+ modules. TLC checks them on small
instances, and TLAPS proves theorems about the storage engine, the sequential
program, the sort, the reading of commands, the registration and the sessions for
every instance.

Paths are short here: `server/` is `src/SOParte2/src/server/`, `client/` is
`src/SOParte2/src/client/`, `ex1/` to `ex3/` are
`src/SO-Parte1/grupo5-ex1/` to `-ex3/`.

## 1. The system

One process reads job files (`*.job`) from a directory. A file is a list of
commands on a table of key-value pairs: WRITE, READ, DELETE, SHOW, WAIT, BACKUP,
HELP. What a file prints goes to its `.out` file, and each BACKUP forks a child
that writes a `.bck` file. Exercises 1 and 2 process one file after the other,
exercise 3 and Part 2 with several threads. In Part 2 the process is also a
server: clients register through a named pipe, get a session, and subscribe to
keys.

| Component | State | Operations | Talks to |
|---|---|---|---|
| Hash table (`server/kvs.c`, `ex*/kvs.c`) | 26 chains of nodes; a node has a key, a value and, in Part 2, `subscriber_fds` | `write_pair`, `read_pair`, `delete_pair`, `hash` | called by the engine, with the engine's locks held |
| Locks (`server/kvs.h`) | `rwlock` for the table, `rwlock_array` with one lock per chain, `file_mutex`, `backup_mutex` | lock, unlock | held by the job threads |
| Storage engine (`server/main.c`, `server/operations.c`, `ex3/`) | list of files and `current_index`, `active_backups`, the children, per thread its file, its command and its place in it | `thread_process_files`, `process_job_file`, `kvs_write/read/delete/show/backup` | table, locks, `fork`, `wait` |
| Sort of arguments (`server/main.c:31`) | the keys and values of one command | `insertionSort` | gives the engine its lock order |
| Sequential program (`ex1/`, `ex2/`) | the scan, one file at a time, the children | the same commands, with no lock | table, `fork` |
| Parser (`server/parser.c`, `client/parser.c`) | the read position of a text | `get_next`, `parse_*`, and what they leave for the next call | feeds the engine, the client |
| Directory scan (`server/main.c:221`) | `files[]`, `count` | `process_job_directory` | runs before the threads |
| Registration (`server/main.c:250-340`, `client/api.c`) | the registration FIFO, `BUFFER` with two indices, two semaphores, `BUFFER_MUTEX` | `host_FIFO`, first half of `thread_manage_session`, `kvs_connect` | clients, session managers |
| Sessions (`server/main.c:342-403`, `client/api.c`) | three pipes per client, `request[42]` | second half of `thread_manage_session`, `kvs_subscribe/unsubscribe/disconnect` | subscriptions |
| Subscriptions (`server/kvs.c:33-93`, `operations.c:220-256`) | `subscriber_fds` of each node | `add_subscriber`, `remove_subscriber`, `notify_clients` | hash table, sessions |
| Client program (`client/main.c`) | its pipes, the keys it read | command loop, `thread_notif` | session |

The hard parts are these. Job threads run commands of several keys on shared
chains, each chain with its own lock. BACKUP must take a snapshot of the whole
table, by `fork`, while they run, and must not exceed a number of children that
threads count and wait for together. In Part 2 the host and the managers share a
ring buffer that is guarded by semaphores on one side only, and the messages
travel on pipes, which keep no boundaries between them. `PROJECT.json` lists
every hazard with its line and the property that covers it.

What makes each component correct:

- table: a key is in one node of its own chain at most;
- engine: every command is atomic; no two threads touch a chain in conflict;
  nobody waits for ever; each file is processed once, to its end; at most
  `max_backups` children at a time; `main` ends when all children did;
- sort: stable, loses nothing, ends;
- registration: no registration lost or doubled while reads take whole ones; each
  client gets one manager; everybody is served in the end;
- sessions: only what the client asked is done, a DISCONNECT ends the session;
- subscriptions: what a client was told is in the node, until it or the node goes;
- sequential program: each command does at once what the store promises, and
  every child writes its backup;
- parser: a command consumes its own line, nothing more, and fits its buffers.

## 2. The modules

| Module | What it is |
|---|---|
| `KVTable` | the hash table as pure operators, and the result of the sort |
| `RWLock` | reader-writer locks (external: pthread) |
| `KVStore` | the engine of exercise 3 and of Part 2, every lock operation and table access a step; its properties |
| `AtomicKVS` | the abstract store, one step per command: what the engine and the sequential program both implement |
| `KVStoreRefinement` | the refinement mapping from `KVStore` to `AtomicKVS` |
| `KVStoreInvariant` | the inductive invariant of `KVStore` |
| `KVTable_proofs` | lemmas on the table, the sort, and numbers |
| `KVStore_proofs` | the invariant is preserved; the theorems on locks, files, chains and the children of BACKUP |
| `KVStore_atomic` | the proof that the engine implements `AtomicKVS` |
| `SequentialKVS`, `SequentialKVS_proofs` | exercises 1 and 2, command by command with the loops of `operations.c`; its refinement mapping to `AtomicKVS`, its invariant and the proof that it implements it |
| `CommandReader`, `CommandReader_proofs` | the parsers of server and client, character by character, and the loops that call them; its properties, invariant and proofs |
| `CommandLines` | the abstract reader: a line that is as it should be is one command |
| `InsertionSort`, `InsertionSort_proofs` | the loops of `insertionSort`, against the definition in `KVTable`; the proof that they compute it |
| `Registration`, `Registration_proofs` | host, ring buffer, managers, `kvs_connect`; its properties, invariants and refinement mapping; the proofs on the ring buffer and on the way of a registration |
| `RegistrationQueue` | the abstract registration: a bounded queue of entries |
| `Session`, `Session_proofs` | requests, answers and end of a session, and the subscriptions in the nodes of the table; its properties, invariant and proofs |
| `MCKVStore`, `MCSequentialKVS`, `MCCommandReader`, `MCInsertionSort`, `MCRegistration`, `MCSession` | instances for TLC |

### KVTable

A chain is a sequence of nodes with its head first, as SHOW walks it. A key is a
number: its first character times `CHAR_BASE` plus the rank of the rest among
strings with that first character. So `<` is `strcmp`, and `hash` looks at
the first character, as the code does: letters of either case and digits share
the slots from 0. A key that `hash` maps to -1 makes the code index its arrays
with -1, so `TableAssumption` leaves such keys out.

### KVStore

A thread is at one of the labels of `Label`, which are the places where the code
can be interrupted with an effect on others: around `file_mutex` (`fetch`,
`nofile`, `take`), at the reading of the next command (`command`), at each lock
(`rdlock`, `lock`, `showlock`, `rdlockall`), at each access to the table
(`apply`, `showslot`, `shownode`), at each unlock, and along BACKUP (`backup`,
`wait`, `fork`, `unlockall`, `unlockbackups`). Work that no other thread can
see is in the step that precedes it. `out` and `offset` stand for the two
file descriptors of `process_job_file`. A child is a record with the table it
was forked with; `ChildBackup` writes the file and leaves a zombie, which either
a later BACKUP of any thread (`WaitChild`) or `main` (`MainReap`) reaps.

Two constants tell the two programs apart. `UseRwlock` is TRUE for exercise 3
(`kvs_show` locks) and FALSE for Part 2 (`main.c:123` passes 0). `ServesClients`
is TRUE when `main` also joins the session managers, which never end.

When SHOW runs without the lock and another thread is changing the chain it
walks (`Races`), it may print garbage, hold a freed node, or kill the process:
`ShowTorn`, `ShowFreed` and `ShowCrash` are the outcomes of that data race, which
C leaves undefined.

`AtomicKVS` is a map from keys to values. With `BackupsMayFail` a BACKUP may
leave no file, which is all that a `fork` that fails allows.

Abstractions: a file that cannot be opened is an empty file; WAIT, HELP, empty
and invalid commands do nothing but take their turn; opening a `.bck` file does
not fail; what the program prints is a sequence of entries (the number of the
command, key, value), with no layout.

### SequentialKVS

One step is one command, since one process runs them all; its effect is what the
loops of `operations.c` over its pairs do, one pair after the other and unsorted.
`Tables` is the table after each pair of such a loop, `Misses` what DELETE has
printed by then: functions on the number of pairs that are done, so that a proof can
follow the loop. `Nodes` is the walk over the chains of SHOW and of the children.
`NextEntry` is an iteration of the scan, in whatever order `readdir` gives the
files. `Fork` has no guard: exercise 2 compares `active_backups` with
`max_backups` and nothing comes of it. The children run beside the process and
outlive it. With no BACKUP in the files it is exercise 1. The mapping to
`AtomicKVS` counts a backup from the fork of its child on, so it says that a late
child writes the store of its command and not of its own time.

### CommandReader and CommandLines

The state is what the next call depends on: the position in the text (`offset`), the
place in the functions that reads next (`at`), what `get_next` recognised, and the
strings and the number parsed so far. A step reads one character; only `get_next`
compares a word, and then reads as many characters as the longest word it tries,
past the end of a short line if need be (`RecognisesNone`). `cleanup` is a
state of its own; after a pair that does not parse it is entered twice, by
`parse_pair` and by `parse_write`. `program` chooses between the words and lists of the
server and those of the client. `EndOfNumber` has the one undefined value: at the end
of the text `read_uint` leaves its buffer without a terminator, and `strtoul` goes on
with what the stack held.

`CommandLines` says what a line promises: if it is in `Meaning`, it is read alone and
its command is the one it says; any other line may give any result and take any
amount of what follows. So `RefinesLines` is about what a good line
may rely on, wherever it stands and whatever the lines before it did, as long as
the reading comes to its start. `InSync` says that it does come to the start
of some line each time.

Abstractions: a text has no NUL, numbers have no more than 16 digits, the
commands themselves have no effect on the reading.

### Registration

A registration is its characters, each a pair of the client and the place, since a
FIFO keeps no boundaries and what matters is where a read ends. `HostRead` puts the first
`bytes_read` characters of the FIFO, at most `READ_SIZE`, into the slot at
`BUFFER_WRITE_INDEX` and leaves the rest; `used` is how far the slot holds characters,
so what is left of longer contents is not forgotten. Any number of clients may
register, so a read may take several registrations, or end inside one; `cut` remembers
that this has happened. A manager copies a slot under `BUFFER_MUTEX` and parses it
(`Parsed`). If the slot begins with a registration, the first two names are right, and
the name of the third pipe is the rest of the slot: it is right only when the slot
holds one registration, whole, with nothing after it. Otherwise `open` fails and the
server exits (`OpenNotifFails`). If the third name is longer than `notif_pipe_path`,
`sscanf`, whose `%s` has no width, writes past the array, which C leaves undefined: the
process may die there, or open a name that was overwritten (`NameOverflows`), or go on. A
slot that begins in the middle of a registration (`garbled`) gives any names, or leaves
in the arrays what they held: an open fails (`GarbledFails`), or waits for ever, or the
manager has an old client's pipes for a while (`GarbledOpens`).

Opening a FIFO is a meeting of both sides, so `OpenResp`, `OpenReq` and `OpenNotif` are
joint steps of a manager and its client. The session is one state here, ended by the
client's DISCONNECT or death. `client_paths` holds the slot a manager copied until it
serves the next client. `RegistrationQueue` is the promise of the ring buffer: a queue
of at most `MAX_SESSION_COUNT` entries, each what one read got of the characters that
clients offered, taken by managers in that order.

Abstractions: no two clients have one id; a wrong name is the name of no pipe; an
overflow that happens to leave the name of another client's pipe is not followed, nor is what
a manager with garbled names does to the client whose pipes it may find; ids have up to 28
characters, so a registration that `snprintf` cuts reaches into the third name (with 29
the third name is empty, and `sscanf` leaves `notif_pipe_path` as it was); the
FIFO has room for what is written to it; a killed client does not come back.

### Session

The pipe of requests is a sequence of bytes: an opcode and the characters of a
key, since the client sends `strlen` bytes. A client goes through its input (`Input`) without
waiting for anything, as `api.c` does, but for room in the pipe (`PIPE_SIZE`) and in
`kvs_disconnect`. `Read` takes what is there, up to `REQUEST_SIZE` bytes, leaves the
rest, and overlays the start of `request`, as `read` does on an array that nothing clears
within a session. So it may take part of a request, or several, and the array may keep
the end of a longer request behind a shorter one. What the manager takes for the opcode
and the key is computed from the array (`op_code`, `key`); when a read stopped inside a
request, the next begins with a letter and goes to the default case of the switch
(`HandleInvalid`). `asked` is not in the program: it is the requests that the client sent since it
was started. `OwnRequestsOnly` compares what is handled with them.

`node[k]` is the array `subscriber_fds` of the node of `k`. `WriteNew` and `Delete`
are the job threads of `KVStore` as far as sessions see them; `kvs_subscribe` and
`kvs_unsubscribe` hold the lock of the chain while they search and change it, so
each is one step here. `subscribed` is what the clients have been told. `Close`
closes the descriptors and leaves them in the nodes; `Open` gives a session any
number that is not in use.

A child of BACKUP has copies of all descriptors (`inherited`), so a client that
waits for the end of its response pipe waits for the child too. A killed client
ends its session through the end of its request pipe (`EndOfPipe`), or kills the
server through SIGPIPE when an answer is due (`Answered`).

Abstractions: the way into a session is `Registration`'s, here it is one step
(`Open`); one child at a time (`max_backups` is 1), as the waiting for children is
`KVStore`'s; a request is written at once, as it is shorter than what a pipe writes
atomically; keys are lowercase letters, so no byte of a key is an opcode; the key that is
copied out of a full array has no end, and is taken for one that is not in the table; the
text of the answers is left out, as the client only prints it.

## 3. What TLC checks

| Run | Instance | Shows |
|---|---|---|
| `part1` | exercise 3: 2 threads, 3 files, four workloads, limit 0, `fork` may fail | types, mutual exclusion, well-formed chains, hand-out of files, limit and count of children, lock order, no circle of waits (`SomeoneGoesOn`), SHOW under its lock, **atomicity** (`RefinesAtomic`), all files processed, no thread waits for a child that is not there, `main` ends unless a `fork` failed |
| `part2` | the server of Part 2, limit 2 | the same where Part 2 differs: what SHOW prints is not promised, `main` never ends; the counter is exact (`BackupsAccounted`); types are left to `TypeCorrect`, proved for both parts |
| `exercise2` | 2 files in either order, every command of up to 2 pairs or 3 keys among theirs, `fork` may fail | the loops over the pairs amount to atomic commands, late children write the snapshot of their command, everything is written in the end |
| `reader` | all texts of two lines, right or wrong in many places, and a third; server and client | a right line is read alone and as it says (`RefinesLines`), commands start at line starts (`InSync`), strings and their number fit (`FitsBuffers`), reading ends |
| `sort` | every command of up to 4 pairs over 3 keys and 2 values | the loops give the stable order, lose nothing, end |
| `registration` | 3 clients, 2 managers, 2 slots, a read takes two registrations or cuts one, one client may be killed, the host may start early | **the ring buffer is a bounded queue wherever reads end** (`RefinesQueue`); no shared slot; until a read cuts a registration, none is lost or doubled, sessions are paired, and every client is answered unless the server exited or its start lost a wake-up |
| `session` | 2 clients, 2 managers, keys `a` and `ab`, an array of 4 and a pipe of 5 bytes, requests sent back to back, one client may be killed, new nodes clean or with a descriptor in them | nothing is taken for a request but the start of one that this client sent, with its whole key (`OwnRequestsOnly`); a descriptor is in a node once; no subscription is lost to other sessions; `kvs_disconnect` returns if its request comes first in a read; a killed client frees its manager |
| `mixed_case` | two WRITEs, keys `B`, `a`, `b` | violated: they deadlock |
| `unlocked_show` | Part 2 | violated: a SHOW walks a chain that is being changed |
| `merged_registrations` | 2 clients, the sizes of the code | violated: one manager takes two registrations |
| `lost_disconnect` | SUBSCRIBE and DISCONNECT back to back, as in `client_tests.txt`; the array of the code | violated: `kvs_disconnect` never returns |
| `swallowed_line` | `WRITE [(a)]` and `SHOW` on the next line | violated: one command takes two lines |

Each passing property has a mutant: a definition named `Slip...` right before
the definition it would replace, which is what a plausible bug there would be.
With it, the property must fail.

**Bounds.** Two threads and two chains are enough for every pair of lock
operations to meet in both orders; a lock cycle or a lost update in this code
needs two threads and two chains. Two keys on one chain make a chain that
can lose its head, middle or end. Three files for two threads make `file_mutex`
matter. The workloads (`MCKVStore`) put commands on the same chains in different
orders, with repeated keys, and make more backups than the limit allows.
In `Registration`, two slots make the indices wrap, three clients for two sessions
make one wait, and clients come back without bound, so every slot is used
again. Its sizes are those of the code made small (`READ_SIZE` 8 for 241,
`MAX_PIPE_PATH_LENGTH` 6 for 80, registrations of 3, 3 and, cut from 7, 5 characters): two
registrations fit in a read, two short ones leave room for the third name and a short
one with the long one does not, and three are more than a read takes, as eight of 34 are in the code.
In `Session`, two sessions share a node with two entries, so an entry, a
descriptor and a node are each reused, in every order; sessions have up to three
requests and are not bounded in number. An array of 4 bytes (42 in the code) is
filled by two requests or cuts the second, and `ab` before `a` leaves its tail
there. A new node has entries that are all zero or one that is a descriptor a client
may get (`Dirty`).
In `reader`, room for two pairs or two keys, for two characters and for numbers up to
99 makes each limit met and passed by one; two lines and a third have every line
after every other. In `exercise2`, two files and one command that is free are enough
for a loop over pairs to meet repeated keys, both chains and two children. What a
larger instance could still show for the locks, the ring buffer, the sort, the
subscriptions and the buffers of the reader, the theorems of section 4 exclude.

**Fairness.** `KVStore`: weak fairness of each thread, of `main` and of the
children: the kernel schedules them again and again. It is enough, since job
files are finite: a thread that is passed over at a lock or a mutex has it to
itself in the end, so no fairness of the locks is assumed. `Registration`: weak
fairness of each thread, and of clients that have a session, which must leave it,
as `client/main.c:131` asks of their input. Clients need not connect, nor be
killed. `Session`: weak fairness of each manager, of the children, which exit
after one file, and of a client that waits in `kvs_disconnect`; clients need not
send anything. `CommandReader`: weak fairness of the one thread that reads, which
nothing makes wait. `InsertionSort`: the same. `SequentialKVS`: weak fairness of the
process and of its children. `CHECK_DEADLOCK FALSE` is set in the `Registration` and `Session`
runs, since a server that exited leaves its clients in `open` for ever or
everybody gone, and in `mixed_case`, where the
deadlock is what the liveness property finds.

**Findings** (details in `PROJECT.json`):

1. Chain locks are taken in the order of the keys, and `strcmp` and `hash`
   disagree on uppercase letters (and digits): two WRITEs can deadlock.
2. SHOW of Part 2 takes no lock.
3. Registrations written close together are read as one, and a slot of `BUFFER`
   keeps the tail of a longer registration: the server exits.
4. A DISCONNECT written close after another request is lost with its client waiting.
5. A pair that does not parse is cleaned up by two functions, and the command on
   the next line is lost.

Seen while modelling, in the models, and without a run of their own:

- a failed `fork` is counted as a child (`ForkFails`), after which the last loop of
  `main` of exercise 3 waits for ever (`MainSpin`); `part1` shows that the threads
  are not harmed by it, and `MainTerminates` excepts it;
- `host_FIFO` is created before its semaphores are initialised (`HostStranded`),
  and if it sleeps by then no client ever connects; `AnsweredOrExit` excepts it;
- new nodes get whatever `subscriber_fds` `malloc` gives them (`MallocContents`), and
  a descriptor outlives its session there: the next client with that number is
  refused as a subscriber it never was (`server/kvs.c:60`);
- `request[42]` keeps the tail of a longer request after a shorter one, so SUBSCRIBE of `ab`
  and then of `a` subscribes to `ab` twice: `OwnRequestsOnly` claims only that the
  key asked for is the start of the one handled, and that the tail is of the same session;
- eight registrations of short ids, or four of long ones, are more than one read of
  the host takes; the one that is cut goes to two managers in halves (`garbled`);
  and a third name that was merged with others runs over its array (`NameOverflows`);
- `client/api.h:22` says that `kvs_subscribe` returns 1 when the key existed; it
  always returns 0;
- `notify_clients` is never called, so nobody is ever notified;
- the text of HELP puts a comma between pairs (`server/main.c:170`), which the parser
  refuses; as many keys or pairs as there is room for are one too many; a last line
  without its end is refused for WRITE, READ and DELETE and taken for SHOW; the end
  of a line may be part of a key; a WAIT that is too big takes the next line along;
  a DELAY of the client leaves the rest of its line for the next command;
- exercise 2 does not limit its children (`Fork`), does not truncate an older `.bck`
  file, and its children leave with `exit`, which writes what the parent had
  buffered once more.

## 4. What TLAPS proves

Each theorem holds for every value of the constants, under the ASSUMEs of its
module, which TLC evaluates on the instances, and what it names itself.

### The engine

For every number of threads, chains, files and backups, every set of keys and values,
and any job files, from `TableAssumption` and `StoreAssumption`:

- `TypeCorrect`: `Spec => []TypeOK`.
- `Invariance`: `Spec => []IInv`, the inductive invariant below.
- `MutualExclusion`: `Spec => []NoConflictingAccess`.
- `JobFilesHandedOut`: `Spec => []FilesHandedOutOnce`.
- `LocksAscend`: `Spec => []AscendingLocks`, assuming that the order of the keys is
  that of their chains. `LowercaseMonotone` shows that lowercase keys, the ones
  `kvs.h:52` asks for, meet this assumption; `mixed_case` shows what happens
  when it fails.
- `NoCircleOfWaits`: `Spec => []SomeoneGoesOn`, with the same assumption: the threads
  never all wait on each other.
- `LockedShowProtected`: `Spec => []ShowProtected`, and `LockedShowNeverCrashes`:
  `Spec => []~crashed`, both for the engine of Part 1 (`UseRwlock`): what kvs.h:27 says
  of the lock is true there; `unlocked_show` refutes it of Part 2.
- `ChainsStayWellFormed`: `Spec => []ChainsWellFormed`, from what a write and a delete
  do to one chain (`WriteKeeps`, `DeleteKeeps`): a search that fails has seen every
  node, so the new head is no duplicate; a delete keeps the order of the rest.
- `BackupsLimited`: `Spec => []BackupLimit`, and `NotUndercounted`:
  `Spec => []BackupsNotUndercounted`, also when `fork` fails.
- `Accounted`: `Spec => []BackupsAccounted`, assuming that `fork` does not fail.

None of the safety properties is inductive alone: a step that unlocks a chain
keeps them only if the thread that unlocks is the thread that locked. So

    IInv == TypeOK /\ Control /\ LockHolders

where `Control` ties the local state of a thread to its label (a thread at `apply`
has a current pair and holds the chain locks of all its keys; one at `fork` has
finished its loop), and `LockHolders` says exactly which locks a thread at each
label holds (`WriteHeld`, `ReadHeld`, `TableReader`, `TableWriter`) and that a
lock with a writer has no readers. `KVStore_proofs` proves that each action
preserves each of the three: `TypeStep`, `ControlStep`, `HoldersStep`, with one
lemma per group of actions (hand-out of files, start of a command, commands on
keys, SHOW, BACKUP, other processes). Mutual exclusion then follows without
further induction: a thread about to change a chain holds its lock for writing, and
one about to read it holds it for reading, or, for SHOW, holds the lock of the
table for writing, which a writer of pairs holds for reading.

`LocksAscend` needs `Ordered` besides: the arguments of a command are sorted, and
the locks it holds are those of the pairs it passed. That rests on `SortAscends`
of `KVTable_proofs`, which is proved of the rank definition of the sort; that the
loops compute that definition is `LoopsSortStably` below.

`NoCircleOfWaits` joins the two levels of locks, the two mutexes and `wait()`. It is
stated by the guards of the actions (`Waits`), as ENABLED is out of the prover's reach;
TLC's search for deadlocks in `part1` says the same of the actions themselves.
If no child runs and every thread waits or is done, the holders of the two
mutexes and of the lock of the table are at labels that do not wait, unless they ask for
a chain lock (`OnlyLocksLeft`). Of the threads that ask for one, take one that
asks for the highest (`GreatestSlot`); whoever holds it (`HolderOfWanted`) asks
for a higher one by `AscendingLocks`, or goes on. This is what liveness needs of
the locks, and all of it that is a safety property.

The theorems on children rest on `Children`, three more parts of the invariant.
`Turns`: the thread between the lock and the unlock of `backup_mutex` is the one
that holds it. `Numbered`: the number of a new child is above those of its job
file, so a fork adds one to the number of children (`ForkAdds`); this needs
`FilesHandedOutOnce`, since the numbers are counted per job file. `Within`: the
children that were not waited for are counted, within the limit, and below it
when a thread is about to fork. `Reckoning` lists all that a step does to the
counter and the children, and `BelowLimit` the three ways to come to the fork:
the counter was below the limit, a child was waited for, or there is none.

`EngineIsAtomic` (`Spec => RefinesAtomic`, in `KVStore_atomic`) says that the engine
implements `AtomicKVS`. A command on keys takes effect when it gets its last lock,
SHOW when it ends, BACKUP at its fork; before that instant it has changed nothing, after
it nothing that its locks do not hide. So the abstract store is the table with the
writes and deletes still to be applied by the threads that have all their locks
(`ChangedLater`), and the abstract output has what those will print (`PrintsLater`). The
invariant, `RefinementInvariant`, adds four parts: `Issued` (a thread does
the command its file is at), `Counted` (`total_backups` is the number of BACKUPs
read), `Printed` (the entries of a file are numbered in order) and `ShowsRight` (a SHOW
with the lock has printed each node it passed, once). Each step is either the step of
`AtomicKVS` by which its command takes effect, or changes nothing abstract: the chains
that a thread has locked are not changed by others (`MutualExclusion`), and what it does
to them itself was counted already. The last pair of a WRITE wins because the sort
is stable (`SortStable`), and the misses of a DELETE correspond one to one to the places
of missing keys in the file, whose order the sort changed (`SortPermutes`). With
`UseRwlock` FALSE nothing is said of what SHOW prints (`ShowPromised`).

### The sequential program

For any files, commands, keys and values: `TypeCorrect` (`Spec => []TypeOK`) and
`ProgramIsAtomic` (`Spec => RefinesAtomic`). The invariant adds to the types that the table
and the copies of the children hold each key once, in its chain (`ChainsWellFormed`),
and that `num_backups` counts the BACKUPs of the file so far (`Counted`). The work is in
the loops. `TablesFound` and `MissesFound` show that the recursions define what
they say, `LoopReads` what a loop leaves to be read: of each key the value of the last
pair that names it, or nothing after a DELETE. `MissesAreGone` lists what DELETE prints by the places
of the missing keys, one to one. `NodesFound` shows that the walk over the chains meets every key
that can be read, once and with its value; so what SHOW prints, and what a child
writes, is the store.

### The sort

`LoopsSortStably` (`Spec => []SortsStably`) and `LoopsLoseNothing`
(`Spec => []NothingLost`), for any number of pairs. Neither says anything of the middle of
the inner loop, where the array holds one pair twice and one pair is set aside. `IInv`
says that there is a rearrangement `p`, a one-to-one map of the positions, such that the
pair at `k` is the `p[k]`-th that was given. The hole of the inner loop belongs to the pair set
aside; positions already visited are in order, those shifted have larger keys, the
rest is where it was (`Rearranged`). A step of the shift swaps two values of `p`, the
others leave it. At the end all positions were visited, so `p` puts the pairs into
ascending order, equal keys as given. There is only one such `p`, and counting what is before a
pair gives the rank that `KVTable` sorts by.

### The registration

`HostKeepsApart` (`Spec => []SlotNotShared`) and `RingIsQueue`
(`Spec => RefinesQueue`), for any clients, managers and slots, wherever reads end. All
that `RegistrationAssumption` asks of sizes is that one registration fits in a read, and
reaches into its third name, which begins far enough from the end of a slot. The host writes a slot with no mutex, so the reason lies in the
semaphores. `Counted`: free slots, the slot being filled, the slots that are filled and those
taken and not yet given back add up to `MAX_SESSION_COUNT`. Filled are those the second semaphore
counts, and those of managers that passed it, whether they wait for the mutex or copy
(`Filled`). `Indexed`: the write index is `Filled` slots past the read index, around the end.
`Locked`: who copies has `BUFFER_MUTEX`, so one manager copies at most. While
the host is about to write and a manager copies, `Filled` is at least one and, as
the slot of the host is counted too, below `MAX_SESSION_COUNT`: the two
indices differ.

`TypeCorrect` (`Spec => []TypeOK`) includes that a manager past its copy has something to
parse: `Occupied` says that a full slot is never empty. `NoneLostNorDoubled`
(`Spec => []RegisteredOnce`) and `SessionsStayPaired` (`Spec => []SessionsPaired`)
hold for any number of clients, until a read ends inside a registration (`cut`):
from then on the code splits a registration between managers, and both properties
say nothing. `UntilCut` is the invariant: while no read has done so, the FIFO and the slots
begin with a registration (`Whole`), and each is followed on its way. `Registrations` are
the places where a client has one, on the FIFO, in the full slots and with the
managers. `Tracked` says that a client has at most one, from `kvs_connect` to the end of
its session, none before and after, and that it is itself where the place of its
registration allows. A step that moves a registration from one place to the next takes it
away from the first, also when registrations are merged or a client is killed. Nothing
bounds the number of clients; that it takes eight with short ids before a read can be
cut follows from the sizes, and is not used.

For the refinement, the queue is the `Filled` slots from the read index up. The
indices and counts have to move together for it to be a queue at all steps:
`HostRead` appends the slot it fills (Accept), `ManagerCopy` takes the head
(Take), `Connect` offers, and each other step leaves the queue as it is, though it moves
a slot from one count to another.

### The sessions

For any clients, managers, keys and descriptors:

- `TypeCorrect`: `Spec => []TypeOK`, for any inputs and any sizes of the array and the
  pipe, whether reads cut requests or join them;
- `ToldIsKept`: `Spec => []SubscriptionsKept`, for any `MallocContents`. It needs `Owned`:
  a manager has a client and a descriptor that no other manager has, so nobody else
  removes the descriptor from the node, and clients without a manager are
  subscribed to nothing;
- `DescriptorsOnce`: `Spec => []SubscribedOnce`, if no contents of a new node repeat a
  descriptor;
- `NothingMadeUp`: `Spec => []OwnRequestsOnly`. Nobody waits between requests, keys have
  any lengths below that of the array, and reads end anywhere. `Framed` says that an opcode on a
  pipe has the whole key of its request behind it, wherever the last read stopped; so
  a read begins with a letter, or with an opcode and all of its key, as no request fills
  the array. `OwnBytes` adds that the bytes of a pipe and of an array are
  of requests of this session. What is not true, and not claimed, is that every
  request is handled: `lost_disconnect` shows one that is lost.

### The reading of commands

For any texts and any sizes of the buffers: `TypeCorrect` (the position stays in the
text, results are commands), `StartsInSync` (`Spec => []InSync`) and `BuffersKept`
(`Spec => []FitsBuffers`). `Placed` makes them inductive: what each place in the functions
knows of the strings so far, of the number and of the room that is left, for
instance that a string that is being read has not filled its buffer and has
room in `keys[]`.

### Only model-checked

- Liveness, which TLAPS does not cover: `ThreadsFinish`, `AllFilesProcessed`,
  `MainTerminates`, `EverythingWritten`, `ReachesEnd`, `Terminates`, `AnsweredOrExit`,
  `DisconnectFirstEnds`, `SessionsEnd`.
- `RefinesLines`: `Meaning` is a table of lines that the instance spells out, so there
  is nothing to prove for all lines before lines that are as they should be have a
  grammar of their own (see the plan).

Where a proof needs induction over data, a loop over pairs or a chain, it uses the least-number principle instead of the library's induction
theorems: `UpwardsTo` and `LeastNumber` of `KVTable_proofs` take a set, which the provers
can instantiate, where those theorems take an operator.

## 5. What is not modelled

- `notify_clients`, which nobody calls, and the client's thread that prints what
  comes on its notification pipe: those are the answers to its requests
  (`server/main.c:367`, `377`, `386`), whose text is left out.
- The directory scan of exercise 3 and of Part 2: it ends before the threads start.
  `files[]` can overflow in it. The names of files are abstract, so are directories and
  names such as `x.job.job`.
- Overflow of the line buffers of SHOW and BACKUP (`server/operations.c:99`), keys
  that `hash` maps to -1: undefined behaviour that has no next state worth stating.
- `malloc` failures, `free_table`, disk errors, `common/io.c` (unused but for a sleep),
  build files, scripts and the generator of tests.

## 6. Plan

Done: 1. `KVTable`, `RWLock`, `KVStore` and their proofs; 2. `AtomicKVS` and the
refinement; 3. `InsertionSort` and its proofs; 4. `Registration`, `RegistrationQueue`
and the proof of the refinement; 5. `Session`, with the subscriptions, and its proofs;
6. `CommandReader`, `CommandLines` and their proofs; 7. `SequentialKVS` and its proofs;
8. the engine and the sequential program proved to implement `AtomicKVS`; 9. the way of
a registration (`RegisteredOnce`, `SessionsPaired`) and of the bytes of a request
(`OwnRequestsOnly`) proved, wherever reads end.

Next, in this order:

10. A grammar of the lines that are as they should be, for `CommandLines`, and the
    proof that `CommandReader` reads any such line alone and as it says.
11. An abstract specification of `Session`: the set of subscribers of a key, which
    sessions on memory from `calloc` refine.
