---------------------------- MODULE Registration ----------------------------
(***************************************************************************)
(* How a client gets a session.  kvs_connect writes the names of the       *)
(* client's three pipes to the registration FIFO.  The thread host_FIFO    *)
(* reads what it finds there into the next slot of a ring buffer, and a    *)
(* session manager (thread_manage_session) copies a slot out, opens the    *)
(* client's pipes and answers.  Two semaphores count the free and the full *)
(* slots.  The same pipes are then opened by both sides in the same order. *)
(*                                                                         *)
(* Sources: src/SOParte2/src/server/main.c, src/SOParte2/src/client/api.c. *)
(*                                                                         *)
(* A character is the client that wrote it and its place in the            *)
(* registration.  A FIFO keeps no boundaries between registrations and     *)
(* read() adds no terminator, so a slot holds the characters that one read *)
(* returned, of as many registrations as they are, and what is left there, *)
(* up to the first NUL, of longer contents before it.                      *)
(***************************************************************************)
EXTENDS Integers, Sequences, FiniteSets, FiniteSetsExt

CONSTANTS
  Client,
  Manager,               \* the session managers, one per slot
  MAX_SESSION_COUNT,
  MAX_PIPE_PATH_LENGTH,
  READ_SIZE,             \* 1 + 3 * MAX_PIPE_PATH_LENGTH in the code
  Length,                \* Length[c], of "1|req|resp|notif" for client c
  NotifAt,               \* NotifAt[c], of it before the name of the third pipe
  HostMayRunFirst,       \* whether host_FIFO may wait before main's sem_init;
                         \* nothing in the code prevents it
  Mortal,                \* the clients that may be killed
  Nobody                 \* the holder of a free mutex

\* snprintf(message, MAX_PIPE_PATH_LENGTH, ...) cuts what does not fit.
Sent(c) ==
  IF Length[c] < MAX_PIPE_PATH_LENGTH THEN Length[c]
                                      ELSE MAX_PIPE_PATH_LENGTH - 1

\* A registration fits in a read and reaches into the third name, as those of
\* ids up to 28 characters do; in a slot without a NUL that name does not fit.
ASSUME RegistrationAssumption ==
  /\ MAX_SESSION_COUNT \in Nat \ {0}
  /\ MAX_PIPE_PATH_LENGTH \in Nat \ {0}
  /\ READ_SIZE \in Nat
  /\ IsFiniteSet(Manager)
  /\ Cardinality(Manager) = MAX_SESSION_COUNT
  /\ Length \in [Client -> Nat \ {0}]
  /\ NotifAt \in [Client -> Nat]
  /\ \A c \in Client : /\ NotifAt[c] < Sent(c)
                       /\ Sent(c) <= READ_SIZE
                       /\ NotifAt[c] + MAX_PIPE_PATH_LENGTH <= READ_SIZE
  /\ HostMayRunFirst \in BOOLEAN
  /\ Mortal \subseteq Client
  /\ Nobody \notin Manager

\* What a client writes: its registration, character by character.
Message == [c \in Client |-> [n \in 1 .. Sent(c) |-> <<c, n>>]]

Slots == 0 .. MAX_SESSION_COUNT - 1

VARIABLES
  main,                \* "init" before the two sem_init, then "created"
  fifo,                \* the characters on the registration FIFO
  cut,                 \* history: a read has ended inside a registration
  host,                \* where host_FIFO is
  SEM_BUFFER_SPACE,
  SEM_BUFFER_CLIENTS,
  BUFFER,              \* slots: what was read there, the length in use
  BUFFER_READ_INDEX,
  BUFFER_WRITE_INDEX,
  BUFFER_MUTEX,
  manager,             \* where each session manager is
  client_paths,        \* the slot each manager copied
  client,              \* where each client is
  alive                \* whether the server process still runs

buffer == <<BUFFER, BUFFER_READ_INDEX, BUFFER_WRITE_INDEX>>
sems   == <<SEM_BUFFER_SPACE, SEM_BUFFER_CLIENTS>>

vars == <<main, fifo, cut, host, sems, buffer, BUFFER_MUTEX, manager,
          client_paths, client, alive>>

Init ==
  /\ main = "init"
  /\ fifo = << >>
  /\ cut = FALSE
  /\ host = "wait"
  /\ SEM_BUFFER_SPACE = 0
  /\ SEM_BUFFER_CLIENTS = 0
  /\ BUFFER = [s \in Slots |-> [msgs |-> << >>, used |-> 0]]
  /\ BUFFER_READ_INDEX = 0
  /\ BUFFER_WRITE_INDEX = 0
  /\ BUFFER_MUTEX = Nobody
  /\ manager = [m \in Manager |-> "wait"]
  /\ client_paths = [m \in Manager |-> [msgs |-> << >>, used |-> 0]]
  /\ client = [c \in Client |-> "start"]
  /\ alive = TRUE

\* The definitions named Slip... are what a plausible bug would make of the
\* definition that follows them; each must break a property.
SlipOneSlotMore ==
  /\ main = "init"
  /\ main' = "created"
  /\ SEM_BUFFER_SPACE' = MAX_SESSION_COUNT + 1
  /\ SEM_BUFFER_CLIENTS' = 0
  /\ UNCHANGED <<fifo, cut, host, buffer, BUFFER_MUTEX, manager, client_paths,
                 client, alive>>

MainInit ==
  /\ main = "init"
  /\ main' = "created"
  /\ SEM_BUFFER_SPACE' = MAX_SESSION_COUNT
  /\ SEM_BUFFER_CLIENTS' = 0
  /\ UNCHANGED <<fifo, cut, host, buffer, BUFFER_MUTEX, manager, client_paths,
                 client, alive>>

-----------------------------------------------------------------------------
(* host_FIFO *)

\* sem_wait before sem_init: it sleeps on a semaphore that is still zero, and
\* sem_init forgets the sleeper, so no sem_post wakes it.
HostStranded ==
  /\ HostMayRunFirst
  /\ host = "wait" /\ main = "init"
  /\ host' = "stranded"
  /\ UNCHANGED <<main, fifo, cut, sems, buffer, BUFFER_MUTEX, manager,
                 client_paths, client, alive>>

HostWait ==
  /\ alive /\ main = "created"
  /\ host = "wait"
  /\ SEM_BUFFER_SPACE > 0
  /\ SEM_BUFFER_SPACE' = SEM_BUFFER_SPACE - 1
  /\ host' = "read"
  /\ UNCHANGED <<main, fifo, cut, SEM_BUFFER_CLIENTS, buffer, BUFFER_MUTEX,
                 manager, client_paths, client, alive>>

\* read() returns what there is, READ_SIZE at most, and leaves the rest.  What
\* it does not overwrite stays in the slot.
bytes_read == IF Len(fifo) < READ_SIZE THEN Len(fifo) ELSE READ_SIZE

HostRead ==
  /\ alive
  /\ host = "read"
  /\ fifo # << >>
  /\ BUFFER' = [BUFFER EXCEPT ![BUFFER_WRITE_INDEX] =
                  [msgs |-> SubSeq(fifo, 1, bytes_read),
                   used |-> Max({bytes_read, @.used})]]
  /\ fifo' = SubSeq(fifo, bytes_read + 1, Len(fifo))
  /\ cut' = (cut \/ (bytes_read < Len(fifo) /\ fifo[bytes_read + 1][2] # 1))
  /\ host' = "post"
  /\ UNCHANGED <<main, sems, BUFFER_READ_INDEX, BUFFER_WRITE_INDEX,
                 BUFFER_MUTEX, manager, client_paths, client, alive>>

HostPost ==
  /\ alive
  /\ host = "post"
  /\ BUFFER_WRITE_INDEX' = (BUFFER_WRITE_INDEX + 1) % MAX_SESSION_COUNT
  /\ SEM_BUFFER_CLIENTS' = SEM_BUFFER_CLIENTS + 1
  /\ host' = "wait"
  /\ UNCHANGED <<main, fifo, cut, SEM_BUFFER_SPACE, BUFFER, BUFFER_READ_INDEX,
                 BUFFER_MUTEX, manager, client_paths, client, alive>>

-----------------------------------------------------------------------------
(* thread_manage_session, to the answer of the registration. *)

At(m, here, there) ==
  /\ alive
  /\ manager[m] = here
  /\ manager' = [manager EXCEPT ![m] = there]

ManagerWait(m) ==
  /\ main = "created"
  /\ At(m, "wait", "lock")
  /\ SEM_BUFFER_CLIENTS > 0
  /\ SEM_BUFFER_CLIENTS' = SEM_BUFFER_CLIENTS - 1
  /\ UNCHANGED <<main, fifo, cut, host, SEM_BUFFER_SPACE, buffer, BUFFER_MUTEX,
                 client_paths, client, alive>>

SlipNoMutex(m) ==
  /\ At(m, "lock", "copy")
  /\ UNCHANGED <<main, fifo, cut, host, sems, buffer, BUFFER_MUTEX,
                 client_paths, client, alive>>

ManagerLock(m) ==
  /\ At(m, "lock", "copy")
  /\ BUFFER_MUTEX = Nobody
  /\ BUFFER_MUTEX' = m
  /\ UNCHANGED <<main, fifo, cut, host, sems, buffer, client_paths, client,
                 alive>>

ManagerCopy(m) ==
  /\ At(m, "copy", "unlock")
  /\ client_paths' = [client_paths EXCEPT ![m] = BUFFER[BUFFER_READ_INDEX]]
  /\ UNCHANGED <<main, fifo, cut, host, sems, buffer, BUFFER_MUTEX, client,
                 alive>>

SlipNoModulo(m) ==
  /\ At(m, "unlock", "post")
  /\ BUFFER_READ_INDEX' = BUFFER_READ_INDEX + 1
  /\ BUFFER_MUTEX' = Nobody
  /\ UNCHANGED <<main, fifo, cut, host, sems, BUFFER, BUFFER_WRITE_INDEX,
                 client_paths, client, alive>>

ManagerUnlock(m) ==
  /\ At(m, "unlock", "post")
  /\ BUFFER_READ_INDEX' = (BUFFER_READ_INDEX + 1) % MAX_SESSION_COUNT
  /\ BUFFER_MUTEX' = Nobody
  /\ UNCHANGED <<main, fifo, cut, host, sems, BUFFER, BUFFER_WRITE_INDEX,
                 client_paths, client, alive>>

\* A registration begins with its first character.
Begins(msgs) == msgs[1][2] = 1

\* sscanf finds a registration, or the middle of one.
Parsed(m) == IF Begins(client_paths[m].msgs) THEN "resp" ELSE "garbled"

SlipNoPost(m) ==
  /\ At(m, "post", Parsed(m))
  /\ UNCHANGED <<main, fifo, cut, host, sems, buffer, BUFFER_MUTEX,
                 client_paths, client, alive>>

SlipWrongSemaphore(m) ==
  /\ At(m, "post", Parsed(m))
  /\ SEM_BUFFER_CLIENTS' = SEM_BUFFER_CLIENTS + 1
  /\ UNCHANGED <<main, fifo, cut, host, SEM_BUFFER_SPACE, buffer, BUFFER_MUTEX,
                 client_paths, client, alive>>

ManagerPost(m) ==
  /\ At(m, "post", Parsed(m))
  /\ SEM_BUFFER_SPACE' = SEM_BUFFER_SPACE + 1
  /\ UNCHANGED <<main, fifo, cut, host, SEM_BUFFER_CLIENTS, buffer,
                 BUFFER_MUTEX, client_paths, client, alive>>

\* sscanf takes the request and response pipes from the first registration.
Served(m) == client_paths[m].msgs[1][1]

\* The name of the third pipe runs to the end of the slot: it is right only
\* if the slot holds one registration, not cut and with nothing left behind it.
OneMessage(slot) == slot.msgs = Message[slot.msgs[1][1]]
NoLeftover(slot) == slot.used = Len(slot.msgs)
NotCut(slot)     == Sent(slot.msgs[1][1]) = Length[slot.msgs[1][1]]

NamesRight(slot) == OneMessage(slot) /\ NoLeftover(slot) /\ NotCut(slot)

\* open() of a FIFO returns when the other side opens it too.
BothOpen(m, pipe, next) ==
  /\ At(m, pipe, next)
  /\ client[Served(m)] = pipe
  /\ client' = [client EXCEPT ![Served(m)] = next]
  /\ UNCHANGED <<main, fifo, cut, host, sems, buffer, BUFFER_MUTEX,
                 client_paths, alive>>

OpenResp(m) == BothOpen(m, "resp", "req")

OpenReq(m) == BothOpen(m, "req", "notif")

OpenNotif(m) ==
  /\ manager[m] = "notif"
  /\ NamesRight(client_paths[m])
  /\ BothOpen(m, "notif", "answer")

ServerExits ==
  /\ alive
  /\ alive' = FALSE
  /\ UNCHANGED <<main, fifo, cut, host, sems, buffer, BUFFER_MUTEX, manager,
                 client_paths, client>>

\* No FIFO has that name: open fails and the server exits.
OpenNotifFails(m) ==
  /\ manager[m] = "notif"
  /\ ~ NamesRight(client_paths[m])
  /\ ServerExits

\* "%s" has no width: a third name that does not fit is written past the end of
\* notif_pipe_path, which is undefined.  The process dies, or a name that it has
\* yet to open is overwritten and open fails; or nothing comes of it.
NameOverflows(m) ==
  /\ manager[m] \in {"resp", "req"}
  /\ client_paths[m].used - NotifAt[Served(m)] >= MAX_PIPE_PATH_LENGTH
  /\ ServerExits

\* From the middle of a registration sscanf takes other names, or none and the
\* arrays keep what they held.  An open fails; or it waits for ever; or the names
\* are old ones, for a session whose client is not followed here.
GarbledFails(m) ==
  /\ manager[m] = "garbled"
  /\ ServerExits

GarbledOpens(m) ==
  /\ \E there \in {"stuck", "wait"} : At(m, "garbled", there)
  /\ UNCHANGED <<main, fifo, cut, host, sems, buffer, BUFFER_MUTEX,
                 client_paths, client, alive>>

\* send_msg(resp_fd, "10"), and the client reads it.
Answer(m) == BothOpen(m, "answer", "connected")

\* The client is gone: the write raises SIGPIPE.
AnswerFails(m) ==
  /\ manager[m] = "answer"
  /\ client[Served(m)] = "crashed"
  /\ ServerExits

\* The manager reads a DISCONNECT or the end of the pipe, and closes all.
EndSession(m) ==
  /\ At(m, "connected", "wait")
  /\ client[Served(m)] \in {"leaving", "crashed"}
  /\ client' = [client EXCEPT ![Served(m)] =
                  IF @ = "leaving" THEN "gone" ELSE @]
  /\ UNCHANGED <<main, fifo, cut, host, sems, buffer, BUFFER_MUTEX,
                 client_paths, alive>>

-----------------------------------------------------------------------------
(* The clients: kvs_connect and kvs_disconnect. *)

\* A client that left may come back, with the same names.
Connect(c) ==
  /\ alive
  /\ client[c] \in {"start", "gone"}
  /\ fifo' = fifo \o Message[c]
  /\ client' = [client EXCEPT ![c] = "resp"]
  /\ UNCHANGED <<main, cut, host, sems, buffer, BUFFER_MUTEX, manager,
                 client_paths, alive>>

SlipDoesNotWait(c) ==
  /\ client[c] = "connected"
  /\ client' = [client EXCEPT ![c] = "gone"]
  /\ UNCHANGED <<main, fifo, cut, host, sems, buffer, BUFFER_MUTEX, manager,
                 client_paths, alive>>

Disconnect(c) ==
  /\ client[c] = "connected"
  /\ client' = [client EXCEPT ![c] = "leaving"]
  /\ UNCHANGED <<main, fifo, cut, host, sems, buffer, BUFFER_MUTEX, manager,
                 client_paths, alive>>

\* read_msg finds the end of the pipe of a server that died.
SeesServerDead(c) ==
  /\ ~ alive
  /\ client[c] \in {"answer", "leaving"}
  /\ client' = [client EXCEPT ![c] = "failed"]
  /\ UNCHANGED <<main, fifo, cut, host, sems, buffer, BUFFER_MUTEX, manager,
                 client_paths, alive>>

Crash(c) ==
  /\ c \in Mortal
  /\ client[c] \in {"resp", "req", "notif", "answer", "connected"}
  /\ client' = [client EXCEPT ![c] = "crashed"]
  /\ UNCHANGED <<main, fifo, cut, host, sems, buffer, BUFFER_MUTEX, manager,
                 client_paths, alive>>

-----------------------------------------------------------------------------

HostStep == HostStranded \/ HostWait \/ HostRead \/ HostPost

ManagerStep(m) ==
  \/ ManagerWait(m) \/ ManagerLock(m) \/ ManagerCopy(m) \/ ManagerUnlock(m)
  \/ ManagerPost(m) \/ OpenResp(m) \/ OpenReq(m) \/ OpenNotif(m)
  \/ OpenNotifFails(m) \/ NameOverflows(m) \/ GarbledFails(m) \/ GarbledOpens(m)
  \/ Answer(m) \/ AnswerFails(m) \/ EndSession(m)

ClientStep(c) == Disconnect(c) \/ SeesServerDead(c)

Next ==
  \/ MainInit
  \/ HostStep
  \/ \E m \in Manager : ManagerStep(m)
  \/ \E c \in Client : Connect(c) \/ ClientStep(c) \/ Crash(c)

\* Every thread is scheduled again and again, and a client's input ends in a
\* DISCONNECT, as src/SOParte2/src/client/main.c:131 asks.
Fairness ==
  /\ WF_vars(MainInit)
  /\ WF_vars(HostStep)
  /\ \A m \in Manager : WF_vars(ManagerStep(m))
  /\ \A c \in Client : WF_vars(ClientStep(c))

Spec == Init /\ [][Next]_vars

FairSpec == Spec /\ Fairness

-----------------------------------------------------------------------------
(* Properties. *)

Before == {"wait", "lock", "copy"}
Phases == {"resp", "req", "notif", "answer", "connected"}

\* The variables that say who goes on, and where.
Control ==
  /\ main \in {"init", "created"}
  /\ host \in {"wait", "read", "post", "stranded"}
  /\ SEM_BUFFER_SPACE \in Nat /\ SEM_BUFFER_CLIENTS \in Nat
  /\ BUFFER_READ_INDEX \in Slots /\ BUFFER_WRITE_INDEX \in Slots
  /\ BUFFER_MUTEX \in Manager \cup {Nobody}
  /\ manager \in [Manager -> Before \cup {"unlock", "post", "garbled", "stuck"}
                            \cup Phases]

Character == Client \X Nat

\* Every variable keeps its type; the indices stay inside BUFFER, and a manager
\* past its copy has something to parse.
TypeOK ==
  /\ Control
  /\ fifo \in Seq(Character)
  /\ cut \in BOOLEAN
  /\ BUFFER \in [Slots -> [msgs : Seq(Character), used : Nat]]
  /\ client_paths \in [Manager -> [msgs : Seq(Character), used : Nat]]
  /\ \A m \in Manager : manager[m] \notin Before => client_paths[m].msgs # << >>
  /\ client \in [Client -> Phases \cup
                    {"start", "leaving", "gone", "failed", "crashed"}]
  /\ alive \in BOOLEAN

\* A slot is never read and written at once: the host writes it without the
\* mutex ("Não é necessário lock", main.c:278), so only the semaphores and the
\* two indices keep it apart from the slot that a manager copies.
SlotNotShared ==
  \A m \in Manager :
    host = "read" /\ manager[m] = "copy" =>
      BUFFER_WRITE_INDEX # BUFFER_READ_INDEX

\* The managers that copied the slot at the read index.
Copied == {m \in Manager : manager[m] = "unlock"}

Waiting == {m \in Manager : manager[m] \in {"lock", "copy"}}

\* The full slots: posted, promised to a manager, or read but not posted.
Full ==
  SEM_BUFFER_CLIENTS + Cardinality(Waiting) + (IF host = "post" THEN 1 ELSE 0)

Queue ==
  [n \in 1 .. Full |->
     BUFFER[(BUFFER_READ_INDEX + Cardinality(Copied) + n - 1)
              % MAX_SESSION_COUNT].msgs]

Ring ==
  INSTANCE RegistrationQueue
    WITH offered <- fifo,
         queue   <- Queue,
         taken   <- [m \in Manager |-> client_paths[m].msgs]

\* The ring buffer, its indices and its semaphores are a bounded queue: a
\* manager that copies the slot at the read index gets the oldest entry, and
\* the host never overwrites an entry (main.c:275-313).
RefinesQueue == Ring!Spec

\* Where the registrations of client c begin.
Of(c, msgs) == {n \in DOMAIN msgs : msgs[n] = <<c, 1>>}

\* The managers that have not yet opened the last pipe of their client.
Holding ==
  {m \in Manager : manager[m] \in {"unlock", "post", "resp", "req", "notif"}}

\* The registrations of client c on the FIFO, in the full slots and with the
\* managers of a set: the place, which of them, and the position there.
Registrations(c, managers) ==
  ({"fifo"} \X {0} \X Of(c, fifo))
    \cup (UNION {{"slot"} \X {k} \X Of(c, Queue[k]) : k \in DOMAIN Queue})
    \cup (UNION {{"manager"} \X {m} \X Of(c, client_paths[m].msgs) : m \in managers})

\* While a client waits for its session there is exactly one registration of it
\* on the way, on the FIFO, in a slot or with a manager: until a read ends inside
\* a registration, the server neither loses one nor gives it to two managers
\* (main.c:273-313).
RegisteredOnce ==
  ~ cut =>
    \A c \in Client :
      client[c] = "resp" => Cardinality(Registrations(c, Holding)) = 1

\* A client in a session has one manager, which has no other client; and no two
\* managers open the pipes of one client, until a read ends inside a registration
\* (main.c:321-403).
SessionsPaired ==
  LET Serving == {m \in Manager : manager[m] \in Phases}
  IN  ~ cut =>
        /\ \A m, n \in Serving : Served(m) = Served(n) => m = n
        /\ \A c \in Client :
             client[c] \in {"req", "notif", "answer", "connected", "leaving"} =>
               \E m \in Serving :
                 /\ Served(m) = c
                 /\ manager[m] = IF client[c] = "leaving" THEN "connected"
                                                          ELSE client[c]

\* The registration of c is in one slot with that of a client killed since, for
\* which a manager waits.
LostWithDead(c) ==
  \E m \in Holding :
    client[Served(m)] = "crashed" /\ Of(c, client_paths[m].msgs) # {}

\* Every registration is answered, unless the server exited, its host ran too
\* early, the registration was merged with that of a client that was killed, or
\* a read ended inside a registration: no other interleaving of the host, the
\* managers and the clients blocks one for ever, while the clients in a session
\* leave it in the end and fewer clients are killed than there are managers to
\* be blocked by them.
AnsweredOrExit ==
  \A c \in Client :
    client[c] = "resp" ~> \/ client[c] \in {"connected", "crashed"}
                          \/ ~ alive
                          \/ host = "stranded"
                          \/ cut
                          \/ LostWithDead(c)

\* What a manager takes is one registration with the names of three pipes, as
\* the comment above its parsing says (main.c:315).
OneRegistrationTaken ==
  \A m \in Manager :
    manager[m] \in Phases => NamesRight(client_paths[m])

-----------------------------------------------------------------------------
(* The inductive invariant of the ring buffer. *)

Posting == {m \in Manager : manager[m] = "post"}

\* The slots between the two indices, the one being taken included.
Filled == SEM_BUFFER_CLIENTS + Cardinality(Waiting) + Cardinality(Copied)

\* Every slot is free, full, being filled, or taken and not yet given back.
Counted ==
  /\ main = "init" => /\ SEM_BUFFER_SPACE = 0 /\ SEM_BUFFER_CLIENTS = 0
                      /\ \A m \in Manager : manager[m] = "wait"
                      /\ host \in {"wait", "stranded"}
  /\ main = "created" =>
       SEM_BUFFER_SPACE + (IF host \in {"read", "post"} THEN 1 ELSE 0)
         + Filled + Cardinality(Posting) = MAX_SESSION_COUNT

\* The write index is as many slots past the read index, around the end.
Indexed ==
  \/ BUFFER_WRITE_INDEX = BUFFER_READ_INDEX + Filled
  \/ BUFFER_WRITE_INDEX = BUFFER_READ_INDEX + Filled - MAX_SESSION_COUNT

\* Who copies a slot has the mutex.
Locked ==
  \A m \in Manager : manager[m] \in {"copy", "unlock"} => BUFFER_MUTEX = m

\* The two arrays are arrays.
Arrays ==
  /\ BUFFER = [s \in Slots |-> BUFFER[s]]
  /\ client_paths = [m \in Manager |-> client_paths[m]]

IInv == Control /\ Counted /\ Indexed /\ Locked /\ Arrays

-----------------------------------------------------------------------------
(* The inductive invariant of the registrations: where they are, and what  *)
(* that says of their clients.                                             *)

\* The managers that have copied a slot for the session they are in.
Engaged == {m \in Manager : manager[m] \notin Before}

\* Where the client of a registration may be, when it is the first a manager
\* has, and when it is anywhere else.
Follows(phase) ==
  CASE phase \in {"unlock", "post"} -> {"resp", "crashed"}
    [] phase = "answer"             -> {"answer", "failed", "crashed"}
    [] phase = "connected"          -> {"connected", "leaving", "failed", "crashed"}
    [] OTHER                        -> {phase, "crashed"}

Allowed(r) ==
  IF r[1] = "manager" /\ r[3] = 1 THEN Follows(manager[r[2]])
                                  ELSE {"resp", "crashed"}

\* A client has one registration from kvs_connect to the end of its session and
\* none before and after, and is where the place of its registration allows.
Tracked ==
  \A c \in Client :
    LET Mine == Registrations(c, Engaged) IN
    /\ \A r, q \in Mine : r = q
    /\ client[c] \in {"start", "gone"} => Mine = {}
    /\ client[c] \in Phases \cup {"leaving"} => Mine # {}
    /\ \A r \in Mine : client[c] \in Allowed(r)

\* A full slot holds something to parse.
Occupied == \A k \in DOMAIN Queue : Queue[k] # << >>

\* Registrations are whole: the FIFO, the full slots and the managers begin with
\* one, and a manager that opened the last pipe has just that of its client.
Whole ==
  /\ fifo = << >> \/ Begins(fifo)
  /\ \A k \in DOMAIN Queue : Begins(Queue[k])
  /\ \A m \in Engaged : /\ manager[m] \notin {"garbled", "stuck"}
                         /\ Begins(client_paths[m].msgs)
  /\ \A m \in Manager :
       manager[m] \in {"answer", "connected"} => OneMessage(client_paths[m])

\* Until a read ends inside a registration.
UntilCut == ~ cut => Whole /\ Tracked

=============================================================================
