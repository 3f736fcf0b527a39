------------------------------ MODULE Session ------------------------------
(***************************************************************************)
(* What follows a registration: a client writes requests to its pipe, the  *)
(* session manager that has it (thread_manage_session) reads and handles   *)
(* them, and the subscriptions they make are kept as file descriptors in   *)
(* the nodes of the hash table, which the job threads create and free.     *)
(*                                                                         *)
(* Sources: src/SOParte2/src/server/main.c, kvs.c and operations.c,        *)
(* src/SOParte2/src/client/api.c.                                          *)
(*                                                                         *)
(* A request is bytes: an opcode and, but for DISCONNECT, a key.  It is    *)
(* written without terminator or padding, so the pipe is one sequence of   *)
(* bytes, and a read takes what is there: part of a request, one or many.  *)
(* A key is the sequence of its characters.                                *)
(***************************************************************************)
EXTENDS Integers, SequencesExt

CONSTANTS
  Client,
  Manager,
  MAX_SESSION_COUNT,  \* length of the array subscriber_fds of a node
  Key,                \* the keys clients and job files name
  Fd,                 \* the numbers notification pipes may get in the server
  MallocContents,     \* what subscriber_fds may hold in a new node
  REQUEST_SIZE,       \* sizeof(request), 42 in the code
  PIPE_SIZE,          \* the bytes a pipe holds: a write waits for room
  Input,              \* the inputs each client may be started with
  Mortal,             \* the clients that may be killed
  Nobody,             \* the client of a manager without session
  NoNode              \* what a key that is not in the table has

DISCONNECT  == 2
SUBSCRIBE   == 3
UNSUBSCRIBE == 4

OpCodes == {DISCONNECT, SUBSCRIBE, UNSUBSCRIBE}

\* A byte of a pipe: an opcode or a letter.
Byte == OpCodes \cup 97 .. 122

\* The requests that api.c makes.
Request ==
  {r \in [op : OpCodes, key : Key \cup {<< >>}] : r.op = DISCONNECT <=> r.key = << >>}

Entries == 1 .. MAX_SESSION_COUNT

ASSUME SessionAssumption ==
  /\ MAX_SESSION_COUNT \in Nat \ {0}
  /\ \A k \in Key : k \in Seq(97 .. 122) /\ k # << >>
  /\ REQUEST_SIZE \in Nat \ {0} /\ PIPE_SIZE \in Nat
  \* The parser leaves at most 39 characters of a key.
  /\ \A k \in Key : 1 + Len(k) < REQUEST_SIZE
  /\ Input \in [Client -> SUBSET Seq(Request)]
  /\ Fd \subseteq Nat \ {0}
  /\ Cardinality(Fd) >= Cardinality(Manager)
  /\ MallocContents \subseteq [Entries -> Fd \cup {0}]
  /\ Mortal \subseteq Client
  /\ Nobody \notin Client
  /\ NoNode \notin [Entries -> Fd \cup {0}]

VARIABLES
  client,      \* where each client is
  input,       \* the requests of its input that it has not come to
  request_pipe,  \* the bytes written to a client's pipe and not read
  asked,       \* the requests it sent since it was started: the program does not
               \* keep them, the properties compare what the server does to them
  manager,     \* where each session manager is
  serves,      \* the client whose pipes it has open
  notif_fd,    \* its descriptor of that client's notification pipe, or 0
  request,     \* its array request, up to the first NUL
  node,        \* node[k], subscriber_fds of the node of k
  subscribed,  \* the keys each client was told that it subscribed
  inherited,   \* the clients whose pipes the child of a BACKUP has open
  alive        \* whether the server process still runs

pipes == <<input, request_pipe, asked>>
owned == <<serves, notif_fd>>
store == <<node, subscribed>>

vars == <<client, pipes, manager, owned, request, store, inherited, alive>>

Init ==
  /\ client = [c \in Client |-> "away"]
  /\ input = [c \in Client |-> << >>]
  /\ request_pipe = [c \in Client |-> << >>]
  /\ asked = [c \in Client |-> {}]
  /\ manager = [m \in Manager |-> "free"]
  /\ serves = [m \in Manager |-> Nobody]
  /\ notif_fd = [m \in Manager |-> 0]
  /\ request = [m \in Manager |-> << >>]
  /\ node = [k \in Key |-> NoNode]
  /\ subscribed = [c \in Client |-> {}]
  /\ inherited = {}
  /\ alive = TRUE

-----------------------------------------------------------------------------
(* Clients. *)

\* A client is started and connects: module Registration has the way here.  open()
\* returns a number not in use.
Open(m, c) ==
  /\ alive
  /\ manager[m] = "free" /\ client[c] = "away"
  /\ \E fd \in Fd \ Range(notif_fd) :
       notif_fd' = [notif_fd EXCEPT ![m] = fd]
  /\ manager' = [manager EXCEPT ![m] = "read"]
  /\ serves' = [serves EXCEPT ![m] = c]
  /\ client' = [client EXCEPT ![c] = "open"]
  /\ \E i \in Input[c] : input' = [input EXCEPT ![c] = i]
  /\ UNCHANGED <<request_pipe, asked, request, store, inherited, alive>>

\* The next request of the input: so few bytes are written all at once, when there
\* is room for them.
Send(c) ==
  /\ alive
  /\ client[c] = "open"
  /\ input[c] # << >>
  /\ LET r == Head(input[c]) IN
     /\ Len(request_pipe[c]) + 1 + Len(r.key) <= PIPE_SIZE
     /\ request_pipe' = [request_pipe EXCEPT ![c] = @ \o <<r.op>> \o r.key]
     /\ asked' = [asked EXCEPT ![c] = @ \cup {r}]
  /\ input' = [input EXCEPT ![c] = Tail(@)]
  /\ UNCHANGED <<manager, owned, request, store, inherited, alive>>

\* kvs_subscribe and kvs_unsubscribe of api.c: they wait for no answer.
Ask(c) ==
  /\ Send(c)
  /\ Head(input[c]).op \in {SUBSCRIBE, UNSUBSCRIBE}
  /\ UNCHANGED client

\* kvs_disconnect sends its request and waits for its response pipe to end.
Disconnect(c) ==
  /\ Send(c)
  /\ Head(input[c]).op = DISCONNECT
  /\ client' = [client EXCEPT ![c] = "leaving"]

\* The response pipe ends when the server, and the children that inherited it,
\* have closed it; the client removes its pipes and ends, and may be started again.
DisconnectReturns(c) ==
  /\ client[c] = "leaving"
  /\ ~ alive \/ c \notin Range(serves)
  /\ c \notin inherited
  /\ client' = [client EXCEPT ![c] = "away"]
  /\ request_pipe' = [request_pipe EXCEPT ![c] = << >>]
  /\ input' = [input EXCEPT ![c] = << >>]
  /\ asked' = [asked EXCEPT ![c] = {}]
  /\ UNCHANGED <<manager, owned, request, store, inherited, alive>>

Crash(c) ==
  /\ c \in Mortal
  /\ client[c] \in {"open", "leaving"}
  /\ client' = [client EXCEPT ![c] = "crashed"]
  /\ UNCHANGED <<pipes, manager, owned, request, store, inherited, alive>>

-----------------------------------------------------------------------------
(* thread_manage_session *)

\* read returns what there is, up to the size of the array, and leaves the rest;
\* what it does not overwrite of the array stays.
Read(m) ==
  /\ alive
  /\ manager[m] = "read"
  /\ request_pipe[serves[m]] # << >>
  /\ LET bytes == request_pipe[serves[m]]
         bytes_read == IF Len(bytes) < REQUEST_SIZE THEN Len(bytes) ELSE REQUEST_SIZE
     IN /\ request' = [request EXCEPT ![m] = SubSeq(bytes, 1, bytes_read)
                                              \o SubSeq(@, bytes_read + 1, Len(@))]
        /\ request_pipe' = [request_pipe EXCEPT
                              ![serves[m]] = SubSeq(@, bytes_read + 1, Len(@))]
  /\ manager' = [manager EXCEPT ![m] = "handle"]
  /\ UNCHANGED <<client, input, asked, owned, store, inherited, alive>>

op_code(m) == Head(request[m])

\* strncpy(key, request + 1, 41).  When the array is full, the copy has no end;
\* with what follows it in memory it is longer than any key of the table, too.
key(m) == Tail(request[m])

InTable(k) == k \in Key /\ node[k] # NoNode

\* Slip: always the first entry.
SlipFirstEntry(fds, fd) == 1

\* The first entry of subscriber_fds that holds fd.
FirstWith(fds, fd) ==
  CHOOSE n \in Entries : fds[n] = fd /\ \A l \in 1 .. n - 1 : fds[l] # fd

\* Slip: no test for "Subscriber already exists".
SlipAddsTwice(k, fd) == InTable(k) /\ 0 \in Range(node[k])

\* add_subscriber and remove_subscriber: whether they return 0.
MayAdd(k, fd) ==
  InTable(k) /\ fd \notin Range(node[k]) /\ 0 \in Range(node[k])

MayRemove(k, fd) == InTable(k) /\ fd \in Range(node[k])

Replace(k, old, new) ==
  node' = [node EXCEPT ![k][FirstWith(node[k], old)] = new]

\* send_msg(notif_fd, response), or SIGPIPE if the client was killed.
Answered(m, then) ==
  IF client[serves[m]] = "crashed"
  THEN alive' = FALSE /\ UNCHANGED manager
  ELSE /\ manager' = [manager EXCEPT ![m] = then]
       /\ UNCHANGED alive

Handles(m, op) ==
  /\ alive
  /\ manager[m] = "handle"
  /\ op_code(m) = op
  /\ UNCHANGED <<client, pipes, owned, request, inherited>>

\* The chain of the key is locked meanwhile, so the job threads of KVStore see
\* a subscription made or not made.
HandleSubscribe(m) ==
  /\ Handles(m, SUBSCRIBE)
  /\ IF MayAdd(key(m), notif_fd[m])
     THEN /\ Replace(key(m), 0, notif_fd[m])
          /\ subscribed' = [subscribed EXCEPT ![serves[m]] = @ \cup {key(m)}]
     ELSE UNCHANGED store
  /\ Answered(m, "read")

HandleUnsubscribe(m) ==
  /\ Handles(m, UNSUBSCRIBE)
  /\ IF MayRemove(key(m), notif_fd[m])
     THEN /\ Replace(key(m), notif_fd[m], 0)
          /\ subscribed' = [subscribed EXCEPT ![serves[m]] = @ \ {key(m)}]
     ELSE UNCHANGED store
  /\ Answered(m, "read")

\* Slip: the break leaves the switch and not the loop.
SlipReadsOn(m) ==
  /\ Handles(m, DISCONNECT)
  /\ UNCHANGED store
  /\ Answered(m, "read")

HandleDisconnect(m) ==
  /\ Handles(m, DISCONNECT)
  /\ UNCHANGED store
  /\ Answered(m, "close")

\* The default of the switch: what was read starts inside a key, and is not answered.
HandleInvalid(m) ==
  /\ alive
  /\ manager[m] = "handle"
  /\ op_code(m) \notin OpCodes
  /\ manager' = [manager EXCEPT ![m] = "read"]
  /\ UNCHANGED <<client, pipes, owned, request, store, inherited, alive>>

\* Slip: bytes_read = 0 is not tested.
SlipNoEndTest(m) ==
  /\ alive
  /\ manager[m] = "read"
  /\ client[serves[m]] = "crashed"
  /\ request_pipe[serves[m]] = << >>
  /\ manager' = [manager EXCEPT ![m] = "handle"]
  /\ UNCHANGED <<client, pipes, owned, request, store, inherited, alive>>

\* Slip: after the end of the pipe, the manager reads again.
SlipContinues(m) ==
  /\ manager[m] = "read"
  /\ client[serves[m]] = "crashed"
  /\ UNCHANGED vars

\* read returns 0 when the client was killed and its pipe is empty.
EndOfPipe(m) ==
  /\ alive
  /\ manager[m] = "read"
  /\ client[serves[m]] = "crashed"
  /\ request_pipe[serves[m]] = << >>
  /\ manager' = [manager EXCEPT ![m] = "close"]
  /\ UNCHANGED <<client, pipes, owned, request, store, inherited, alive>>

\* Slip: the array request is declared once, before the loop of the sessions.
SlipKeepsArray(m) ==
  /\ alive
  /\ manager[m] = "close"
  /\ subscribed' = [subscribed EXCEPT ![serves[m]] = {}]
  /\ notif_fd' = [notif_fd EXCEPT ![m] = 0]
  /\ serves' = [serves EXCEPT ![m] = Nobody]
  /\ manager' = [manager EXCEPT ![m] = "free"]
  /\ UNCHANGED <<client, pipes, request, node, inherited, alive>>

\* The descriptors are closed, and stay in the nodes that have them.  The next
\* session has a new array request = {0}.
Close(m) ==
  /\ alive
  /\ manager[m] = "close"
  /\ subscribed' = [subscribed EXCEPT ![serves[m]] = {}]
  /\ notif_fd' = [notif_fd EXCEPT ![m] = 0]
  /\ serves' = [serves EXCEPT ![m] = Nobody]
  /\ manager' = [manager EXCEPT ![m] = "free"]
  /\ request' = [request EXCEPT ![m] = << >>]
  /\ UNCHANGED <<client, pipes, node, inherited, alive>>

-----------------------------------------------------------------------------
(* The job threads and their children, as far as sessions see them. *)

\* write_pair: a new node gets no initial subscriber_fds.
WriteNew(k) ==
  /\ alive
  /\ node[k] = NoNode
  /\ \E fds \in MallocContents : node' = [node EXCEPT ![k] = fds]
  /\ UNCHANGED <<client, pipes, manager, owned, request, subscribed, inherited,
                 alive>>

\* delete_pair frees the node, subscriptions and all.
Delete(k) ==
  /\ alive
  /\ node[k] # NoNode
  /\ node' = [node EXCEPT ![k] = NoNode]
  /\ subscribed' = [c \in Client |-> subscribed[c] \ {k}]
  /\ UNCHANGED <<client, pipes, manager, owned, request, inherited, alive>>

\* A BACKUP: the child has a copy of every descriptor until it exits.  Here
\* max_backups is 1: KVStore has the waiting for several children.
Fork ==
  /\ alive
  /\ inherited = {}
  /\ inherited' = Range(serves) \ {Nobody}
  /\ UNCHANGED <<client, pipes, manager, owned, request, store, alive>>

ChildExit ==
  /\ inherited # {}
  /\ inherited' = {}
  /\ UNCHANGED <<client, pipes, manager, owned, request, store, alive>>

-----------------------------------------------------------------------------

ManagerStep(m) ==
  \/ Read(m) \/ HandleSubscribe(m) \/ HandleUnsubscribe(m)
  \/ HandleDisconnect(m) \/ HandleInvalid(m) \/ EndOfPipe(m) \/ Close(m)

Next ==
  \/ \E m \in Manager : ManagerStep(m) \/ \E c \in Client : Open(m, c)
  \/ \E c \in Client : Ask(c) \/ Disconnect(c) \/ DisconnectReturns(c) \/ Crash(c)
  \/ \E k \in Key : WriteNew(k) \/ Delete(k)
  \/ Fork
  \/ ChildExit

\* Managers and children are scheduled again and again, and so is a client that
\* waits for its response pipe.
Fairness ==
  /\ \A m \in Manager : WF_vars(ManagerStep(m))
  /\ \A c \in Client : WF_vars(DisconnectReturns(c))
  /\ WF_vars(ChildExit)

Spec == Init /\ [][Next]_vars

FairSpec == Spec /\ Fairness

-----------------------------------------------------------------------------
(* Properties. *)

\* Every variable keeps its type, and a manager past its read has read something.
TypeOK ==
  /\ client \in [Client -> {"away", "open", "leaving", "crashed"}]
  /\ request_pipe \in [Client -> Seq(Byte)]
  /\ asked \in [Client -> SUBSET Request]
  /\ input \in [Client -> Seq(Request)]
  /\ manager \in [Manager -> {"free", "read", "handle", "close"}]
  /\ serves \in [Manager -> Client \cup {Nobody}]
  /\ notif_fd \in [Manager -> Fd \cup {0}]
  /\ request \in [Manager -> Seq(Byte)]
  /\ \A m \in Manager : manager[m] = "handle" => request[m] # << >>
  /\ node \in [Key -> [Entries -> Fd \cup {0}] \cup {NoNode}]
  /\ subscribed \in [Client -> SUBSET Key]
  /\ inherited \subseteq Client
  /\ alive \in BOOLEAN

\* Every byte is of one of the requests rs.
MadeOf(bytes, rs) ==
  \A b \in Range(bytes) : \E r \in rs : b = r.op \/ b \in Range(r.key)

\* The server takes for a request only the start of one that this client sent in
\* this session, whole, even if a read cut the one before it or took several; and
\* what follows its key in the array is of this session, too (main.c:339-392).
OwnRequestsOnly ==
  \A m \in Manager : alive /\ manager[m] = "handle" /\ op_code(m) \in OpCodes =>
    /\ \E r \in asked[serves[m]] : r.op = op_code(m) /\ IsPrefix(r.key, key(m))
    /\ MadeOf(request[m], asked[serves[m]])

\* A descriptor is in subscriber_fds once, so that a removal ends the
\* subscription and a notification is sent once (kvs.c:58-67).
SubscribedOnce ==
  \A k \in Key : node[k] # NoNode =>
    \A n, l \in Entries : node[k][n] = node[k][l] /\ node[k][n] # 0 => n = l

\* Who was told that it subscribed stays so until it unsubscribes, leaves or the
\* key is deleted, whatever other sessions do to the same node.
SubscriptionsKept ==
  \A m \in Manager : serves[m] # Nobody =>
    \A k \in subscribed[serves[m]] :
      InTable(k) /\ notif_fd[m] \in Range(node[k])

\* kvs_disconnect returns ("@return 0 in case of success, 1 otherwise",
\* api.h:17), also when a BACKUP child has a copy of its pipe for a while.
DisconnectEnds ==
  \A c \in Client : client[c] = "leaving" ~> client[c] \in {"away", "crashed"}

\* It returns if DISCONNECT comes first in a read, after as many full reads as what
\* is on the pipe before it takes, whatever was sent back to back (main.c:345-397).
DisconnectFirstEnds ==
  \A c \in Client :
    client[c] = "leaving" /\ Len(request_pipe[c]) % REQUEST_SIZE = 1
      ~> client[c] \in {"away", "crashed"}

\* A client that is killed does not keep its manager: its session ends, or its
\* death kills the server.
SessionsEnd ==
  \A m \in Manager, c \in Client :
    serves[m] = c /\ client[c] = "crashed" ~> serves[m] # c \/ ~ alive

-----------------------------------------------------------------------------
(* The inductive invariant. *)

\* A manager that is not free has a client of its own and a descriptor of its own,
\* and only clients that a manager has are subscribed to a key.
Owned ==
  /\ \A m \in Manager :
       /\ manager[m] = "free" <=> serves[m] = Nobody
       /\ notif_fd[m] = 0 <=> serves[m] = Nobody
       /\ alive /\ serves[m] # Nobody => client[serves[m]] # "away"
  /\ \A m, n \in Manager : m # n =>
       /\ serves[m] = serves[n] => serves[m] = Nobody
       /\ notif_fd[m] = notif_fd[n] => notif_fd[m] = 0
  /\ \A c \in Client : c \notin Range(serves) => subscribed[c] = {}

IInv == TypeOK /\ Owned /\ SubscriptionsKept

\* Every opcode among the bytes has the key of its request after it.
Framed(bytes, rs) ==
  \A n \in 1 .. Len(bytes) : bytes[n] \in OpCodes =>
    \E r \in rs :
      /\ r.op = bytes[n]
      /\ n + Len(r.key) <= Len(bytes)
      /\ \A i \in 1 .. Len(r.key) : bytes[n + i] = r.key[i]

\* A pipe holds the requests of its client, from where the last read stopped, and
\* the array of a manager what came on the pipe of its session.
OwnBytes ==
  /\ \A c \in Client :
       /\ client[c] = "away" => request_pipe[c] = << >>
       /\ MadeOf(request_pipe[c], asked[c]) /\ Framed(request_pipe[c], asked[c])
  /\ \A m \in Manager : alive =>
       IF manager[m] = "free" THEN request[m] = << >>
                              ELSE MadeOf(request[m], asked[serves[m]])

OInv == IInv /\ OwnBytes /\ OwnRequestsOnly

=============================================================================
