--------------------------- MODULE Session_proofs ---------------------------
(***************************************************************************)
(* Proofs about Session for any clients, managers, keys, descriptors and   *)
(* inputs, and any sizes of the array and of the pipe: what the managers   *)
(* take for requests, and what the nodes of the table hold of the          *)
(* subscriptions that clients were told of, whatever other sessions, job   *)
(* threads and crashes do.                                                 *)
(***************************************************************************)
EXTENDS Session, FiniteSetTheorems, TLAPS

-----------------------------------------------------------------------------
(* The array subscriber_fds of a node. *)

\* A set of natural numbers that is not empty has a least element.
LEMMA LeastElement ==
  ASSUME NEW S \in SUBSET Nat, NEW n \in S
  PROVE  \E m \in S : \A l \in 1 .. m - 1 : l \notin S
<1> DEFINE T == {1 .. m : m \in S}
<1> DEFINE R == StrictSubsetOrdering(Nat)
<1>1. \A m \in S : 1 .. m \in FiniteSubsetsOf(Nat)
  BY FS_Interval DEF FiniteSubsetsOf
<1>2. T \subseteq FiniteSubsetsOf(Nat) /\ 1 .. n \in T
  BY <1>1
<1>3. IsWellFoundedOn(R, FiniteSubsetsOf(Nat))
  BY FS_StrictSubsetOrderingWellFounded
<1>4. PICK x \in T : \A y \in T : ~ (<<y, x>> \in R)
  <2> HIDE DEF T, R
  <2> QED BY <1>2, <1>3, WFMin
<1>5. PICK m \in S : x = 1 .. m
  BY <1>4
<1>6. ASSUME NEW l \in 1 .. m - 1, l \in S PROVE FALSE
  <2>1. m \in Nat /\ l \in Nat /\ l < m
    BY <1>6
  <2>2. 1 .. l \subseteq 1 .. m /\ m \in 1 .. m /\ m \notin 1 .. l
    BY <2>1, <1>6
  <2>3. <<1 .. l, 1 .. m>> \in R
    BY <2>1, <2>2 DEF StrictSubsetOrdering
  <2>4. 1 .. l \in T
    BY <1>6
  <2> QED BY <1>4, <1>5, <2>3, <2>4
<1> QED BY <1>6

\* The loop over the array finds the descriptor that it looks for.
LEMMA FirstWithFinds ==
  ASSUME NEW fds \in [Entries -> Fd \cup {0}], NEW fd \in Range(fds)
  PROVE  FirstWith(fds, fd) \in Entries /\ fds[FirstWith(fds, fd)] = fd
<1> DEFINE S == {n \in Entries : fds[n] = fd}
<1>1. PICK n \in Entries : fds[n] = fd
  BY DEF Range
<1>2. S \in SUBSET Nat /\ n \in S
  BY <1>1 DEF Entries
<1>3. PICK m \in S : \A l \in 1 .. m - 1 : l \notin S
  <2> HIDE DEF S
  <2> QED BY <1>2, LeastElement
<1>4. \A l \in 1 .. m - 1 : l \in Entries
  BY SessionAssumption DEF Entries
<1>5. m \in Entries /\ fds[m] = fd /\ \A l \in 1 .. m - 1 : fds[l] # fd
  BY <1>3, <1>4
<1> QED BY <1>5 DEF FirstWith

Fds == [Entries -> Fd \cup {0}]

\* add_subscriber and remove_subscriber change one entry of one node.
LEMMA Replaced ==
  ASSUME node \in [Key -> Fds \cup {NoNode}],
         NEW k \in Key, node[k] # NoNode,
         NEW old \in Range(node[k]), NEW new \in Fd \cup {0}, Replace(k, old, new)
  PROVE  /\ node' \in [Key -> Fds \cup {NoNode}] /\ node'[k] # NoNode
         /\ \A j \in Key : j # k => node'[j] = node[j]
         /\ \E e \in Entries :
              /\ node[k][e] = old
              /\ node'[k] = [node[k] EXCEPT ![e] = new]
<1> DEFINE e == FirstWith(node[k], old)
<1>1. node[k] \in Fds
  OBVIOUS
<1>2. e \in Entries /\ node[k][e] = old
  BY <1>1, FirstWithFinds DEF Fds
<1>3. node' = [node EXCEPT ![k][e] = new]
  BY DEF Replace
<1> HIDE DEF e
<1>4. node' = [node EXCEPT ![k] = [node[k] EXCEPT ![e] = new]]
  BY <1>3
<1>5. [node[k] EXCEPT ![e] = new] \in Fds
  BY <1>1 DEF Fds
<1>6. NoNode \notin Fds
  BY SessionAssumption DEF Fds
<1>7. node'[k] = [node[k] EXCEPT ![e] = new]
  BY <1>4
<1> QED BY <1>2, <1>4, <1>5, <1>6, <1>7

-----------------------------------------------------------------------------
(* The types. *)

\* Clients name keys of lower case letters, and DISCONNECT has none.
LEMMA RequestType ==
  ASSUME NEW r \in Request
  PROVE  /\ r.op \in OpCodes /\ r.key \in Key \cup {<< >>}
         /\ r.key \in Seq(97 .. 122) /\ r.key \in Seq(Byte)
         /\ <<r.op>> \in Seq(Byte) /\ Len(<<r.op>>) = 1 /\ <<r.op>>[1] = r.op
<1>1. r.op \in OpCodes /\ r.key \in Key \cup {<< >>}
  BY DEF Request
<1>2. r.key \in Seq(97 .. 122)
  <2>1. << >> \in Seq(97 .. 122)
    OBVIOUS
  <2>2. r.key \in Key => r.key \in Seq(97 .. 122)
    BY SessionAssumption
  <2> QED BY <1>1, <2>1, <2>2
<1>3. r.key \in Seq(Byte)
  BY <1>2 DEF Byte
<1>4. r.op \in Byte
  BY <1>1 DEF Byte
<1> QED BY <1>1, <1>2, <1>3, <1>4

\* A read of a pipe that holds s, into an array that holds old: it takes
\* something, and the array is at least as long as what was taken.
BytesRead(s) == IF Len(s) < REQUEST_SIZE THEN Len(s) ELSE REQUEST_SIZE

Overlaid(s, old) ==
  SubSeq(s, 1, BytesRead(s)) \o SubSeq(old, BytesRead(s) + 1, Len(old))

Left(s) == SubSeq(s, BytesRead(s) + 1, Len(s))

LEMMA Elements ==
  ASSUME NEW S, NEW s \in Seq(S)
  PROVE  /\ \A i \in 1 .. Len(s) : s[i] \in S /\ s[i] \in Range(s)
         /\ \A x \in Range(s) : \E i \in 1 .. Len(s) : x = s[i]
<1>1. DOMAIN s = 1 .. Len(s)
  OBVIOUS
<1>2. \A i \in 1 .. Len(s) : s[i] \in S
  OBVIOUS
<1> QED BY <1>1, <1>2 DEF Range

LEMMA Joined ==
  ASSUME NEW s \in Seq(Byte), NEW t \in Seq(Byte)
  PROVE  /\ s \o t \in Seq(Byte) /\ Len(s \o t) = Len(s) + Len(t)
         /\ \A i \in 1 .. Len(s) + Len(t) :
              (s \o t)[i] = IF i <= Len(s) THEN s[i] ELSE t[i - Len(s)]
OBVIOUS

LEMMA ReadTakes ==
  ASSUME NEW s \in Seq(Byte), s # << >>
  PROVE  /\ BytesRead(s) \in 1 .. Len(s) /\ BytesRead(s) <= REQUEST_SIZE
         /\ BytesRead(s) \in {Len(s), REQUEST_SIZE}
<1>1. Len(s) \in Nat /\ Len(s) # 0 /\ REQUEST_SIZE \in Nat \ {0}
  BY SessionAssumption
<1> QED BY <1>1 DEF BytesRead

LEMMA ReadTypes ==
  ASSUME NEW s \in Seq(Byte), s # << >>, NEW old \in Seq(Byte)
  PROVE  /\ Left(s) \in Seq(Byte) /\ Len(Left(s)) = Len(s) - BytesRead(s)
         /\ \A i \in 1 .. Len(s) - BytesRead(s) : Left(s)[i] = s[BytesRead(s) + i]
         /\ Overlaid(s, old) \in Seq(Byte)
         /\ Len(Overlaid(s, old)) \in Nat /\ Len(Overlaid(s, old)) >= BytesRead(s)
         /\ Overlaid(s, old) # << >>
         /\ \A i \in 1 .. BytesRead(s) : Overlaid(s, old)[i] = s[i]
         /\ \A i \in 1 .. Len(Overlaid(s, old)) :
              Overlaid(s, old)[i] \in Range(s) \cup Range(old)
<1> DEFINE n == BytesRead(s)
          front == SubSeq(s, 1, n)
          back  == SubSeq(old, n + 1, Len(old))
<1>1. n \in 1 .. Len(s) /\ Len(s) \in Nat /\ n \in Nat /\ n # 0
  BY ReadTakes
<1> HIDE DEF n
<1>2. /\ front \in Seq(Byte) /\ Len(front) = n
      /\ \A i \in 1 .. n : front[i] = s[i]
  BY <1>1
<1>3. /\ back \in Seq(Byte) /\ Len(back) \in Nat
      /\ \A i \in 1 .. Len(back) : back[i] \in Range(old)
  <2>1. Len(old) \in Nat /\ n + 1 \in Nat \ {0}
    BY <1>1
  <2>2. back \in Seq(Byte)
    BY <2>1
  <2>3. CASE n + 1 <= Len(old)
    <3>1. Len(back) = Len(old) - n
      BY <1>1, <2>1, <2>3
    <3>2. \A i \in 1 .. Len(back) : back[i] = old[n + i] /\ n + i \in 1 .. Len(old)
      BY <1>1, <2>1, <2>3, <3>1
    <3>3. \A i \in 1 .. Len(old) : old[i] \in Range(old)
      BY Elements
    <3> QED BY <2>1, <2>2, <2>3, <3>1, <3>2, <3>3
  <2>4. CASE ~ (n + 1 <= Len(old))
    <3>1. Len(back) = 0
      BY <1>1, <2>1, <2>4
    <3> QED BY <2>2, <3>1
  <2> QED BY <2>1, <2>3, <2>4
<1>4. /\ SubSeq(s, n + 1, Len(s)) \in Seq(Byte)
      /\ Len(SubSeq(s, n + 1, Len(s))) = Len(s) - n
      /\ \A i \in 1 .. Len(s) - n : SubSeq(s, n + 1, Len(s))[i] = s[n + i]
  BY <1>1
<1>5. /\ Overlaid(s, old) = front \o back /\ Left(s) = SubSeq(s, n + 1, Len(s))
      /\ BytesRead(s) = n
  BY DEF Overlaid, Left, n
<1> HIDE DEF front, back
<1>6. /\ front \o back \in Seq(Byte) /\ Len(front \o back) = n + Len(back)
      /\ \A i \in 1 .. n : (front \o back)[i] = front[i]
      /\ \A i \in 1 .. Len(front \o back) :
           i > n => (front \o back)[i] = back[i - n] /\ i - n \in 1 .. Len(back)
  <2>1. /\ front \o back \in Seq(Byte) /\ Len(front \o back) = Len(front) + Len(back)
        /\ \A i \in 1 .. Len(front) + Len(back) :
             (front \o back)[i] = IF i <= Len(front) THEN front[i] ELSE back[i - Len(front)]
    BY <1>2, <1>3, Joined
  <2>2. /\ Len(front \o back) = n + Len(back)
        /\ \A i \in 1 .. n + Len(back) :
             (front \o back)[i] = IF i <= n THEN front[i] ELSE back[i - n]
    BY <1>2, <2>1
  <2>3. \A i \in 1 .. n : i \in 1 .. n + Len(back) /\ i <= n
    BY <1>1, <1>3
  <2>4. \A i \in 1 .. n + Len(back) : i > n => i - n \in 1 .. Len(back) /\ ~ (i <= n)
    BY <1>1, <1>3
  <2> QED BY <2>1, <2>2, <2>3, <2>4
<1>7. front \o back # << >>
  BY <1>1, <1>3, <1>6
<1>8. ASSUME NEW i \in 1 .. Len(front \o back)
      PROVE  (front \o back)[i] \in Range(s) \cup Range(old)
  <2>1. CASE i <= n
    <3>1. i \in 1 .. n /\ i \in 1 .. Len(s)
      BY <1>1, <2>1
    <3>2. (front \o back)[i] = s[i]
      BY <1>2, <1>6, <3>1
    <3> QED BY <3>1, <3>2, Elements
  <2>2. CASE i > n
    BY <1>3, <1>6, <2>2
  <2> QED BY <1>1, <2>1, <2>2
<1>9. /\ Len(front \o back) \in Nat /\ Len(front \o back) >= n
      /\ \A i \in 1 .. n : (front \o back)[i] = s[i]
  BY <1>1, <1>2, <1>3, <1>6
<1> HIDE DEF Overlaid, Left
<1> QED BY <1>4, <1>5, <1>6, <1>7, <1>8, <1>9

PipesOK ==
  /\ request_pipe \in [Client -> Seq(Byte)]
  /\ input \in [Client -> Seq(Request)]
  /\ asked \in [Client -> SUBSET Request]

ManagersOK ==
  /\ manager \in [Manager -> {"free", "read", "handle", "close"}]
  /\ serves \in [Manager -> Client \cup {Nobody}]
  /\ notif_fd \in [Manager -> Fd \cup {0}]
  /\ request \in [Manager -> Seq(Byte)]
  /\ \A m \in Manager : manager[m] = "handle" => request[m] # << >>

StoreOK ==
  /\ node \in [Key -> Fds \cup {NoNode}]
  /\ subscribed \in [Client -> SUBSET Key]

RestOK ==
  /\ client \in [Client -> {"away", "open", "leaving", "crashed"}]
  /\ inherited \subseteq Client
  /\ alive \in BOOLEAN

LEMMA TypeParts ==
  TypeOK <=> (PipesOK /\ ManagersOK /\ StoreOK /\ RestOK)
BY DEF TypeOK, PipesOK, ManagersOK, StoreOK, RestOK, Fds

\* A manager that is not free has a client.
LEMMA HasClient ==
  ASSUME ManagersOK, Owned, NEW m \in Manager, manager[m] # "free"
  PROVE  serves[m] \in Client /\ notif_fd[m] \in Fd /\ notif_fd[m] # 0
BY DEF ManagersOK, Owned

\* The answer to a request.
LEMMA AnsweredTypes ==
  ASSUME PipesOK, ManagersOK, RestOK, Owned,
         NEW m \in Manager, NEW op, Handles(m, op),
         NEW then \in {"read", "close"}, Answered(m, then)
  PROVE  PipesOK' /\ ManagersOK' /\ RestOK'
<1>1. serves[m] \in Client
  BY HasClient DEF Handles
<1>2. /\ client' = client /\ UNCHANGED pipes /\ serves' = serves
      /\ notif_fd' = notif_fd /\ request' = request /\ inherited' = inherited
  BY DEF Handles, owned
<1>3. CASE client[serves[m]] = "crashed"
  <2>1. alive' = FALSE /\ manager' = manager
    BY <1>3 DEF Answered
  <2> QED BY <1>2, <2>1 DEF PipesOK, ManagersOK, RestOK, pipes
<1>4. CASE client[serves[m]] # "crashed"
  <2>1. manager' = [manager EXCEPT ![m] = then] /\ alive' = alive
    BY <1>4 DEF Answered
  <2>2. ManagersOK'
    BY <1>2, <2>1 DEF ManagersOK
  <2> QED BY <1>2, <2>1, <2>2 DEF PipesOK, RestOK, pipes
<1> QED BY <1>3, <1>4

\* A request that is sent.
LEMMA SendTypes ==
  ASSUME PipesOK, NEW c \in Client, Send(c)
  PROVE  /\ Head(input[c]) \in Request
         /\ PipesOK'
         /\ request_pipe' = [request_pipe EXCEPT
                               ![c] = @ \o <<Head(input[c]).op>> \o Head(input[c]).key]
         /\ asked' = [asked EXCEPT ![c] = @ \cup {Head(input[c])}]
         /\ UNCHANGED <<manager, owned, request, store, inherited, alive>>
<1> DEFINE r == Head(input[c])
<1>1. /\ request_pipe' = [request_pipe EXCEPT ![c] = @ \o <<r.op>> \o r.key]
      /\ asked' = [asked EXCEPT ![c] = @ \cup {r}]
      /\ input' = [input EXCEPT ![c] = Tail(@)]
      /\ input[c] # << >>
      /\ UNCHANGED <<manager, owned, request, store, inherited, alive>>
  BY DEF Send
<1>2. r \in Request /\ Tail(input[c]) \in Seq(Request)
  BY <1>1 DEF PipesOK
<1> HIDE DEF r
<1>3. request_pipe[c] \o <<r.op>> \o r.key \in Seq(Byte)
  BY <1>2, RequestType DEF PipesOK
<1>4. PipesOK'
  BY <1>1, <1>2, <1>3 DEF PipesOK
<1> QED BY <1>1, <1>2, <1>4 DEF r

\* A subscription that is made or ended, in the node and in what clients know.
LEMMA StoreChanged ==
  ASSUME StoreOK, ManagersOK, Owned, NEW m \in Manager, manager[m] # "free",
         NEW k \in Key, node[k] # NoNode,
         NEW old \in Range(node[k]), NEW new \in Fd \cup {0}, Replace(k, old, new),
         NEW keys, keys \subseteq Key,
         subscribed' = [subscribed EXCEPT ![serves[m]] = keys]
  PROVE  StoreOK'
<1>1. node \in [Key -> Fds \cup {NoNode}]
  BY DEF StoreOK
<1>2. node' \in [Key -> Fds \cup {NoNode}]
  BY <1>1, Replaced
<1>3. serves[m] \in Client
  BY HasClient
<1> QED BY <1>2, <1>3 DEF StoreOK

LEMMA ZeroFd == 0 \in Fd \cup {0} /\ 0 \notin Fd
BY SessionAssumption

LEMMA ReadStep ==
  ASSUME NEW m \in Manager, Read(m)
  PROVE  /\ request' = [request EXCEPT
                          ![m] = Overlaid(request_pipe[serves[m]], request[m])]
         /\ request_pipe' = [request_pipe EXCEPT
                               ![serves[m]] = Left(request_pipe[serves[m]])]
         /\ manager' = [manager EXCEPT ![m] = "handle"]
         /\ UNCHANGED <<client, input, asked, owned, store, inherited, alive>>
BY DEF Read, Overlaid, Left, BytesRead

LEMMA TypeStep ==
  ASSUME TypeOK, Owned, [Next]_vars
  PROVE  TypeOK'
<1> SUFFICES PipesOK' /\ ManagersOK' /\ StoreOK' /\ RestOK'
  BY DEF TypeOK, PipesOK, ManagersOK, StoreOK, RestOK, Fds
<1>t. PipesOK /\ ManagersOK /\ StoreOK /\ RestOK
  BY TypeParts
<1> DEFINE Goal == PipesOK /\ ManagersOK /\ StoreOK /\ RestOK
<1>1. ASSUME NEW m \in Manager, Read(m) PROVE Goal'
  <2> DEFINE bytes == request_pipe[serves[m]]
  <2>1. serves[m] \in Client
    BY <1>t, <1>1, HasClient DEF Read
  <2>2. bytes \in Seq(Byte) /\ bytes # << >> /\ request[m] \in Seq(Byte)
    BY <1>t, <1>1, <2>1 DEF Read, PipesOK, ManagersOK
  <2>3. /\ request' = [request EXCEPT ![m] = Overlaid(bytes, request[m])]
        /\ request_pipe' = [request_pipe EXCEPT ![serves[m]] = Left(bytes)]
        /\ manager' = [manager EXCEPT ![m] = "handle"]
        /\ UNCHANGED <<client, input, asked, owned, store, inherited, alive>>
    BY <1>1, ReadStep
  <2> HIDE DEF bytes
  <2>4. /\ Overlaid(bytes, request[m]) \in Seq(Byte) /\ Left(bytes) \in Seq(Byte)
        /\ Overlaid(bytes, request[m]) # << >>
    BY <2>2, ReadTypes
  <2>5. ManagersOK'
    BY <1>t, <2>3, <2>4 DEF ManagersOK, owned
  <2>6. PipesOK'
    BY <1>t, <2>1, <2>3, <2>4 DEF PipesOK
  <2> QED BY <1>t, <2>3, <2>5, <2>6 DEF StoreOK, RestOK, store
<1>2. ASSUME NEW m \in Manager, HandleSubscribe(m) PROVE Goal'
  <2>1. Handles(m, SUBSCRIBE) /\ Answered(m, "read") /\ manager[m] # "free"
    BY <1>2 DEF HandleSubscribe, Handles
  <2>2. PipesOK' /\ ManagersOK' /\ RestOK'
    BY <1>t, <2>1, AnsweredTypes
  <2>3. CASE UNCHANGED store
    BY <1>t, <2>2, <2>3 DEF StoreOK, store
  <2>4. CASE MayAdd(key(m), notif_fd[m])
    <3>1. /\ key(m) \in Key /\ node[key(m)] # NoNode /\ 0 \in Range(node[key(m)])
          /\ Replace(key(m), 0, notif_fd[m])
          /\ subscribed' = [subscribed EXCEPT ![serves[m]] = @ \cup {key(m)}]
      BY <1>2, <2>4 DEF HandleSubscribe, MayAdd, InTable
    <3>2. serves[m] \in Client /\ notif_fd[m] \in Fd
      BY <1>t, <2>1, HasClient
    <3>3. subscribed[serves[m]] \cup {key(m)} \subseteq Key
      BY <1>t, <3>1, <3>2 DEF StoreOK
    <3>4. StoreOK'
      BY <1>t, <2>1, <3>1, <3>2, <3>3, StoreChanged
    <3> QED BY <2>2, <3>4
  <2> QED BY <1>2, <2>3, <2>4 DEF HandleSubscribe
<1>3. ASSUME NEW m \in Manager, HandleUnsubscribe(m) PROVE Goal'
  <2>1. Handles(m, UNSUBSCRIBE) /\ Answered(m, "read") /\ manager[m] # "free"
    BY <1>3 DEF HandleUnsubscribe, Handles
  <2>2. PipesOK' /\ ManagersOK' /\ RestOK'
    BY <1>t, <2>1, AnsweredTypes
  <2>3. CASE UNCHANGED store
    BY <1>t, <2>2, <2>3 DEF StoreOK, store
  <2>4. CASE MayRemove(key(m), notif_fd[m])
    <3>1. /\ key(m) \in Key /\ node[key(m)] # NoNode
          /\ notif_fd[m] \in Range(node[key(m)])
          /\ Replace(key(m), notif_fd[m], 0)
          /\ subscribed' = [subscribed EXCEPT ![serves[m]] = @ \ {key(m)}]
      BY <1>3, <2>4 DEF HandleUnsubscribe, MayRemove, InTable
    <3>2. serves[m] \in Client
      BY <1>t, <2>1, HasClient
    <3>3. subscribed[serves[m]] \ {key(m)} \subseteq Key
      BY <1>t, <3>2 DEF StoreOK
    <3>4. StoreOK'
      BY <1>t, <2>1, <3>1, <3>3, ZeroFd, StoreChanged
    <3> QED BY <2>2, <3>4
  <2> QED BY <1>3, <2>3, <2>4 DEF HandleUnsubscribe
<1>4. ASSUME NEW m \in Manager, HandleDisconnect(m) PROVE Goal'
  <2>1. Handles(m, DISCONNECT) /\ Answered(m, "close") /\ UNCHANGED store
    BY <1>4 DEF HandleDisconnect
  <2>2. PipesOK' /\ ManagersOK' /\ RestOK'
    BY <1>t, <2>1, AnsweredTypes
  <2> QED BY <1>t, <2>1, <2>2 DEF StoreOK, store
<1>5. ASSUME NEW m \in Manager, EndOfPipe(m) \/ HandleInvalid(m) PROVE Goal'
  BY <1>t, <1>5 DEF EndOfPipe, HandleInvalid, PipesOK, ManagersOK, StoreOK, RestOK,
     pipes, owned, store
<1>6. ASSUME NEW m \in Manager, Close(m) PROVE Goal'
  <2>1. serves[m] \in Client
    BY <1>t, <1>6, HasClient DEF Close
  <2>2. ManagersOK'
    BY <1>t, <1>6 DEF Close, ManagersOK
  <2> QED BY <1>t, <1>6, <2>1, <2>2 DEF Close, PipesOK, StoreOK, RestOK, pipes
<1>7. ASSUME NEW m \in Manager, NEW c \in Client, Open(m, c) PROVE Goal'
  <2>1. PICK fd \in Fd \ Range(notif_fd) : notif_fd' = [notif_fd EXCEPT ![m] = fd]
    BY <1>7 DEF Open
  <2>2. ManagersOK'
    BY <1>t, <1>7, <2>1 DEF Open, ManagersOK
  <2>3. PICK i \in Input[c] : input' = [input EXCEPT ![c] = i]
    BY <1>7 DEF Open
  <2>4. i \in Seq(Request)
    BY SessionAssumption
  <2>5. PipesOK'
    BY <1>t, <1>7, <2>3, <2>4 DEF Open, PipesOK
  <2> QED BY <1>t, <1>7, <2>2, <2>5 DEF Open, StoreOK, RestOK, store
<1>8. ASSUME NEW c \in Client, Ask(c) \/ Disconnect(c) PROVE Goal'
  <2>1. Send(c) /\ client' \in {client, [client EXCEPT ![c] = "leaving"]}
    BY <1>8 DEF Ask, Disconnect
  <2>2. PipesOK' /\ UNCHANGED <<manager, owned, request, store, inherited, alive>>
    BY <1>t, <2>1, SendTypes
  <2> QED BY <1>t, <2>1, <2>2 DEF ManagersOK, StoreOK, RestOK, owned, store
<1>a. ASSUME NEW c \in Client, DisconnectReturns(c) PROVE Goal'
  <2>1. PipesOK'
    BY <1>t, <1>a DEF DisconnectReturns, PipesOK
  <2> QED BY <1>t, <1>a, <2>1 DEF DisconnectReturns, ManagersOK, StoreOK, RestOK,
          owned, store
<1>b. ASSUME NEW c \in Client, Crash(c) PROVE Goal'
  BY <1>t, <1>b DEF Crash, PipesOK, ManagersOK, StoreOK, RestOK,
     pipes, owned, store
<1>c. ASSUME NEW k \in Key, WriteNew(k) PROVE Goal'
  <2>1. PICK fds \in MallocContents : node' = [node EXCEPT ![k] = fds]
    BY <1>c DEF WriteNew
  <2>2. fds \in Fds
    BY SessionAssumption DEF Fds
  <2>3. StoreOK'
    BY <1>t, <1>c, <2>1, <2>2 DEF WriteNew, StoreOK
  <2> QED BY <1>t, <1>c, <2>3 DEF WriteNew, PipesOK, ManagersOK, RestOK,
          pipes, owned
<1>d. ASSUME NEW k \in Key, Delete(k) PROVE Goal'
  <2>1. StoreOK'
    BY <1>t, <1>d DEF Delete, StoreOK
  <2> QED BY <1>t, <1>d, <2>1 DEF Delete, PipesOK, ManagersOK, RestOK,
          pipes, owned
<1>e. ASSUME Fork \/ ChildExit PROVE Goal'
  <2>1. inherited' \subseteq Client
    BY <1>t, <1>e DEF Fork, ChildExit, ManagersOK, Range
  <2> QED BY <1>t, <1>e, <2>1 DEF Fork, ChildExit, PipesOK, ManagersOK, StoreOK,
          RestOK, pipes, owned, store
<1>f. ASSUME UNCHANGED vars PROVE Goal'
  BY <1>t, <1>f DEF vars, PipesOK, ManagersOK, StoreOK, RestOK,
     pipes, owned, store
<1> QED
  BY <1>1, <1>2, <1>3, <1>4, <1>5, <1>6, <1>7, <1>8, <1>a, <1>b, <1>c,
     <1>d, <1>e, <1>f DEF Next, ManagerStep

-----------------------------------------------------------------------------
(* Sessions own their client and their descriptor. *)

LEMMA Served ==
  ASSUME ManagersOK, NEW c
  PROVE  c \in Range(serves) <=> \E m \in Manager : serves[m] = c
BY DEF ManagersOK, Range

\* A step that changes no session, and no client but away from "away".
LEMMA OwnedSame ==
  ASSUME ManagersOK, RestOK, Owned, UNCHANGED <<serves, notif_fd>>,
         \A m \in Manager : manager'[m] = "free" <=> manager[m] = "free",
         alive' => /\ alive
                   /\ \A c \in Client : c \in Range(serves) /\ client[c] # "away"
                                        => client'[c] # "away",
         \A c \in Client : c \notin Range(serves) /\ subscribed[c] = {}
                           => subscribed'[c] = {}
  PROVE  Owned'
<1>0. serves' = serves /\ notif_fd' = notif_fd
  OBVIOUS
<1>1. ASSUME NEW m \in Manager
      PROVE  /\ manager'[m] = "free" <=> serves'[m] = Nobody
             /\ notif_fd'[m] = 0 <=> serves'[m] = Nobody
  <2>1. /\ manager[m] = "free" <=> serves[m] = Nobody
        /\ notif_fd[m] = 0 <=> serves[m] = Nobody
    BY DEF Owned
  <2>2. manager'[m] = "free" <=> manager[m] = "free"
    OBVIOUS
  <2> QED BY <1>0, <2>1, <2>2
<1>2. ASSUME NEW m \in Manager, alive', serves'[m] # Nobody
      PROVE  client'[serves'[m]] # "away"
  <2>1. serves[m] \in Client /\ serves[m] \in Range(serves) /\ serves'[m] = serves[m]
    BY <1>2, Served DEF ManagersOK
  <2> QED BY <1>2, <2>1 DEF Owned
<1>3. \A m, n \in Manager : m # n =>
        /\ serves'[m] = serves'[n] => serves'[m] = Nobody
        /\ notif_fd'[m] = notif_fd'[n] => notif_fd'[m] = 0
  BY DEF Owned
<1>4. \A c \in Client : c \notin Range(serves') => subscribed'[c] = {}
  BY DEF Owned
<1> QED BY <1>1, <1>2, <1>3, <1>4 DEF Owned

\* An answer keeps the session, or ends the server.
LEMMA OwnedAnswered ==
  ASSUME ManagersOK, RestOK, Owned, NEW m \in Manager, NEW op, Handles(m, op),
         NEW then \in {"read", "close"}, Answered(m, then),
         \A c \in Client : c \notin Range(serves) => subscribed'[c] = subscribed[c]
  PROVE  Owned'
<1>1. client' = client /\ serves' = serves /\ notif_fd' = notif_fd
  BY DEF Handles, owned
<1>2. \A n \in Manager : manager'[n] = "free" <=> manager[n] = "free"
  <2>1. manager[m] = "handle"
    BY DEF Handles
  <2>2. CASE manager' = manager
    BY <2>2
  <2>3. CASE manager' = [manager EXCEPT ![m] = then]
    BY <2>1, <2>3 DEF ManagersOK
  <2> QED BY <2>2, <2>3 DEF Answered
<1>3. alive' => alive
  BY DEF Answered, RestOK
<1> QED BY <1>1, <1>2, <1>3, OwnedSame

LEMMA OwnedStep ==
  ASSUME TypeOK, Owned, [Next]_vars
  PROVE  Owned'
<1>t. PipesOK /\ ManagersOK /\ StoreOK /\ RestOK
  BY TypeParts
<1>1. ASSUME NEW m \in Manager, Read(m) \/ EndOfPipe(m) \/ HandleInvalid(m) PROVE Owned'
  <2>1. UNCHANGED <<serves, notif_fd, client, subscribed, alive>>
    BY <1>1 DEF Read, EndOfPipe, HandleInvalid, owned, store
  <2>2. \A n \in Manager : manager'[n] = "free" <=> manager[n] = "free"
    BY <1>t, <1>1 DEF Read, EndOfPipe, HandleInvalid, ManagersOK
  <2> QED BY <1>t, <2>1, <2>2, OwnedSame
<1>2. ASSUME NEW m \in Manager, NEW keys,
             HandleSubscribe(m) \/ HandleUnsubscribe(m) \/ HandleDisconnect(m),
             subscribed' = [subscribed EXCEPT ![serves[m]] = keys]
               \/ subscribed' = subscribed
      PROVE  Owned'
  <2>1. PICK op \in OpCodes, then \in {"read", "close"} :
               Handles(m, op) /\ Answered(m, then)
    BY <1>2 DEF OpCodes, HandleSubscribe, HandleUnsubscribe,
       HandleDisconnect
  <2>2. serves[m] \in Range(serves)
    BY <1>t, Served
  <2>3. \A c \in Client : c \notin Range(serves) => subscribed'[c] = subscribed[c]
    BY <1>t, <1>2, <2>2 DEF StoreOK
  <2> QED BY <1>t, <2>1, <2>3, OwnedAnswered
<1>3. ASSUME NEW m \in Manager, HandleSubscribe(m) PROVE Owned'
  BY <1>2, <1>3 DEF HandleSubscribe, store
<1>4. ASSUME NEW m \in Manager, HandleUnsubscribe(m) PROVE Owned'
  BY <1>2, <1>4 DEF HandleUnsubscribe, store
<1>5. ASSUME NEW m \in Manager, HandleDisconnect(m) PROVE Owned'
  BY <1>2, <1>5 DEF HandleDisconnect, store
<1>6. ASSUME NEW m \in Manager, Close(m) PROVE Owned'
  <2>1. /\ serves[m] \in Client /\ alive /\ alive' = alive /\ client' = client
        /\ subscribed' = [subscribed EXCEPT ![serves[m]] = {}]
        /\ notif_fd' = [notif_fd EXCEPT ![m] = 0]
        /\ serves' = [serves EXCEPT ![m] = Nobody]
        /\ manager' = [manager EXCEPT ![m] = "free"]
    BY <1>t, <1>6, HasClient DEF Close
  <2>2. ASSUME NEW c \in Client, c \notin Range(serves') PROVE subscribed'[c] = {}
    <3>1. CASE c = serves[m]
      BY <1>t, <2>1, <3>1 DEF StoreOK
    <3>2. CASE c # serves[m]
      <4>1. \A n \in Manager : serves'[n] # c
        BY <1>t, <2>1, <2>2 DEF ManagersOK, Range
      <4>2. \A n \in Manager : serves[n] # c
        BY <1>t, <2>1, <3>2, <4>1 DEF ManagersOK
      <4>3. subscribed[c] = {}
        BY <1>t, <4>2, Served DEF Owned
      <4> QED BY <1>t, <2>1, <3>2, <4>3 DEF StoreOK
    <3> QED BY <3>1, <3>2
  <2> QED BY <1>t, <2>1, <2>2 DEF Owned, ManagersOK
<1>7. ASSUME NEW m \in Manager, NEW c \in Client, Open(m, c) PROVE Owned'
  <2>1. PICK fd \in Fd \ Range(notif_fd) : notif_fd' = [notif_fd EXCEPT ![m] = fd]
    BY <1>7 DEF Open
  <2>2. /\ alive /\ alive' = alive /\ manager[m] = "free" /\ client[c] = "away"
        /\ manager' = [manager EXCEPT ![m] = "read"]
        /\ serves' = [serves EXCEPT ![m] = c]
        /\ client' = [client EXCEPT ![c] = "open"]
        /\ subscribed' = subscribed
    BY <1>7 DEF Open, store
  <2>3. c # Nobody /\ fd # 0
    BY SessionAssumption
  <2>4. \A n \in Manager : serves[n] # c
    BY <2>2, <2>3 DEF Owned
  <2>5. \A n \in Manager : notif_fd[n] # fd
    BY <1>t DEF ManagersOK, Range
  <2>6. serves[m] = Nobody
    BY <2>2 DEF Owned
  <2>7. ASSUME NEW d \in Client, d \notin Range(serves') PROVE subscribed'[d] = {}
    <3>1. \A n \in Manager : serves'[n] # d
      BY <1>t, <2>2, <2>7 DEF ManagersOK, Range
    <3>2. d # Nobody
      BY SessionAssumption
    <3>3. \A n \in Manager : serves[n] # d
      BY <1>t, <2>2, <2>6, <3>1, <3>2 DEF ManagersOK
    <3> QED BY <1>t, <2>2, <3>3, Served DEF Owned
  <2>8. \A n \in Manager :
          /\ manager'[n] = "free" <=> serves'[n] = Nobody
          /\ notif_fd'[n] = 0 <=> serves'[n] = Nobody
          /\ alive' /\ serves'[n] # Nobody => client'[serves'[n]] # "away"
    BY <1>t, <2>1, <2>2, <2>3, <2>4 DEF Owned, ManagersOK, RestOK
  <2>9. \A n, l \in Manager : n # l =>
          /\ serves'[n] = serves'[l] => serves'[n] = Nobody
          /\ notif_fd'[n] = notif_fd'[l] => notif_fd'[n] = 0
    BY <1>t, <2>1, <2>2, <2>4, <2>5 DEF Owned, ManagersOK
  <2> QED BY <2>7, <2>8, <2>9 DEF Owned
<1>8. ASSUME NEW c \in Client, Ask(c) \/ Disconnect(c) \/ Crash(c) PROVE Owned'
  <2>1. UNCHANGED <<manager, serves, notif_fd, subscribed, alive>>
    BY <1>8 DEF Ask, Disconnect, Crash, Send, owned, store
  <2>2. \A d \in Client : client[d] # "away" => client'[d] # "away"
    BY <1>t, <1>8 DEF Ask, Disconnect, Crash, RestOK
  <2> QED BY <1>t, <2>1, <2>2, OwnedSame
<1>9. ASSUME NEW c \in Client, DisconnectReturns(c) PROVE Owned'
  <2>1. UNCHANGED <<manager, serves, notif_fd, subscribed, alive>>
    BY <1>9 DEF DisconnectReturns, owned, store
  <2>2. alive => c \notin Range(serves)
    BY <1>9 DEF DisconnectReturns
  <2>3. \A d \in Client : d # c => client'[d] = client[d]
    BY <1>t, <1>9 DEF DisconnectReturns, RestOK
  <2> QED BY <1>t, <2>1, <2>2, <2>3, OwnedSame
<1>a. ASSUME NEW k \in Key, WriteNew(k) \/ Delete(k) PROVE Owned'
  <2>1. UNCHANGED <<manager, serves, notif_fd, client, alive>>
    BY <1>a DEF WriteNew, Delete, owned
  <2>2. \A d \in Client : subscribed[d] = {} => subscribed'[d] = {}
    BY <1>a DEF WriteNew, Delete
  <2> QED BY <1>t, <2>1, <2>2, OwnedSame
<1>b. ASSUME Fork \/ ChildExit \/ UNCHANGED vars PROVE Owned'
  <2>1. UNCHANGED <<manager, serves, notif_fd, client, subscribed, alive>>
    BY <1>b DEF Fork, ChildExit, vars, owned, store
  <2> QED BY <1>t, <2>1, OwnedSame
<1> QED
  BY <1>1, <1>3, <1>4, <1>5, <1>6, <1>7, <1>8, <1>9, <1>a, <1>b DEF Next, ManagerStep

-----------------------------------------------------------------------------
(* What clients were told is what the nodes hold. *)

\* What an entry that changes leaves in its node, and what it puts there.
LEMMA ReplaceKeeps ==
  ASSUME NEW fds \in Fds, NEW e \in Entries, NEW new \in Fd \cup {0}, NEW fd
  PROVE  /\ new \in Range([fds EXCEPT ![e] = new])
         /\ fd \in Range(fds) /\ fd # fds[e] => fd \in Range([fds EXCEPT ![e] = new])
BY DEF Fds, Range

LEMMA KeptStep ==
  ASSUME TypeOK, Owned, SubscriptionsKept, [Next]_vars
  PROVE  SubscriptionsKept'
<1>t. PipesOK /\ ManagersOK /\ StoreOK /\ RestOK
  BY TypeParts
<1>0. ASSUME UNCHANGED <<serves, notif_fd, store>> PROVE SubscriptionsKept'
  BY <1>0 DEF SubscriptionsKept, InTable, store
<1> SUFFICES ASSUME NEW n \in Manager, serves'[n] # Nobody,
                    NEW k \in subscribed'[serves'[n]]
             PROVE  k \in Key /\ node'[k] # NoNode /\ notif_fd'[n] \in Range(node'[k])
  BY DEF SubscriptionsKept, InTable
<1>k. ASSUME serves'[n] = serves[n], notif_fd'[n] = notif_fd[n],
             k \in subscribed[serves[n]], node'[k] = node[k]
      PROVE  k \in Key /\ node'[k] # NoNode /\ notif_fd'[n] \in Range(node'[k])
  BY <1>k DEF SubscriptionsKept, InTable
<1>g. ASSUME SubscriptionsKept'
      PROVE  k \in Key /\ node'[k] # NoNode /\ notif_fd'[n] \in Range(node'[k])
  BY <1>g DEF SubscriptionsKept, InTable
<1> DEFINE Goal == k \in Key /\ node'[k] # NoNode /\ notif_fd'[n] \in Range(node'[k])
<1>1. ASSUME NEW m \in Manager, Read(m) \/ EndOfPipe(m) \/ HandleDisconnect(m)
                                     \/ HandleInvalid(m)
      PROVE  Goal
  <2>1. UNCHANGED <<serves, notif_fd, store>>
    BY <1>1 DEF Read, EndOfPipe, HandleDisconnect, HandleInvalid, Handles, owned
  <2> QED BY <1>0, <1>g, <2>1
<1>2. ASSUME NEW m \in Manager, HandleSubscribe(m) PROVE Goal
  <2>1. /\ serves' = serves /\ notif_fd' = notif_fd /\ manager[m] # "free"
    BY <1>2 DEF HandleSubscribe, Handles, owned
  <2>2. CASE UNCHANGED store
    BY <1>0, <1>g, <2>1, <2>2
  <2>3. CASE MayAdd(key(m), notif_fd[m])
    <3>1. /\ key(m) \in Key /\ node[key(m)] # NoNode /\ 0 \in Range(node[key(m)])
          /\ Replace(key(m), 0, notif_fd[m])
          /\ subscribed' = [subscribed EXCEPT ![serves[m]] = @ \cup {key(m)}]
      BY <1>2, <2>3 DEF HandleSubscribe, MayAdd, InTable
    <3>2. serves[m] \in Client /\ notif_fd[m] \in Fd
      BY <1>t, <2>1, HasClient
    <3>3. PICK e \in Entries :
            /\ node[key(m)][e] = 0
            /\ node'[key(m)] = [node[key(m)] EXCEPT ![e] = notif_fd[m]]
      <4>1. node \in [Key -> Fds \cup {NoNode}] /\ notif_fd[m] \in Fd \cup {0}
        BY <1>t, <3>2 DEF StoreOK
      <4> QED BY <3>1, <4>1, Replaced
    <3>4. /\ node'[key(m)] # NoNode
          /\ \A j \in Key : j # key(m) => node'[j] = node[j]
      BY <1>t, <3>1, <3>2, Replaced DEF StoreOK
    <3>5. node[key(m)] \in Fds
      BY <1>t, <3>1 DEF StoreOK
    <3>6. CASE n = m /\ k = key(m)
      BY <2>1, <3>1, <3>2, <3>3, <3>4, <3>5, <3>6, ReplaceKeeps
    <3>7. CASE ~ (n = m /\ k = key(m))
      <4>1. k \in subscribed[serves[n]]
        <5>1. n # m => serves[n] # serves[m]
          BY <2>1 DEF Owned
        <5>2. serves[n] \in Client
          BY <1>t, <2>1 DEF ManagersOK
        <5> QED BY <1>t, <2>1, <3>1, <3>2, <3>7, <5>1, <5>2 DEF StoreOK
      <4>2. k \in Key /\ node[k] # NoNode /\ notif_fd[n] \in Range(node[k])
        BY <2>1, <4>1 DEF SubscriptionsKept, InTable
      <4>3. CASE k # key(m)
        BY <1>k, <2>1, <3>4, <4>1, <4>2, <4>3
      <4>4. CASE k = key(m)
        <5>1. notif_fd[n] # 0
          BY <2>1 DEF Owned
        <5> QED BY <2>1, <3>2, <3>3, <3>4, <3>5, <4>2, <4>4, <5>1, ReplaceKeeps
      <4> QED BY <4>3, <4>4
    <3> QED BY <3>6, <3>7
  <2> QED BY <1>2, <2>2, <2>3 DEF HandleSubscribe
<1>3. ASSUME NEW m \in Manager, HandleUnsubscribe(m) PROVE Goal
  <2>1. /\ serves' = serves /\ notif_fd' = notif_fd /\ manager[m] # "free"
    BY <1>3 DEF HandleUnsubscribe, Handles, owned
  <2>2. CASE UNCHANGED store
    BY <1>0, <1>g, <2>1, <2>2
  <2>3. CASE MayRemove(key(m), notif_fd[m])
    <3>1. /\ key(m) \in Key /\ node[key(m)] # NoNode
          /\ notif_fd[m] \in Range(node[key(m)])
          /\ Replace(key(m), notif_fd[m], 0)
          /\ subscribed' = [subscribed EXCEPT ![serves[m]] = @ \ {key(m)}]
      BY <1>3, <2>3 DEF HandleUnsubscribe, MayRemove, InTable
    <3>2. serves[m] \in Client
      BY <1>t, <2>1, HasClient
    <3>3. PICK e \in Entries :
            /\ node[key(m)][e] = notif_fd[m]
            /\ node'[key(m)] = [node[key(m)] EXCEPT ![e] = 0]
      <4>1. node \in [Key -> Fds \cup {NoNode}]
        BY <1>t DEF StoreOK
      <4> QED BY <3>1, <4>1, ZeroFd, Replaced
    <3>4. /\ node'[key(m)] # NoNode
          /\ \A j \in Key : j # key(m) => node'[j] = node[j]
      BY <1>t, <3>1, ZeroFd, Replaced DEF StoreOK
    <3>5. node[key(m)] \in Fds
      BY <1>t, <3>1 DEF StoreOK
    <3>6. serves[n] \in Client /\ (n # m => serves[n] # serves[m])
      BY <1>t, <2>1 DEF Owned, ManagersOK
    <3>7. k \in subscribed[serves[n]] /\ ~ (n = m /\ k = key(m))
      BY <1>t, <2>1, <3>1, <3>2, <3>6 DEF StoreOK
    <3>8. k \in Key /\ node[k] # NoNode /\ notif_fd[n] \in Range(node[k])
      BY <2>1, <3>7 DEF SubscriptionsKept, InTable
    <3>9. CASE k # key(m)
      BY <1>k, <2>1, <3>4, <3>7, <3>8, <3>9
    <3>a. CASE k = key(m)
      <4>1. notif_fd[n] # notif_fd[m]
        BY <2>1, <3>7, <3>a DEF Owned
      <4> QED BY <2>1, <3>3, <3>4, <3>5, <3>8, <3>a, <4>1, ReplaceKeeps
    <3> QED BY <3>9, <3>a
  <2> QED BY <1>3, <2>2, <2>3 DEF HandleUnsubscribe
<1>4. ASSUME NEW m \in Manager, Close(m) PROVE Goal
  <2>1. /\ serves' = [serves EXCEPT ![m] = Nobody]
        /\ notif_fd' = [notif_fd EXCEPT ![m] = 0]
        /\ subscribed' = [subscribed EXCEPT ![serves[m]] = {}]
        /\ node' = node
    BY <1>4 DEF Close
  <2>2. n # m
    BY <1>t, <2>1 DEF ManagersOK
  <2>3. serves'[n] = serves[n] /\ notif_fd'[n] = notif_fd[n]
    BY <1>t, <2>1, <2>2 DEF ManagersOK
  <2>4. serves[n] \in Client /\ serves[n] # serves[m]
    BY <1>t, <2>2, <2>3 DEF Owned, ManagersOK
  <2>5. k \in subscribed[serves[n]]
    BY <1>t, <2>1, <2>3, <2>4 DEF StoreOK
  <2> QED BY <1>k, <2>1, <2>3, <2>5
<1>5. ASSUME NEW m \in Manager, NEW c \in Client, Open(m, c) PROVE Goal
  <2>1. PICK fd \in Fd \ Range(notif_fd) : notif_fd' = [notif_fd EXCEPT ![m] = fd]
    BY <1>5 DEF Open
  <2>2. /\ alive /\ client[c] = "away"
        /\ serves' = [serves EXCEPT ![m] = c] /\ node' = node /\ subscribed' = subscribed
    BY <1>5 DEF Open, store
  <2>3. c # Nobody
    BY SessionAssumption
  <2>4. \A l \in Manager : serves[l] # c
    BY <2>2, <2>3 DEF Owned
  <2>5. subscribed[c] = {}
    BY <1>t, <2>4, Served DEF Owned
  <2>6. n # m
    BY <1>t, <2>2, <2>5 DEF ManagersOK
  <2> QED BY <1>t, <1>k, <2>1, <2>2, <2>6 DEF ManagersOK
<1>6. ASSUME NEW c \in Client, Ask(c) \/ Disconnect(c) \/ DisconnectReturns(c) \/ Crash(c)
      PROVE  Goal
  <2>1. UNCHANGED <<serves, notif_fd, store>>
    BY <1>6 DEF Ask, Disconnect, DisconnectReturns, Crash, Send, owned
  <2> QED BY <1>0, <1>g, <2>1
<1>7. ASSUME NEW j \in Key, WriteNew(j) PROVE Goal
  <2>1. /\ serves' = serves /\ notif_fd' = notif_fd /\ subscribed' = subscribed
        /\ node[j] = NoNode
        /\ \A i \in Key : i # j => node'[i] = node[i]
    BY <1>t, <1>7 DEF WriteNew, StoreOK, owned
  <2>2. k \in Key /\ node[k] # NoNode
    BY <2>1 DEF SubscriptionsKept, InTable
  <2> QED BY <1>k, <2>1, <2>2
<1>8. ASSUME NEW j \in Key, Delete(j) PROVE Goal
  <2>1. /\ serves' = serves /\ notif_fd' = notif_fd
        /\ subscribed' = [c \in Client |-> subscribed[c] \ {j}]
        /\ \A i \in Key : i # j => node'[i] = node[i]
    BY <1>t, <1>8 DEF Delete, StoreOK, owned
  <2>2. serves[n] \in Client
    BY <1>t, <2>1 DEF ManagersOK
  <2>3. k \in subscribed[serves[n]] /\ k # j
    BY <2>1, <2>2
  <2>4. k \in Key
    BY <1>t, <2>2, <2>3 DEF StoreOK
  <2> QED BY <1>k, <2>1, <2>3, <2>4
<1>9. ASSUME Fork \/ ChildExit \/ UNCHANGED vars PROVE Goal
  <2>1. UNCHANGED <<serves, notif_fd, store>>
    BY <1>9 DEF Fork, ChildExit, vars, owned
  <2> QED BY <1>0, <1>g, <2>1
<1> QED
  BY <1>1, <1>2, <1>3, <1>4, <1>5, <1>6, <1>7, <1>8, <1>9 DEF Next, ManagerStep

-----------------------------------------------------------------------------
(* A descriptor is in a node once. *)

Once(fds) == \A n, l \in Entries : fds[n] = fds[l] /\ fds[n] # 0 => n = l

LEMMA OnceIsOnce ==
  SubscribedOnce <=> \A k \in Key : node[k] # NoNode => Once(node[k])
BY DEF SubscribedOnce, Once

\* An entry gets nothing, or a descriptor that was in no entry.
LEMMA ReplaceOnce ==
  ASSUME NEW fds \in Fds, Once(fds), NEW e \in Entries, NEW new \in Fd \cup {0},
         new = 0 \/ new \notin Range(fds)
  PROVE  Once([fds EXCEPT ![e] = new])
BY DEF Fds, Once, Range

LEMMA ReplacedOnce ==
  ASSUME node \in [Key -> Fds \cup {NoNode}],
         NEW k \in Key, node[k] # NoNode, Once(node[k]),
         NEW old \in Range(node[k]), NEW new \in Fd \cup {0}, Replace(k, old, new),
         new = 0 \/ new \notin Range(node[k]),
         NEW j \in Key, node[j] # NoNode => Once(node[j]), node'[j] # NoNode
  PROVE  Once(node'[j])
<1>1. PICK e \in Entries : /\ node[k][e] = old
                          /\ node'[k] = [node[k] EXCEPT ![e] = new]
  BY Replaced
<1>2. \A i \in Key : i # k => node'[i] = node[i]
  BY Replaced
<1>3. node[k] \in Fds
  OBVIOUS
<1>4. CASE j = k
  BY <1>1, <1>3, <1>4, ReplaceOnce
<1>5. CASE j # k
  BY <1>2, <1>5
<1> QED BY <1>4, <1>5

\* As long as the contents of new nodes repeat no descriptor.
LEMMA OnceStep ==
  ASSUME \A fds \in MallocContents : Once(fds),
         TypeOK, Owned, SubscribedOnce, [Next]_vars
  PROVE  SubscribedOnce'
<1>t. PipesOK /\ ManagersOK /\ StoreOK /\ RestOK
  BY TypeParts
<1>o. \A k \in Key : node[k] # NoNode => Once(node[k])
  BY OnceIsOnce
<1> SUFFICES ASSUME NEW k \in Key, node'[k] # NoNode PROVE Once(node'[k])
  BY DEF SubscribedOnce, Once
<1>0. ASSUME node' = node PROVE Once(node'[k])
  BY <1>0, <1>o
<1>1. ASSUME NEW m \in Manager, HandleSubscribe(m) PROVE Once(node'[k])
  <2>1. CASE UNCHANGED store
    BY <1>0, <2>1 DEF store
  <2>2. CASE MayAdd(key(m), notif_fd[m])
    <3>1. /\ key(m) \in Key /\ node[key(m)] # NoNode /\ 0 \in Range(node[key(m)])
          /\ notif_fd[m] \notin Range(node[key(m)])
          /\ Replace(key(m), 0, notif_fd[m])
      BY <1>1, <2>2 DEF HandleSubscribe, MayAdd, InTable
    <3>2. node \in [Key -> Fds \cup {NoNode}] /\ notif_fd[m] \in Fd \cup {0}
      BY <1>t DEF StoreOK, ManagersOK
    <3>3. Once(node[key(m)])
      BY <1>o, <3>1
    <3> QED BY <1>o, <3>1, <3>2, <3>3, ReplacedOnce
  <2> QED BY <1>1, <2>1, <2>2 DEF HandleSubscribe
<1>2. ASSUME NEW m \in Manager, HandleUnsubscribe(m) PROVE Once(node'[k])
  <2>1. CASE UNCHANGED store
    BY <1>0, <2>1 DEF store
  <2>2. CASE MayRemove(key(m), notif_fd[m])
    <3>1. /\ key(m) \in Key /\ node[key(m)] # NoNode
          /\ notif_fd[m] \in Range(node[key(m)])
          /\ Replace(key(m), notif_fd[m], 0)
      BY <1>2, <2>2 DEF HandleUnsubscribe, MayRemove, InTable
    <3>2. node \in [Key -> Fds \cup {NoNode}]
      BY <1>t DEF StoreOK
    <3>3. Once(node[key(m)]) /\ 0 \in Fd \cup {0}
      BY <1>o, <3>1
    <3> QED BY <1>o, <3>1, <3>2, <3>3, ReplacedOnce
  <2> QED BY <1>2, <2>1, <2>2 DEF HandleUnsubscribe
<1>3. ASSUME NEW j \in Key, WriteNew(j) PROVE Once(node'[k])
  <2>1. PICK fds \in MallocContents : node' = [node EXCEPT ![j] = fds]
    BY <1>3 DEF WriteNew
  <2> QED BY <1>t, <1>o, <2>1 DEF StoreOK
<1>4. ASSUME NEW j \in Key, Delete(j) PROVE Once(node'[k])
  <2>1. node' = [node EXCEPT ![j] = NoNode]
    BY <1>4 DEF Delete
  <2> QED BY <1>t, <1>o, <2>1 DEF StoreOK
<1>5. CASE node' = node
  BY <1>0, <1>5
<1> QED
  BY <1>1, <1>2, <1>3, <1>4, <1>5 DEF Next, ManagerStep, Read, HandleDisconnect,
     HandleInvalid, EndOfPipe, Close, Open, Ask, Disconnect, Send, DisconnectReturns, Crash,
     Fork, ChildExit, vars, store

-----------------------------------------------------------------------------
(* What managers take for a request. *)

\* More requests, and fewer bytes, leave bytes to be of the requests.
LEMMA MadeOfMore ==
  ASSUME NEW rs, NEW more, rs \subseteq more, NEW bytes,
         MadeOf(bytes, rs)
  PROVE  MadeOf(bytes, more)
BY DEF MadeOf

LEMMA FramedMore ==
  ASSUME NEW rs, NEW more, rs \subseteq more, NEW bytes, Framed(bytes, rs)
  PROVE  Framed(bytes, more)
BY DEF Framed

LEMMA MadeOfNothing ==
  ASSUME NEW rs
  PROVE  MadeOf(<< >>, rs) /\ Framed(<< >>, rs)
BY DEF MadeOf, Framed, Range

\* A request written behind others.
LEMMA WrittenIsFramed ==
  ASSUME NEW rs \in SUBSET Request, NEW r \in Request, NEW s \in Seq(Byte),
         MadeOf(s, rs), Framed(s, rs)
  PROVE  /\ MadeOf(s \o <<r.op>> \o r.key, rs \cup {r})
         /\ Framed(s \o <<r.op>> \o r.key, rs \cup {r})
<1> DEFINE k == r.key
          t == s \o <<r.op>> \o k
          more == rs \cup {r}
<1>1. /\ r.op \in OpCodes /\ k \in Seq(97 .. 122) /\ k \in Seq(Byte)
      /\ <<r.op>> \in Seq(Byte) /\ Len(<<r.op>>) = 1 /\ <<r.op>>[1] = r.op
  BY RequestType
<1>2. Len(s) \in Nat /\ Len(k) \in Nat
  BY <1>1
<1>3. \A i \in 1 .. Len(k) : k[i] \notin OpCodes /\ k[i] \in Range(k)
  <2>1. \A i \in 1 .. Len(k) : k[i] \in 97 .. 122 /\ k[i] \in Range(k)
    BY <1>1, Elements
  <2>2. \A x \in 97 .. 122 : x \notin OpCodes
    BY DEF OpCodes, DISCONNECT, SUBSCRIBE, UNSUBSCRIBE
  <2> QED BY <2>1, <2>2
<1> HIDE DEF k
<1>4. /\ t \in Seq(Byte) /\ Len(t) = Len(s) + 1 + Len(k)
      /\ \A i \in 1 .. Len(s) : t[i] = s[i]
      /\ t[Len(s) + 1] = r.op
      /\ \A i \in 1 .. Len(k) : t[Len(s) + 1 + i] = k[i]
  BY <1>1, <1>2
<1> HIDE DEF t
<1>5. ASSUME NEW n \in 1 .. Len(t)
      PROVE  \/ n \in 1 .. Len(s)
             \/ n = Len(s) + 1
             \/ \E i \in 1 .. Len(k) : n = Len(s) + 1 + i
  <2>1. n \in Nat /\ 1 <= n /\ n <= Len(s) + 1 + Len(k)
    BY <1>2, <1>4
  <2>2. n <= Len(s) => n \in 1 .. Len(s)
    BY <1>2, <2>1
  <2>3. ASSUME n > Len(s) + 1 PROVE \E i \in 1 .. Len(k) : n = Len(s) + 1 + i
    <3>1. n - (Len(s) + 1) \in 1 .. Len(k)
      BY <1>2, <2>1, <2>3
    <3>2. n = Len(s) + 1 + (n - (Len(s) + 1))
      BY <1>2, <2>1
    <3> QED BY <3>1, <3>2
  <2> QED BY <1>2, <2>1, <2>2, <2>3
<1>6. MadeOf(t, more)
  <2> SUFFICES ASSUME NEW n \in 1 .. Len(t)
               PROVE  \E q \in more : t[n] = q.op \/ t[n] \in Range(q.key)
    BY <1>4 DEF MadeOf, Range
  <2>1. CASE n \in 1 .. Len(s)
    <3>1. t[n] = s[n] /\ s[n] \in Range(s)
      BY <1>4, <2>1, Elements
    <3> QED BY <3>1 DEF MadeOf
  <2>2. CASE n = Len(s) + 1
    BY <1>4, <2>2
  <2>3. CASE \E i \in 1 .. Len(k) : n = Len(s) + 1 + i
    BY <1>3, <1>4, <2>3 DEF k
  <2> QED BY <1>5, <2>1, <2>2, <2>3
<1>7. Framed(t, more)
  <2> DEFINE At(q, n) ==
        /\ q.op = t[n]
        /\ n + Len(q.key) <= Len(t)
        /\ \A i \in 1 .. Len(q.key) : t[n + i] = q.key[i]
  <2> SUFFICES ASSUME NEW n \in 1 .. Len(t), t[n] \in OpCodes
               PROVE  \E q \in more : At(q, n)
    BY DEF Framed
  <2>1. CASE n \in 1 .. Len(s)
    <3>1. t[n] = s[n]
      BY <1>4, <2>1
    <3>2. PICK q \in rs : /\ q.op = s[n]
                          /\ n + Len(q.key) <= Len(s)
                          /\ \A i \in 1 .. Len(q.key) : s[n + i] = q.key[i]
      BY <2>1, <3>1 DEF Framed
    <3>3. Len(q.key) \in Nat
      BY RequestType
    <3>4. \A i \in 1 .. Len(q.key) : n + i \in 1 .. Len(s)
      BY <1>2, <2>1, <3>2, <3>3
    <3>5. \A i \in 1 .. Len(q.key) : t[n + i] = q.key[i]
      BY <1>4, <3>2, <3>4
    <3>6. n + Len(q.key) <= Len(t)
      BY <1>2, <1>4, <2>1, <3>2, <3>3
    <3> QED BY <3>1, <3>2, <3>5, <3>6
  <2>2. CASE n = Len(s) + 1
    <3>1. At(r, n)
      BY <1>2, <1>4, <2>2 DEF k
    <3> QED BY <3>1
  <2>3. CASE \E i \in 1 .. Len(k) : n = Len(s) + 1 + i
    BY <1>3, <1>4, <2>3
  <2> QED BY <1>5, <2>1, <2>2, <2>3
<1> QED BY <1>6, <1>7 DEF t, k

\* What a read leaves on the pipe.
LEMMA LeftIsFramed ==
  ASSUME NEW rs \in SUBSET Request, NEW s \in Seq(Byte), s # << >>,
         MadeOf(s, rs), Framed(s, rs)
  PROVE  MadeOf(Left(s), rs) /\ Framed(Left(s), rs)
<1> DEFINE n == BytesRead(s)
          t == Left(s)
<1>1. n \in 1 .. Len(s) /\ n \in Nat /\ Len(s) \in Nat
  BY ReadTakes
<1>2. /\ t \in Seq(Byte) /\ Len(t) = Len(s) - n
      /\ \A i \in 1 .. Len(s) - n : t[i] = s[n + i]
  BY ReadTypes
<1> HIDE DEF n, t
<1>3. \A i \in 1 .. Len(t) : n + i \in 1 .. Len(s) /\ t[i] = s[n + i]
  BY <1>1, <1>2
<1>4. MadeOf(t, rs)
  <2>1. \A i \in 1 .. Len(t) : t[i] \in Range(s)
    BY <1>3, Elements
  <2>2. \A x \in Range(t) : x \in Range(s)
    BY <1>2, <2>1, Elements
  <2> QED BY <2>2 DEF MadeOf
<1>5. Framed(t, rs)
  <2> SUFFICES ASSUME NEW j \in 1 .. Len(t), t[j] \in OpCodes
               PROVE  \E q \in rs : /\ q.op = t[j]
                                    /\ j + Len(q.key) <= Len(t)
                                    /\ \A i \in 1 .. Len(q.key) : t[j + i] = q.key[i]
    BY DEF Framed
  <2>1. n + j \in 1 .. Len(s) /\ t[j] = s[n + j]
    BY <1>3
  <2>2. PICK q \in rs : /\ q.op = s[n + j]
                        /\ (n + j) + Len(q.key) <= Len(s)
                        /\ \A i \in 1 .. Len(q.key) : s[(n + j) + i] = q.key[i]
    BY <2>1 DEF Framed
  <2>3. Len(q.key) \in Nat
    BY RequestType
  <2>4. j \in Nat /\ j + Len(q.key) <= Len(t)
    <3>1. j \in Nat
      BY <1>1, <1>2
    <3>2. Len(t) = Len(s) - n /\ (n + j) + Len(q.key) <= Len(s)
      BY <1>2, <2>2
    <3>3. Len(q.key) \in Nat /\ Len(s) \in Nat /\ n \in Nat
      BY <1>1, <2>3
    <3>4. ASSUME NEW l \in Nat, NEW k \in Nat, (n + j) + k <= l
          PROVE  j + k <= l - n
      BY <3>1, <3>3, <3>4
    <3> QED BY <3>1, <3>2, <3>3, <3>4
  <2>5. ASSUME NEW i \in 1 .. Len(q.key) PROVE t[j + i] = q.key[i]
    <3>1. j + i \in 1 .. Len(t) /\ n + (j + i) = (n + j) + i
      BY <1>1, <1>2, <2>3, <2>4
    <3>2. t[j + i] = s[n + (j + i)]
      BY <1>3, <3>1
    <3>3. s[(n + j) + i] = q.key[i]
      BY <2>2
    <3> QED BY <3>1, <3>2, <3>3
  <2> QED BY <2>1, <2>2, <2>4, <2>5
<1> QED BY <1>4, <1>5 DEF t

\* What is read over the array of a session.
LEMMA OverlaidIsOwn ==
  ASSUME NEW rs \in SUBSET Request, NEW s \in Seq(Byte), s # << >>,
         NEW old \in Seq(Byte), MadeOf(s, rs), MadeOf(old, rs), Framed(s, rs)
  PROVE  LET a == Overlaid(s, old) IN
         /\ MadeOf(a, rs)
         /\ Head(a) \in OpCodes =>
              \E r \in rs : r.op = Head(a) /\ IsPrefix(r.key, Tail(a))
<1> DEFINE n == BytesRead(s)
          a == Overlaid(s, old)
<1>1. /\ n \in 1 .. Len(s) /\ n \in Nat /\ Len(s) \in Nat
      /\ n \in {Len(s), REQUEST_SIZE}
  BY ReadTakes
<1>2. /\ a \in Seq(Byte) /\ Len(a) \in Nat /\ Len(a) >= n /\ a # << >>
      /\ \A i \in 1 .. n : a[i] = s[i]
      /\ \A i \in 1 .. Len(a) : a[i] \in Range(s) \cup Range(old)
  BY ReadTypes DEF n, a
<1> HIDE DEF n, a
<1>3. MadeOf(a, rs)
  <2>1. \A x \in Range(a) : x \in Range(s) \cup Range(old)
    BY <1>2, Elements
  <2> QED BY <2>1 DEF MadeOf
<1>4. ASSUME Head(a) \in OpCodes
      PROVE  \E r \in rs : r.op = Head(a) /\ IsPrefix(r.key, Tail(a))
  <2>1. Head(a) = a[1] /\ a[1] = s[1] /\ 1 \in 1 .. Len(s)
    BY <1>1, <1>2
  <2>2. PICK r \in rs : /\ r.op = s[1]
                        /\ 1 + Len(r.key) <= Len(s)
                        /\ \A i \in 1 .. Len(r.key) : s[1 + i] = r.key[i]
    BY <1>4, <2>1 DEF Framed
  <2>3. r.key \in Key \cup {<< >>} /\ r.key \in Seq(Byte) /\ Len(r.key) \in Nat
    BY RequestType
  <2>4. 1 + Len(r.key) <= REQUEST_SIZE
    <3>1. r.key \in Key => 1 + Len(r.key) < REQUEST_SIZE
      BY SessionAssumption
    <3>2. r.key = << >> => Len(r.key) = 0
      OBVIOUS
    <3>3. REQUEST_SIZE \in Nat \ {0}
      BY SessionAssumption
    <3> QED BY <2>3, <3>1, <3>2, <3>3
  <2>5. 1 + Len(r.key) <= n
    BY <1>1, <2>2, <2>4
  <2>6. /\ Tail(a) \in Seq(Byte) /\ Len(Tail(a)) = Len(a) - 1
        /\ \A i \in 1 .. Len(a) - 1 : Tail(a)[i] = a[i + 1]
    BY <1>2
  <2>7. Len(r.key) <= Len(Tail(a))
    BY <1>1, <1>2, <2>3, <2>5, <2>6
  <2>8. ASSUME NEW i \in 1 .. Len(r.key) PROVE r.key[i] = Tail(a)[i]
    <3>1. 1 + i \in 1 .. n /\ 1 + i = i + 1 /\ i \in 1 .. Len(a) - 1
      BY <1>1, <1>2, <2>3, <2>5
    <3>2. a[1 + i] = s[1 + i]
      BY <1>2, <3>1
    <3>3. Tail(a)[i] = a[i + 1]
      BY <2>6, <3>1
    <3> QED BY <2>2, <3>1, <3>2, <3>3
  <2>9. SubSeq(r.key, 1, Len(r.key)) = SubSeq(Tail(a), 1, Len(r.key))
    <3> DEFINE b == Tail(a)
              k == r.key
    <3>1. k \in Seq(Byte) /\ b \in Seq(Byte) /\ Len(k) <= Len(b) /\ Len(k) \in Nat
          /\ \A i \in 1 .. Len(k) : k[i] = b[i]
      BY <2>3, <2>6, <2>7, <2>8
    <3> HIDE DEF b, k
    <3>2. SubSeq(k, 1, Len(k)) = [i \in 1 .. Len(k) |-> k[i]]
      BY <3>1
    <3>3. SubSeq(b, 1, Len(k)) = [i \in 1 .. Len(k) |-> b[i]]
      BY <3>1
    <3>4. [i \in 1 .. Len(k) |-> k[i]] = [i \in 1 .. Len(k) |-> b[i]]
      BY <3>1
    <3> QED BY <3>2, <3>3, <3>4 DEF b, k
  <2> QED BY <2>1, <2>2, <2>7, <2>9 DEF IsPrefix
<1> QED BY <1>3, <1>4 DEF a

PipeOwn(c) ==
  /\ client[c] = "away" => request_pipe[c] = << >>
  /\ MadeOf(request_pipe[c], asked[c])
  /\ Framed(request_pipe[c], asked[c])

ArrayOwn(m) ==
  alive => /\ manager[m] = "free" => request[m] = << >>
           /\ manager[m] # "free" => MadeOf(request[m], asked[serves[m]])

\* What manager m would take the array for.
Understood(m) ==
  alive /\ manager[m] = "handle" /\ op_code(m) \in OpCodes =>
    \E r \in asked[serves[m]] : r.op = op_code(m) /\ IsPrefix(r.key, key(m))

Own ==
  /\ \A c \in Client : PipeOwn(c)
  /\ \A m \in Manager : ArrayOwn(m) /\ Understood(m)

LEMMA OwnParts == OwnBytes /\ OwnRequestsOnly <=> Own
BY DEF OwnBytes, OwnRequestsOnly, Own, PipeOwn, ArrayOwn, Understood

\* A manager that keeps its session and its array, and is not past a new read.
LEMMA ManagerSame ==
  ASSUME ManagersOK, Owned, Own, NEW m \in Manager,
         serves'[m] = serves[m], request'[m] = request[m],
         manager'[m] = "free" <=> manager[m] = "free",
         manager'[m] = "handle" => manager[m] = "handle",
         alive' => alive /\ \A c \in Client :
                     c \in Range(serves) => asked[c] \subseteq asked'[c]
  PROVE  ArrayOwn(m)' /\ Understood(m)'
<1> SUFFICES ASSUME alive'
             PROVE  ArrayOwn(m)' /\ Understood(m)'
  BY DEF ArrayOwn, Understood
<1>1. CASE manager[m] = "free"
  BY <1>1 DEF Own, ArrayOwn, Understood
<1>2. CASE manager[m] # "free"
  <2>1. serves[m] \in Client /\ serves[m] \in Range(serves)
    BY <1>2, HasClient, Served
  <2>2. asked[serves[m]] \subseteq asked'[serves[m]]
    BY <2>1
  <2>3. MadeOf(request[m], asked[serves[m]])
    BY <1>2 DEF Own, ArrayOwn
  <2>4. ArrayOwn(m)'
    BY <1>2, <2>2, <2>3, MadeOfMore DEF ArrayOwn
  <2>5. Understood(m)'
    BY <2>2 DEF Own, Understood, op_code, key
  <2> QED BY <2>4, <2>5
<1> QED BY <1>1, <1>2

\* A step that changes no pipe and no array, and after which no manager is past a
\* new read.
LEMMA OwnSame ==
  ASSUME ManagersOK, Owned, Own, UNCHANGED <<pipes, serves, request>>,
         \A c \in Client : client'[c] = "away" => client[c] = "away",
         \A m \in Manager : /\ manager'[m] = "free" <=> manager[m] = "free"
                            /\ manager'[m] = "handle" => manager[m] = "handle",
         alive' => alive
  PROVE  Own'
<1>1. request_pipe' = request_pipe /\ asked' = asked /\ serves' = serves /\ request' = request
  BY DEF pipes
<1>2. \A c \in Client : PipeOwn(c)'
  BY <1>1 DEF Own, PipeOwn
<1>3. ASSUME NEW m \in Manager PROVE ArrayOwn(m)' /\ Understood(m)'
  <2>1. serves'[m] = serves[m] /\ request'[m] = request[m]
    BY <1>1
  <2>2. alive' => alive /\ \A c \in Client :
                    c \in Range(serves) => asked[c] \subseteq asked'[c]
    BY <1>1
  <2> QED BY <2>1, <2>2, ManagerSame
<1> QED BY <1>2, <1>3 DEF Own

LEMMA OwnSend ==
  ASSUME TypeOK, Owned, Own, NEW c \in Client, Send(c),
         client' \in {client, [client EXCEPT ![c] = "leaving"]}
  PROVE  Own'
<1>t. PipesOK /\ ManagersOK /\ StoreOK /\ RestOK
  BY TypeParts
<1> DEFINE r == Head(input[c])
          bytes == request_pipe[c] \o <<r.op>> \o r.key
<1>1. /\ r \in Request
      /\ request_pipe' = [request_pipe EXCEPT ![c] = bytes]
      /\ asked' = [asked EXCEPT ![c] = @ \cup {r}]
      /\ UNCHANGED <<manager, owned, request, store, inherited, alive>>
  BY <1>t, SendTypes
<1>2. client[c] = "open" /\ PipesOK'
  BY <1>t, SendTypes DEF Send
<1>3. request_pipe[c] \in Seq(Byte) /\ asked[c] \in SUBSET Request
  BY <1>t DEF PipesOK
<1> HIDE DEF r
<1>4. MadeOf(bytes, asked[c] \cup {r}) /\ Framed(bytes, asked[c] \cup {r})
  BY <1>1, <1>3, WrittenIsFramed DEF Own, PipeOwn
<1> HIDE DEF bytes
<1>5. ASSUME NEW d \in Client PROVE PipeOwn(d)'
  <2>1. CASE d = c
    <3>1. request_pipe'[c] = bytes /\ asked'[c] = asked[c] \cup {r} /\ client'[c] # "away"
      BY <1>t, <1>1, <1>2 DEF PipesOK, RestOK
    <3> QED BY <1>4, <2>1, <3>1 DEF PipeOwn
  <2>2. CASE d # c
    <3>1. request_pipe'[d] = request_pipe[d] /\ asked'[d] = asked[d] /\ client'[d] = client[d]
      BY <1>t, <1>1, <2>2 DEF PipesOK, RestOK
    <3> QED BY <3>1 DEF Own, PipeOwn
  <2> QED BY <2>1, <2>2
<1>6. \A d \in Client : asked[d] \subseteq asked'[d]
  BY <1>t, <1>1 DEF PipesOK
<1>7. ASSUME NEW m \in Manager PROVE ArrayOwn(m)' /\ Understood(m)'
  <2>1. /\ serves' = serves /\ request' = request /\ manager' = manager
        /\ alive' = alive
    BY <1>1 DEF owned
  <2> QED BY <1>t, <1>6, <2>1, ManagerSame
<1> QED BY <1>5, <1>7 DEF Own

LEMMA OwnRead ==
  ASSUME TypeOK, Owned, Own, NEW m \in Manager, Read(m)
  PROVE  Own'
<1>t. PipesOK /\ ManagersOK /\ StoreOK /\ RestOK
  BY TypeParts
<1> DEFINE c == serves[m]
          bytes == request_pipe[c]
          array == Overlaid(bytes, request[m])
<1>1. /\ request' = [request EXCEPT ![m] = array]
      /\ request_pipe' = [request_pipe EXCEPT ![c] = Left(bytes)]
      /\ manager' = [manager EXCEPT ![m] = "handle"]
      /\ UNCHANGED <<client, input, asked, owned, store, inherited, alive>>
  BY ReadStep
<1>2. alive /\ manager[m] = "read" /\ bytes # << >> /\ c \in Client
  BY <1>t, HasClient DEF Read
<1>3. bytes \in Seq(Byte) /\ asked[c] \in SUBSET Request /\ request[m] \in Seq(Byte)
  BY <1>t, <1>2 DEF PipesOK, ManagersOK
<1>4. /\ MadeOf(bytes, asked[c]) /\ Framed(bytes, asked[c])
      /\ MadeOf(request[m], asked[c])
  BY <1>2 DEF Own, PipeOwn, ArrayOwn
<1>5. MadeOf(Left(bytes), asked[c]) /\ Framed(Left(bytes), asked[c])
  <2> HIDE DEF bytes, c
  <2> QED BY <1>2, <1>3, <1>4, LeftIsFramed
<1>6. /\ MadeOf(array, asked[c])
      /\ Head(array) \in OpCodes =>
           \E r \in asked[c] : r.op = Head(array) /\ IsPrefix(r.key, Tail(array))
  <2> HIDE DEF bytes, c
  <2> QED BY <1>2, <1>3, <1>4, OverlaidIsOwn
<1>7. client[c] # "away"
  BY <1>2 DEF Owned
<1>8. ASSUME NEW d \in Client PROVE PipeOwn(d)'
  <2>0. client' = client /\ asked' = asked
    BY <1>1
  <2>1. CASE d = c
    <3>1. request_pipe'[d] = Left(bytes)
      BY <1>t, <1>1, <1>2, <2>1 DEF PipesOK
    <3> QED BY <1>5, <1>7, <2>0, <2>1, <3>1 DEF PipeOwn
  <2>2. CASE d # c
    <3>1. request_pipe'[d] = request_pipe[d]
      BY <1>t, <1>1, <2>2 DEF PipesOK
    <3> QED BY <2>0, <3>1 DEF Own, PipeOwn
  <2> QED BY <2>1, <2>2
<1>9. ASSUME NEW n \in Manager PROVE ArrayOwn(n)' /\ Understood(n)'
  <2>0. serves' = serves /\ asked' = asked /\ alive' = alive
    BY <1>1 DEF owned
  <2>1. CASE n = m
    <3>1. request'[n] = array /\ manager'[n] = "handle" /\ serves'[n] = c
      BY <1>t, <1>1, <2>0, <2>1 DEF ManagersOK
    <3>2. (asked[serves[n]])' = asked[c]
      BY <2>0, <2>1
    <3>3. Head(request'[n]) = Head(array) /\ Tail(request'[n]) = Tail(array)
      BY <3>1
    <3> HIDE DEF array, c
    <3>4. ArrayOwn(n)'
      BY <1>6, <3>1, <3>2 DEF ArrayOwn
    <3>5. Understood(n)'
      BY <1>6, <3>1, <3>2, <3>3 DEF Understood, op_code, key
    <3> QED BY <3>4, <3>5
  <2>2. CASE n # m
    <3>1. request'[n] = request[n] /\ manager'[n] = manager[n] /\ serves'[n] = serves[n]
      BY <1>t, <1>1, <2>0, <2>2 DEF ManagersOK
    <3> QED BY <1>t, <2>0, <3>1, ManagerSame
  <2> QED BY <2>1, <2>2
<1> QED BY <1>8, <1>9 DEF Own

LEMMA OwnStep ==
  ASSUME TypeOK, Owned, Own, [Next]_vars
  PROVE  Own'
<1>t. PipesOK /\ ManagersOK /\ StoreOK /\ RestOK
  BY TypeParts
<1>1. ASSUME NEW m \in Manager, Read(m) PROVE Own'
  BY <1>1, OwnRead
<1>2. ASSUME NEW m \in Manager, NEW op, NEW then \in {"read", "close"},
             Handles(m, op), Answered(m, then)
      PROVE  Own'
  <2>1. UNCHANGED <<client, pipes, serves, request>> /\ manager[m] = "handle"
    BY <1>2 DEF Handles, owned
  <2>2. manager' \in {manager, [manager EXCEPT ![m] = then]} /\ (alive' => alive)
    BY <1>2 DEF Answered, Handles
  <2>3. \A n \in Manager : /\ manager'[n] = "free" <=> manager[n] = "free"
                           /\ manager'[n] = "handle" => manager[n] = "handle"
    BY <1>t, <2>1, <2>2 DEF ManagersOK
  <2> QED BY <1>t, <2>1, <2>2, <2>3, OwnSame
<1>3. ASSUME NEW m \in Manager,
             HandleSubscribe(m) \/ HandleUnsubscribe(m) \/ HandleDisconnect(m)
      PROVE  Own'
  BY <1>2, <1>3 DEF HandleSubscribe, HandleUnsubscribe, HandleDisconnect
<1>4. ASSUME NEW m \in Manager, HandleInvalid(m) \/ EndOfPipe(m) PROVE Own'
  <2>1. UNCHANGED <<client, pipes, serves, request, alive>>
    BY <1>4 DEF HandleInvalid, EndOfPipe, owned
  <2>2. \A n \in Manager : /\ manager'[n] = "free" <=> manager[n] = "free"
                           /\ manager'[n] = "handle" => manager[n] = "handle"
    BY <1>t, <1>4 DEF HandleInvalid, EndOfPipe, ManagersOK
  <2> QED BY <1>t, <2>1, <2>2, OwnSame
<1>5. ASSUME NEW m \in Manager, Close(m) PROVE Own'
  <2>1. /\ client' = client /\ request_pipe' = request_pipe /\ asked' = asked
        /\ serves' = [serves EXCEPT ![m] = Nobody]
        /\ manager' = [manager EXCEPT ![m] = "free"]
        /\ request' = [request EXCEPT ![m] = << >>]
        /\ alive' = alive
    BY <1>5 DEF Close, pipes
  <2>2. \A d \in Client : PipeOwn(d)'
    BY <2>1 DEF Own, PipeOwn
  <2>3. ASSUME NEW n \in Manager PROVE ArrayOwn(n)' /\ Understood(n)'
    <3>1. CASE n = m
      <4>1. request'[n] = << >> /\ manager'[n] = "free"
        BY <1>t, <2>1, <3>1 DEF ManagersOK
      <4> QED BY <4>1 DEF ArrayOwn, Understood
    <3>2. CASE n # m
      <4>1. request'[n] = request[n] /\ manager'[n] = manager[n] /\ serves'[n] = serves[n]
        BY <1>t, <2>1, <3>2 DEF ManagersOK
      <4> QED BY <1>t, <2>1, <4>1, ManagerSame
    <3> QED BY <3>1, <3>2
  <2> QED BY <2>2, <2>3 DEF Own
<1>6. ASSUME NEW m \in Manager, NEW c \in Client, Open(m, c) PROVE Own'
  <2>1. /\ client' = [client EXCEPT ![c] = "open"]
        /\ request_pipe' = request_pipe /\ asked' = asked
        /\ serves' = [serves EXCEPT ![m] = c]
        /\ manager' = [manager EXCEPT ![m] = "read"]
        /\ manager[m] = "free" /\ request' = request /\ alive' = alive /\ alive
    BY <1>6 DEF Open
  <2>2. ASSUME NEW d \in Client PROVE PipeOwn(d)'
    <3>1. client'[d] = "away" => client[d] = "away"
      BY <1>t, <2>1 DEF RestOK
    <3> QED BY <2>1, <3>1 DEF Own, PipeOwn
  <2>3. ASSUME NEW n \in Manager PROVE ArrayOwn(n)' /\ Understood(n)'
    <3>1. CASE n = m
      <4>1. request'[n] = << >> /\ manager'[n] = "read"
        BY <1>t, <2>1, <3>1 DEF ManagersOK, Own, ArrayOwn
      <4> QED BY <4>1, MadeOfNothing DEF ArrayOwn, Understood
    <3>2. CASE n # m
      <4>1. request'[n] = request[n] /\ manager'[n] = manager[n] /\ serves'[n] = serves[n]
        BY <1>t, <2>1, <3>2 DEF ManagersOK
      <4> QED BY <1>t, <2>1, <4>1, ManagerSame
    <3> QED BY <3>1, <3>2
  <2> QED BY <2>2, <2>3 DEF Own
<1>7. ASSUME NEW c \in Client, Ask(c) \/ Disconnect(c) PROVE Own'
  BY <1>7, OwnSend DEF Ask, Disconnect
<1>8. ASSUME NEW c \in Client, DisconnectReturns(c) PROVE Own'
  <2>1. /\ client' = [client EXCEPT ![c] = "away"]
        /\ request_pipe' = [request_pipe EXCEPT ![c] = << >>]
        /\ asked' = [asked EXCEPT ![c] = {}]
        /\ manager' = manager /\ serves' = serves /\ request' = request /\ alive' = alive
        /\ alive => c \notin Range(serves)
    BY <1>8 DEF DisconnectReturns, owned
  <2>2. ASSUME NEW d \in Client PROVE PipeOwn(d)'
    <3>1. CASE d = c
      <4>1. request_pipe'[d] = << >>
        BY <1>t, <2>1, <3>1 DEF PipesOK
      <4> QED BY <4>1, MadeOfNothing DEF PipeOwn
    <3>2. CASE d # c
      <4>1. request_pipe'[d] = request_pipe[d] /\ asked'[d] = asked[d]
            /\ client'[d] = client[d]
        BY <1>t, <2>1, <3>2 DEF PipesOK, RestOK
      <4> QED BY <4>1 DEF Own, PipeOwn
    <3> QED BY <3>1, <3>2
  <2>3. alive => \A d \in Client : d \in Range(serves) => asked'[d] = asked[d]
    BY <1>t, <2>1 DEF PipesOK
  <2>4. \A n \in Manager : ArrayOwn(n)' /\ Understood(n)'
    BY <1>t, <2>1, <2>3, ManagerSame
  <2> QED BY <2>2, <2>4 DEF Own
<1>9. ASSUME NEW c \in Client, Crash(c) PROVE Own'
  <2>1. UNCHANGED <<pipes, manager, serves, request, alive>>
    BY <1>9 DEF Crash, owned
  <2>2. \A d \in Client : client'[d] = "away" => client[d] = "away"
    BY <1>t, <1>9 DEF Crash, RestOK
  <2> QED BY <1>t, <2>1, <2>2, OwnSame
<1>a. ASSUME NEW k \in Key, WriteNew(k) \/ Delete(k) PROVE Own'
  <2>1. UNCHANGED <<client, pipes, manager, serves, request, alive>>
    BY <1>a DEF WriteNew, Delete, owned
  <2> QED BY <1>t, <2>1, OwnSame
<1>b. ASSUME Fork \/ ChildExit \/ UNCHANGED vars PROVE Own'
  <2>1. UNCHANGED <<client, pipes, manager, serves, request, alive>>
    BY <1>b DEF Fork, ChildExit, vars, owned
  <2> QED BY <1>t, <2>1, OwnSame
<1> QED
  BY <1>1, <1>3, <1>4, <1>5, <1>6, <1>7, <1>8, <1>9, <1>a, <1>b DEF Next, ManagerStep

-----------------------------------------------------------------------------
(* The theorems. *)

LEMMA Begun ==
  ASSUME Init
  PROVE  IInv /\ SubscribedOnce /\ Own
<1>1. TypeOK
  <2>1. << >> \in Seq(Byte) /\ << >> \in Seq(Request)
    OBVIOUS
  <2> QED BY <2>1 DEF Init, TypeOK
<1>2. Own
  BY MadeOfNothing DEF Init, Own, PipeOwn, ArrayOwn, Understood
<1>3. Owned
  BY DEF Init, Owned
<1>4. SubscriptionsKept /\ SubscribedOnce
  BY DEF Init, SubscriptionsKept, SubscribedOnce
<1> QED BY <1>1, <1>2, <1>3, <1>4 DEF IInv

LEMMA Invariance == Spec => []IInv
<1>1. Init => IInv
  BY Begun
<1>2. IInv /\ [Next]_vars => IInv'
  BY TypeStep, OwnedStep, KeptStep DEF IInv
<1> QED BY <1>1, <1>2, PTL DEF Spec

\* Every variable keeps its type however clients send: back to back, so that reads
\* take several requests or cut one, over what is left of longer ones.
THEOREM TypeCorrect == Spec => []TypeOK
<1>1. IInv => TypeOK
  BY DEF IInv
<1> QED BY <1>1, Invariance, PTL

\* Whatever clients send, and however reads cut and join it, a manager takes for a
\* request only the start of one that its client sent in this session, with all of
\* its key; the rest of a request that was cut it takes for none.
THEOREM NothingMadeUp == Spec => []OwnRequestsOnly
<1>1. Init => Own
  BY Begun
<1>2. IInv /\ Own /\ [Next]_vars => Own'
  BY OwnStep DEF IInv
<1>3. Own => OwnRequestsOnly
  BY OwnParts
<1> QED BY <1>1, <1>2, <1>3, Invariance, PTL DEF Spec

\* What a client was told of a subscription stays true, for any number of
\* sessions that share the nodes, any contents of new ones, any clients that
\* are killed and any descriptors that are used again.
THEOREM ToldIsKept == Spec => []SubscriptionsKept
<1>1. IInv => SubscriptionsKept
  BY DEF IInv
<1> QED BY <1>1, Invariance, PTL

\* If malloc repeats no descriptor in a new node, no node ever does.
THEOREM DescriptorsOnce ==
  ASSUME \A fds \in MallocContents : Once(fds)
  PROVE  Spec => []SubscribedOnce
<1>1. Init => SubscribedOnce
  BY Begun
<1>2. IInv /\ SubscribedOnce /\ [Next]_vars => SubscribedOnce'
  BY OnceStep DEF IInv
<1> QED BY <1>1, <1>2, Invariance, PTL DEF Spec

=============================================================================
