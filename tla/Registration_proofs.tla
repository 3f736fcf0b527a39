------------------------ MODULE Registration_proofs ------------------------
(***************************************************************************)
(* Proofs about Registration for any number of clients and of slots: the   *)
(* ring buffer of host_FIFO and the session managers is a bounded queue;   *)
(* the host, which takes no mutex, never writes a slot that a manager      *)
(* copies; until a read ends inside a registration, every registration is  *)
(* in one place from kvs_connect to the end of its session, and a client   *)
(* in a session has a manager to itself.                                   *)
(***************************************************************************)
EXTENDS Registration, FiniteSetTheorems, SequenceTheorems, TLAPS

-----------------------------------------------------------------------------
(* What is written. *)

LEMMA SentType ==
  ASSUME NEW c \in Client
  PROVE  Sent(c) \in Nat \ {0}
BY RegistrationAssumption DEF Sent

LEMMA MessageIs ==
  ASSUME NEW c \in Client
  PROVE  /\ Message[c] \in Seq(Character) /\ Message[c] # << >>
         /\ Len(Message[c]) = Sent(c) /\ 1 \in DOMAIN Message[c]
         /\ \A n \in DOMAIN Message[c] : Message[c][n] = <<c, n>>
<1>1. Message[c] = [n \in 1 .. Sent(c) |-> <<c, n>>]
  BY DEF Message
<1>2. Sent(c) \in Nat \ {0}
  BY SentType
<1>3. \A n \in 1 .. Sent(c) : <<c, n>> \in Character
  BY <1>2 DEF Character
<1>4. Message[c] \in [1 .. Sent(c) -> Character]
  BY <1>1, <1>3
<1>5. Message[c] \in Seq(Character) /\ Len(Message[c]) = Sent(c)
  BY <1>2, <1>4
<1>6. DOMAIN Message[c] = 1 .. Sent(c) /\ 1 \in 1 .. Sent(c)
  BY <1>1, <1>2
<1>7. Message[c] # << >>
  BY <1>2, <1>5, EmptySeq
<1> QED BY <1>1, <1>5, <1>6, <1>7

-----------------------------------------------------------------------------
(* Counting managers. *)

LEMMA Sizes ==
  MAX_SESSION_COUNT \in Nat \ {0} /\ IsFiniteSet(Manager) /\ Nobody \notin Manager
BY RegistrationAssumption

\* A set of managers gets or loses at most one.
LEMMA CountMoves ==
  ASSUME NEW before \in SUBSET Manager, NEW after \in SUBSET Manager, NEW m,
         before \ {m} = after \ {m}
  PROVE  /\ Cardinality(after) = Cardinality(before)
              + (IF m \in after THEN 1 ELSE 0) - (IF m \in before THEN 1 ELSE 0)
         /\ m \in before => Cardinality(before) > 0
<1> DEFINE b == Cardinality(before)
           a == Cardinality(after)
           rest == Cardinality(before \ {m})
<1>1. IsFiniteSet(before) /\ IsFiniteSet(after)
  BY Sizes, FS_Subset
<1>2. b \in Nat /\ a \in Nat
  BY <1>1, FS_CardinalityType
<1>4. rest = IF m \in before THEN b - 1 ELSE b
  BY <1>1, FS_RemoveElement
<1>5. rest = IF m \in after THEN a - 1 ELSE a
  BY <1>1, FS_RemoveElement
<1>6. m \in before => b # 0
  BY <1>1, FS_EmptySet
<1> HIDE DEF a, b, rest
<1>a. a = b + (IF m \in after THEN 1 ELSE 0) - (IF m \in before THEN 1 ELSE 0)
  BY <1>2, <1>4, <1>5
<1>b. m \in before => b > 0
  BY <1>2, <1>6
<1> QED BY <1>a, <1>b DEF a, b

LEMMA CountTypes ==
  /\ Cardinality(Waiting) \in Nat /\ Cardinality(Copied) \in Nat
  /\ Cardinality(Posting) \in Nat
<1>1. IsFiniteSet(Waiting) /\ IsFiniteSet(Copied) /\ IsFiniteSet(Posting)
  BY Sizes, FS_Subset DEF Waiting, Copied, Posting
<1> QED BY <1>1, FS_CardinalityType

\* The three counts, when a manager goes on.
LEMMA ManagerMoves ==
  ASSUME Control, NEW m \in Manager, NEW there, manager' = [manager EXCEPT ![m] = there]
  PROVE  /\ Cardinality(Waiting') = Cardinality(Waiting)
              + (IF there \in {"lock", "copy"} THEN 1 ELSE 0)
              - (IF manager[m] \in {"lock", "copy"} THEN 1 ELSE 0)
         /\ Cardinality(Copied') = Cardinality(Copied)
              + (IF there = "unlock" THEN 1 ELSE 0)
              - (IF manager[m] = "unlock" THEN 1 ELSE 0)
         /\ Cardinality(Posting') = Cardinality(Posting)
              + (IF there = "post" THEN 1 ELSE 0)
              - (IF manager[m] = "post" THEN 1 ELSE 0)
         /\ manager[m] \in {"lock", "copy"} => Cardinality(Waiting) > 0
         /\ manager[m] = "unlock" => Cardinality(Copied) > 0
<1>1. manager \in [Manager -> Before \cup {"unlock", "post", "garbled", "stuck"} \cup Phases]
  BY DEF Control
<1>2. /\ Waiting \in SUBSET Manager /\ Waiting' \in SUBSET Manager
      /\ Copied \in SUBSET Manager /\ Copied' \in SUBSET Manager
      /\ Posting \in SUBSET Manager /\ Posting' \in SUBSET Manager
  BY DEF Waiting, Copied, Posting
<1>3. /\ Waiting \ {m} = Waiting' \ {m}
      /\ m \in Waiting <=> manager[m] \in {"lock", "copy"}
      /\ m \in Waiting' <=> there \in {"lock", "copy"}
  BY <1>1 DEF Waiting
<1>4. /\ Copied \ {m} = Copied' \ {m}
      /\ m \in Copied <=> manager[m] = "unlock"
      /\ m \in Copied' <=> there = "unlock"
  BY <1>1 DEF Copied
<1>5. /\ Posting \ {m} = Posting' \ {m}
      /\ m \in Posting <=> manager[m] = "post"
      /\ m \in Posting' <=> there = "post"
  BY <1>1 DEF Posting
<1>6. /\ Cardinality(Waiting') = Cardinality(Waiting)
           + (IF m \in Waiting' THEN 1 ELSE 0) - (IF m \in Waiting THEN 1 ELSE 0)
      /\ m \in Waiting => Cardinality(Waiting) > 0
  BY <1>2, <1>3, CountMoves
<1>7. /\ Cardinality(Copied') = Cardinality(Copied)
           + (IF m \in Copied' THEN 1 ELSE 0) - (IF m \in Copied THEN 1 ELSE 0)
      /\ m \in Copied => Cardinality(Copied) > 0
  BY <1>2, <1>4, CountMoves
<1>8. Cardinality(Posting') = Cardinality(Posting)
        + (IF m \in Posting' THEN 1 ELSE 0) - (IF m \in Posting THEN 1 ELSE 0)
  BY <1>2, <1>5, CountMoves
<1>9. /\ (IF m \in Waiting' THEN 1 ELSE 0) = (IF there \in {"lock", "copy"} THEN 1 ELSE 0)
      /\ (IF m \in Waiting THEN 1 ELSE 0) = (IF manager[m] \in {"lock", "copy"} THEN 1 ELSE 0)
      /\ (IF m \in Copied' THEN 1 ELSE 0) = (IF there = "unlock" THEN 1 ELSE 0)
      /\ (IF m \in Copied THEN 1 ELSE 0) = (IF manager[m] = "unlock" THEN 1 ELSE 0)
      /\ (IF m \in Posting' THEN 1 ELSE 0) = (IF there = "post" THEN 1 ELSE 0)
      /\ (IF m \in Posting THEN 1 ELSE 0) = (IF manager[m] = "post" THEN 1 ELSE 0)
  BY <1>3, <1>4, <1>5
<1> QED BY <1>3, <1>4, <1>6, <1>7, <1>8, <1>9

-----------------------------------------------------------------------------
(* Going around the ring. *)

LEMMA ModBelow ==
  ASSUME NEW n \in Nat \ {0}, NEW i \in 0 .. n - 1
  PROVE  i % n = i
OBVIOUS

LEMMA ModAbove ==
  ASSUME NEW n \in Nat \ {0}, NEW i \in n .. 2 * n - 1
  PROVE  i % n = i - n
OBVIOUS

LEMMA NextSlot ==
  ASSUME NEW i \in Slots
  PROVE  /\ (i + 1) % MAX_SESSION_COUNT \in Slots
         /\ \/ (i + 1) % MAX_SESSION_COUNT = i + 1
            \/ (i + 1) % MAX_SESSION_COUNT = i + 1 - MAX_SESSION_COUNT
<1>1. MAX_SESSION_COUNT \in Nat \ {0} /\ i \in 0 .. MAX_SESSION_COUNT - 1
  BY Sizes DEF Slots
<1>2. CASE i + 1 < MAX_SESSION_COUNT
  <2>1. i + 1 \in 0 .. MAX_SESSION_COUNT - 1
    BY <1>1, <1>2
  <2>2. (i + 1) % MAX_SESSION_COUNT = i + 1
    BY <1>1, <2>1, ModBelow
  <2> QED BY <2>1, <2>2 DEF Slots
<1>3. CASE ~ (i + 1 < MAX_SESSION_COUNT)
  <2>1. i + 1 \in MAX_SESSION_COUNT .. 2 * MAX_SESSION_COUNT - 1
    BY <1>1, <1>3
  <2>2. (i + 1) % MAX_SESSION_COUNT = i + 1 - MAX_SESSION_COUNT
    BY <1>1, <2>1, ModAbove
  <2>3. i + 1 - MAX_SESSION_COUNT \in 0 .. MAX_SESSION_COUNT - 1
    BY <1>1, <1>3
  <2> QED BY <2>2, <2>3 DEF Slots
<1> QED BY <1>2, <1>3

-----------------------------------------------------------------------------
(* The invariant of the ring. *)

Accepting == IF host \in {"read", "post"} THEN 1 ELSE 0

\* The numbers of the invariant are numbers.
LEMMA Numbers ==
  ASSUME Control
  PROVE  /\ Filled \in Nat /\ Accepting \in {0, 1}
         /\ Cardinality(Waiting) \in Nat /\ Cardinality(Copied) \in Nat
         /\ Cardinality(Posting) \in Nat
         /\ SEM_BUFFER_SPACE \in Nat /\ SEM_BUFFER_CLIENTS \in Nat
         /\ BUFFER_READ_INDEX \in Nat /\ BUFFER_WRITE_INDEX \in Nat
         /\ BUFFER_READ_INDEX < MAX_SESSION_COUNT
         /\ BUFFER_WRITE_INDEX < MAX_SESSION_COUNT
         /\ MAX_SESSION_COUNT \in Nat \ {0}
<1>1. /\ SEM_BUFFER_SPACE \in Nat /\ SEM_BUFFER_CLIENTS \in Nat
      /\ BUFFER_READ_INDEX \in Slots /\ BUFFER_WRITE_INDEX \in Slots
  BY DEF Control
<1>2. Filled \in Nat
  BY <1>1, CountTypes DEF Filled
<1>3. /\ BUFFER_READ_INDEX \in Nat /\ BUFFER_WRITE_INDEX \in Nat
      /\ BUFFER_READ_INDEX < MAX_SESSION_COUNT
      /\ BUFFER_WRITE_INDEX < MAX_SESSION_COUNT
  BY <1>1, Sizes DEF Slots
<1>4. Accepting \in {0, 1}
  BY DEF Accepting
<1> QED BY <1>1, <1>2, <1>3, <1>4, CountTypes, Sizes

LEMMA Sum ==
  ASSUME IInv, main = "created"
  PROVE  SEM_BUFFER_SPACE + Accepting + Filled + Cardinality(Posting) = MAX_SESSION_COUNT
BY DEF IInv, Counted, Accepting

\* No slot is taken before the semaphores are there.
LEMMA CreatedFirst ==
  ASSUME IInv, \/ host \in {"read", "post"}
               \/ \E m \in Manager : manager[m] # "wait"
  PROVE  main = "created"
BY DEF IInv, Control, Counted

\* A manager that copies a slot is alone with the read index.
LEMMA Alone ==
  ASSUME IInv, NEW m \in Manager, manager[m] = "copy"
  PROVE  Cardinality(Copied) = 0
<1>1. Copied = {}
  BY DEF IInv, Control, Locked, Copied
<1> QED BY <1>1, FS_EmptySet

\* The semaphores and the indices keep the host away from the managers.
LEMMA HostApart ==
  ASSUME IInv
  PROVE  SlotNotShared
<1> SUFFICES ASSUME NEW m \in Manager, host = "read", manager[m] = "copy"
             PROVE  BUFFER_WRITE_INDEX # BUFFER_READ_INDEX
  BY DEF SlotNotShared
<1>1. main = "created"
  BY CreatedFirst
<1>2. SEM_BUFFER_SPACE + 1 + Filled + Cardinality(Posting) = MAX_SESSION_COUNT
  BY <1>1, Sum DEF Accepting
<1>3. Control
  BY DEF IInv
<1>4. Cardinality(Waiting) > 0
  <2>1. m \in Waiting /\ Waiting \in SUBSET Manager
    BY DEF Waiting
  <2> QED BY <2>1, CountMoves
<1>5. Filled > 0
  BY <1>3, <1>4, Numbers DEF Filled
<1>6. Filled < MAX_SESSION_COUNT
  BY <1>2, <1>3, Numbers
<1>7. \/ BUFFER_WRITE_INDEX = BUFFER_READ_INDEX + Filled
      \/ BUFFER_WRITE_INDEX = BUFFER_READ_INDEX + Filled - MAX_SESSION_COUNT
  BY DEF IInv, Indexed
<1> QED BY <1>3, <1>5, <1>6, <1>7, Numbers

-----------------------------------------------------------------------------
(* Every step keeps the invariant. *)

LEMMA SameCounts ==
  ASSUME manager' = manager
  PROVE  /\ Waiting' = Waiting /\ Copied' = Copied /\ Posting' = Posting
BY DEF Waiting, Copied, Posting

\* How the sum, the indices and the mutex go on, once the counts are known.
LEMMA RingKept ==
  ASSUME Control', Arrays', Locked', main' = "created",
         SEM_BUFFER_SPACE' + Accepting' + Filled' + Cardinality(Posting')
           = MAX_SESSION_COUNT,
         Indexed'
  PROVE  IInv'
<1>1. main' # "init"
  OBVIOUS
<1>2. Counted'
  BY <1>1 DEF Counted, Accepting
<1> QED BY <1>2 DEF IInv

\* A step that leaves the ring as it is.
LEMMA RingSame ==
  ASSUME IInv, UNCHANGED <<main, host, sems, buffer, BUFFER_MUTEX, manager, client_paths>>
  PROVE  IInv'
<1>1. /\ main' = main /\ host' = host
      /\ SEM_BUFFER_SPACE' = SEM_BUFFER_SPACE /\ SEM_BUFFER_CLIENTS' = SEM_BUFFER_CLIENTS
      /\ BUFFER' = BUFFER /\ BUFFER_READ_INDEX' = BUFFER_READ_INDEX
      /\ BUFFER_WRITE_INDEX' = BUFFER_WRITE_INDEX /\ BUFFER_MUTEX' = BUFFER_MUTEX
      /\ manager' = manager /\ client_paths' = client_paths
  BY DEF sems, buffer
<1>2. Waiting' = Waiting /\ Copied' = Copied /\ Posting' = Posting
  BY <1>1, SameCounts
<1>3. Filled' = Filled
  BY <1>1, <1>2 DEF Filled
<1>4. Control' /\ Locked' /\ Arrays'
  BY <1>1 DEF IInv, Control, Locked, Arrays
<1>5. Counted'
  BY <1>1, <1>2, <1>3 DEF IInv, Counted
<1>6. Indexed'
  BY <1>1, <1>3 DEF IInv, Indexed
<1> QED BY <1>4, <1>5, <1>6 DEF IInv

\* A manager that goes on outside of the ring.
LEMMA OpenKeeps ==
  ASSUME IInv, NEW m \in Manager, NEW here, NEW there, At(m, here, there),
         here \in Phases \cup {"garbled"}, there \in Phases \cup {"stuck", "wait"},
         UNCHANGED <<main, host, sems, buffer, BUFFER_MUTEX, client_paths>>
  PROVE  IInv'
<1>1. /\ main' = main /\ host' = host
      /\ SEM_BUFFER_SPACE' = SEM_BUFFER_SPACE /\ SEM_BUFFER_CLIENTS' = SEM_BUFFER_CLIENTS
      /\ BUFFER' = BUFFER /\ BUFFER_READ_INDEX' = BUFFER_READ_INDEX
      /\ BUFFER_WRITE_INDEX' = BUFFER_WRITE_INDEX /\ BUFFER_MUTEX' = BUFFER_MUTEX
      /\ client_paths' = client_paths
      /\ manager[m] = here /\ manager' = [manager EXCEPT ![m] = there]
  BY DEF sems, buffer, At
<1>t. Control /\ Locked /\ Arrays /\ Indexed
  BY DEF IInv
<1>c. main = "created"
  BY <1>1, CreatedFirst DEF Phases
<1>p. /\ here \notin {"lock", "copy"} /\ here # "unlock" /\ here # "post"
      /\ there \notin {"lock", "copy"} /\ there # "unlock" /\ there # "post"
  BY DEF Phases
<1>2. /\ Cardinality(Waiting') = Cardinality(Waiting)
      /\ Cardinality(Copied') = Cardinality(Copied)
      /\ Cardinality(Posting') = Cardinality(Posting)
  <2>1. /\ Cardinality(Waiting') = Cardinality(Waiting) + 0 - 0
        /\ Cardinality(Copied') = Cardinality(Copied) + 0 - 0
        /\ Cardinality(Posting') = Cardinality(Posting) + 0 - 0
    BY <1>1, <1>t, <1>p, ManagerMoves
  <2> QED BY <2>1, CountTypes
<1>3. Filled' = Filled /\ Accepting' = Accepting
  BY <1>1, <1>2 DEF Filled, Accepting
<1>4. Control'
  BY <1>1, <1>t DEF Control, Before
<1>5. Locked' /\ Arrays'
  BY <1>1, <1>t, <1>p DEF Control, Locked, Arrays
<1>6. Indexed'
  BY <1>1, <1>3, <1>t DEF Indexed
<1>7. SEM_BUFFER_SPACE' + Accepting' + Filled' + Cardinality(Posting') = MAX_SESSION_COUNT
  BY <1>1, <1>2, <1>3, <1>c, Sum
<1> QED BY <1>1, <1>4, <1>5, <1>6, <1>7, <1>c, RingKept

LEMMA MainInitKeeps ==
  ASSUME IInv, MainInit
  PROVE  IInv'
<1>1. /\ main = "init" /\ main' = "created" /\ host' = host /\ manager' = manager
      /\ SEM_BUFFER_SPACE' = MAX_SESSION_COUNT /\ SEM_BUFFER_CLIENTS' = 0
      /\ BUFFER' = BUFFER /\ BUFFER_READ_INDEX' = BUFFER_READ_INDEX
      /\ BUFFER_WRITE_INDEX' = BUFFER_WRITE_INDEX /\ BUFFER_MUTEX' = BUFFER_MUTEX
      /\ client_paths' = client_paths
  BY DEF MainInit, buffer
<1>t. Control /\ Locked /\ Arrays /\ Indexed
  BY DEF IInv
<1>2. /\ SEM_BUFFER_CLIENTS = 0 /\ host \in {"wait", "stranded"}
      /\ \A m \in Manager : manager[m] = "wait"
  BY <1>1 DEF IInv, Counted
<1>3. Waiting = {} /\ Copied = {} /\ Posting = {}
  BY <1>2 DEF Waiting, Copied, Posting
<1>4. Waiting' = {} /\ Copied' = {} /\ Posting' = {}
  BY <1>1, <1>3, SameCounts
<1>5. Cardinality({}) = 0
  BY FS_EmptySet
<1>6. Filled = 0 /\ Filled' = 0 /\ Accepting' = 0
  BY <1>1, <1>2, <1>3, <1>4, <1>5 DEF Filled, Accepting
<1>7. Control'
  BY <1>1, <1>t, Sizes DEF Control
<1>8. Locked' /\ Arrays' /\ Indexed'
  BY <1>1, <1>6, <1>t DEF Locked, Arrays, Indexed
<1>9. SEM_BUFFER_SPACE' + Accepting' + Filled' + Cardinality(Posting') = MAX_SESSION_COUNT
  BY <1>1, <1>4, <1>5, <1>6, Sizes
<1> QED BY <1>1, <1>7, <1>8, <1>9, RingKept

LEMMA StrandedKeeps ==
  ASSUME IInv, HostStranded
  PROVE  IInv'
<1>1. /\ main = "init" /\ main' = main /\ host' = "stranded"
      /\ SEM_BUFFER_SPACE' = SEM_BUFFER_SPACE /\ SEM_BUFFER_CLIENTS' = SEM_BUFFER_CLIENTS
      /\ BUFFER' = BUFFER /\ BUFFER_READ_INDEX' = BUFFER_READ_INDEX
      /\ BUFFER_WRITE_INDEX' = BUFFER_WRITE_INDEX /\ BUFFER_MUTEX' = BUFFER_MUTEX
      /\ manager' = manager /\ client_paths' = client_paths
  BY DEF HostStranded, sems, buffer
<1>2. Waiting' = Waiting /\ Copied' = Copied /\ Posting' = Posting
  BY <1>1, SameCounts
<1>3. Filled' = Filled
  BY <1>1, <1>2 DEF Filled
<1>4. Control' /\ Locked' /\ Arrays'
  BY <1>1 DEF IInv, Control, Locked, Arrays
<1>5. Counted'
  BY <1>1 DEF IInv, Counted
<1>6. Indexed'
  BY <1>1, <1>3 DEF IInv, Indexed
<1> QED BY <1>4, <1>5, <1>6 DEF IInv

LEMMA HostWaitKeeps ==
  ASSUME IInv, HostWait
  PROVE  IInv'
<1>1. /\ main = "created" /\ main' = main /\ host = "wait" /\ host' = "read"
      /\ SEM_BUFFER_SPACE > 0 /\ SEM_BUFFER_SPACE' = SEM_BUFFER_SPACE - 1
      /\ SEM_BUFFER_CLIENTS' = SEM_BUFFER_CLIENTS
      /\ BUFFER' = BUFFER /\ BUFFER_READ_INDEX' = BUFFER_READ_INDEX
      /\ BUFFER_WRITE_INDEX' = BUFFER_WRITE_INDEX /\ BUFFER_MUTEX' = BUFFER_MUTEX
      /\ manager' = manager /\ client_paths' = client_paths
  BY DEF HostWait, buffer
<1>t. Control /\ Locked /\ Arrays /\ Indexed
  BY DEF IInv
<1>2. Waiting' = Waiting /\ Copied' = Copied /\ Posting' = Posting
  BY <1>1, SameCounts
<1>3. Filled' = Filled /\ Accepting = 0 /\ Accepting' = 1
  BY <1>1, <1>2 DEF Filled, Accepting
<1>n. SEM_BUFFER_SPACE \in Nat
  BY <1>t, Numbers
<1>4. SEM_BUFFER_SPACE' \in Nat
  BY <1>1, <1>n
<1>5. Control'
  BY <1>1, <1>4, <1>t DEF Control
<1>6. Locked' /\ Arrays' /\ Indexed'
  BY <1>1, <1>3, <1>t DEF Locked, Arrays, Indexed
<1>7. SEM_BUFFER_SPACE + Accepting + Filled + Cardinality(Posting) = MAX_SESSION_COUNT
  BY <1>1, Sum
<1>8. SEM_BUFFER_SPACE' + Accepting' + Filled' + Cardinality(Posting') = MAX_SESSION_COUNT
  BY <1>1, <1>2, <1>3, <1>7, <1>t, Numbers
<1> QED BY <1>1, <1>5, <1>6, <1>8, RingKept

LEMMA HostReadKeeps ==
  ASSUME IInv, HostRead
  PROVE  IInv'
<1>1. /\ main' = main /\ host = "read" /\ host' = "post"
      /\ SEM_BUFFER_SPACE' = SEM_BUFFER_SPACE /\ SEM_BUFFER_CLIENTS' = SEM_BUFFER_CLIENTS
      /\ BUFFER_READ_INDEX' = BUFFER_READ_INDEX
      /\ BUFFER_WRITE_INDEX' = BUFFER_WRITE_INDEX /\ BUFFER_MUTEX' = BUFFER_MUTEX
      /\ manager' = manager /\ client_paths' = client_paths
  BY DEF HostRead, sems
<1>c. main = "created"
  BY <1>1, CreatedFirst
<1>t. Control /\ Locked /\ Arrays /\ Indexed
  BY DEF IInv
<1>2. Waiting' = Waiting /\ Copied' = Copied /\ Posting' = Posting
  BY <1>1, SameCounts
<1>3. Filled' = Filled /\ Accepting' = Accepting
  BY <1>1, <1>2 DEF Filled, Accepting
<1>5. Control'
  BY <1>1, <1>t DEF Control
<1>6. Locked' /\ Indexed'
  BY <1>1, <1>3, <1>t DEF Locked, Indexed
<1>7. Arrays'
  <2>1. PICK slot : BUFFER' = [BUFFER EXCEPT ![BUFFER_WRITE_INDEX] = slot]
    BY DEF HostRead
  <2>2. BUFFER = [s \in Slots |-> BUFFER[s]]
    BY <1>t DEF Arrays
  <2>3. DOMAIN BUFFER = Slots
    BY <2>2
  <2>4. BUFFER' = [s \in Slots |-> BUFFER'[s]]
    BY <2>1, <2>3
  <2> QED BY <1>1, <1>t, <2>4 DEF Arrays
<1>8. SEM_BUFFER_SPACE' + Accepting' + Filled' + Cardinality(Posting') = MAX_SESSION_COUNT
  BY <1>1, <1>2, <1>3, <1>c, Sum
<1> QED BY <1>1, <1>5, <1>6, <1>7, <1>8, <1>c, RingKept

LEMMA HostPostKeeps ==
  ASSUME IInv, HostPost
  PROVE  IInv'
<1>1. /\ main' = main /\ host = "post" /\ host' = "wait"
      /\ SEM_BUFFER_SPACE' = SEM_BUFFER_SPACE
      /\ SEM_BUFFER_CLIENTS' = SEM_BUFFER_CLIENTS + 1
      /\ BUFFER' = BUFFER /\ BUFFER_READ_INDEX' = BUFFER_READ_INDEX
      /\ BUFFER_WRITE_INDEX' = (BUFFER_WRITE_INDEX + 1) % MAX_SESSION_COUNT
      /\ BUFFER_MUTEX' = BUFFER_MUTEX
      /\ manager' = manager /\ client_paths' = client_paths
  BY DEF HostPost
<1>c. main = "created"
  BY <1>1, CreatedFirst
<1>t. Control /\ Locked /\ Arrays /\ Indexed
  BY DEF IInv
<1>2. Waiting' = Waiting /\ Copied' = Copied /\ Posting' = Posting
  BY <1>1, SameCounts
<1>3. Filled' = Filled + 1 /\ Accepting = 1 /\ Accepting' = 0
  <2>1. Filled = SEM_BUFFER_CLIENTS + Cardinality(Waiting) + Cardinality(Copied)
    BY DEF Filled
  <2>2. Filled' = SEM_BUFFER_CLIENTS + 1 + Cardinality(Waiting) + Cardinality(Copied)
    BY <1>1, <1>2 DEF Filled
  <2>3. Filled' = Filled + 1
    BY <1>t, <2>1, <2>2, Numbers
  <2> QED BY <1>1, <2>3 DEF Accepting
<1>4. SEM_BUFFER_SPACE + Accepting + Filled + Cardinality(Posting) = MAX_SESSION_COUNT
  BY <1>c, Sum
<1>5. SEM_BUFFER_SPACE' + Accepting' + Filled' + Cardinality(Posting') = MAX_SESSION_COUNT
  BY <1>1, <1>2, <1>3, <1>4, <1>t, Numbers
<1>6. /\ BUFFER_WRITE_INDEX' \in Slots
      /\ \/ BUFFER_WRITE_INDEX' = BUFFER_WRITE_INDEX + 1
         \/ BUFFER_WRITE_INDEX' = BUFFER_WRITE_INDEX + 1 - MAX_SESSION_COUNT
  BY <1>1, <1>t, NextSlot DEF Control
<1>7. SEM_BUFFER_CLIENTS' \in Nat
  BY <1>1, <1>t, Numbers
<1>8. Control'
  BY <1>1, <1>6, <1>7, <1>t DEF Control
<1>9. Locked' /\ Arrays'
  BY <1>1, <1>t DEF Locked, Arrays
<1>a. Filled < MAX_SESSION_COUNT
  BY <1>3, <1>4, <1>t, Numbers
<1>b. BUFFER_WRITE_INDEX' \in Nat /\ BUFFER_WRITE_INDEX' < MAX_SESSION_COUNT
  BY <1>6, Sizes DEF Slots
<1>d. Indexed'
  BY <1>1, <1>3, <1>6, <1>a, <1>b, <1>t, Numbers DEF Indexed
<1> QED BY <1>1, <1>5, <1>8, <1>9, <1>c, <1>d, RingKept

LEMMA ManagerWaitKeeps ==
  ASSUME IInv, NEW m \in Manager, ManagerWait(m)
  PROVE  IInv'
<1>1. /\ main = "created" /\ main' = main /\ host' = host
      /\ SEM_BUFFER_SPACE' = SEM_BUFFER_SPACE
      /\ SEM_BUFFER_CLIENTS > 0 /\ SEM_BUFFER_CLIENTS' = SEM_BUFFER_CLIENTS - 1
      /\ BUFFER' = BUFFER /\ BUFFER_READ_INDEX' = BUFFER_READ_INDEX
      /\ BUFFER_WRITE_INDEX' = BUFFER_WRITE_INDEX /\ BUFFER_MUTEX' = BUFFER_MUTEX
      /\ client_paths' = client_paths
      /\ manager[m] = "wait" /\ manager' = [manager EXCEPT ![m] = "lock"]
  BY DEF ManagerWait, At, buffer
<1>t. Control /\ Locked /\ Arrays /\ Indexed
  BY DEF IInv
<1>2. /\ Cardinality(Waiting') = Cardinality(Waiting) + 1 - 0
      /\ Cardinality(Copied') = Cardinality(Copied) + 0 - 0
      /\ Cardinality(Posting') = Cardinality(Posting) + 0 - 0
  BY <1>1, <1>t, ManagerMoves
<1>3. Filled' = Filled /\ Accepting' = Accepting /\ Cardinality(Posting') = Cardinality(Posting)
  <2>1. Filled = SEM_BUFFER_CLIENTS + Cardinality(Waiting) + Cardinality(Copied)
    BY DEF Filled
  <2>2. Filled' = SEM_BUFFER_CLIENTS - 1 + (Cardinality(Waiting) + 1 - 0)
                    + (Cardinality(Copied) + 0 - 0)
    BY <1>1, <1>2 DEF Filled
  <2>3. Filled' = Filled
    BY <1>t, <2>1, <2>2, Numbers
  <2>4. Cardinality(Posting') = Cardinality(Posting)
    BY <1>2, CountTypes
  <2> QED BY <1>1, <2>3, <2>4 DEF Accepting
<1>4. SEM_BUFFER_CLIENTS' \in Nat
  BY <1>1, <1>t, Numbers
<1>5. Control'
  BY <1>1, <1>4, <1>t DEF Control, Before
<1>6. Locked' /\ Arrays' /\ Indexed'
  BY <1>1, <1>3, <1>t DEF Control, Locked, Arrays, Indexed
<1>7. SEM_BUFFER_SPACE' + Accepting' + Filled' + Cardinality(Posting') = MAX_SESSION_COUNT
  BY <1>1, <1>3, Sum
<1> QED BY <1>1, <1>5, <1>6, <1>7, RingKept

LEMMA ManagerLockKeeps ==
  ASSUME IInv, NEW m \in Manager, ManagerLock(m)
  PROVE  IInv'
<1>1. /\ main' = main /\ host' = host
      /\ SEM_BUFFER_SPACE' = SEM_BUFFER_SPACE /\ SEM_BUFFER_CLIENTS' = SEM_BUFFER_CLIENTS
      /\ BUFFER' = BUFFER /\ BUFFER_READ_INDEX' = BUFFER_READ_INDEX
      /\ BUFFER_WRITE_INDEX' = BUFFER_WRITE_INDEX
      /\ BUFFER_MUTEX = Nobody /\ BUFFER_MUTEX' = m
      /\ client_paths' = client_paths
      /\ manager[m] = "lock" /\ manager' = [manager EXCEPT ![m] = "copy"]
  BY DEF ManagerLock, At, buffer, sems
<1>c. main = "created"
  BY <1>1, CreatedFirst
<1>t. Control /\ Locked /\ Arrays /\ Indexed
  BY DEF IInv
<1>2. /\ Cardinality(Waiting') = Cardinality(Waiting) + 1 - 1
      /\ Cardinality(Copied') = Cardinality(Copied) + 0 - 0
      /\ Cardinality(Posting') = Cardinality(Posting) + 0 - 0
  BY <1>1, <1>t, ManagerMoves
<1>3. /\ Cardinality(Waiting') = Cardinality(Waiting)
      /\ Cardinality(Copied') = Cardinality(Copied)
      /\ Cardinality(Posting') = Cardinality(Posting)
  BY <1>2, CountTypes
<1>4. Filled' = Filled /\ Accepting' = Accepting
  BY <1>1, <1>3 DEF Filled, Accepting
<1>5. Control'
  BY <1>1, <1>t DEF Control, Before
<1>6. Locked'
  <2>1. \A n \in Manager : manager[n] \notin {"copy", "unlock"}
    BY <1>1, <1>t, Sizes DEF Locked
  <2> QED BY <1>1, <1>t, <2>1 DEF Control, Locked
<1>7. Arrays' /\ Indexed'
  BY <1>1, <1>4, <1>t DEF Arrays, Indexed
<1>8. SEM_BUFFER_SPACE' + Accepting' + Filled' + Cardinality(Posting') = MAX_SESSION_COUNT
  BY <1>1, <1>3, <1>4, <1>c, Sum
<1> QED BY <1>1, <1>5, <1>6, <1>7, <1>8, <1>c, RingKept

LEMMA ManagerCopyKeeps ==
  ASSUME IInv, NEW m \in Manager, ManagerCopy(m)
  PROVE  IInv'
<1>1. /\ main' = main /\ host' = host
      /\ SEM_BUFFER_SPACE' = SEM_BUFFER_SPACE /\ SEM_BUFFER_CLIENTS' = SEM_BUFFER_CLIENTS
      /\ BUFFER' = BUFFER /\ BUFFER_READ_INDEX' = BUFFER_READ_INDEX
      /\ BUFFER_WRITE_INDEX' = BUFFER_WRITE_INDEX
      /\ BUFFER_MUTEX' = BUFFER_MUTEX
      /\ client_paths' = [client_paths EXCEPT ![m] = BUFFER[BUFFER_READ_INDEX]]
      /\ manager[m] = "copy" /\ manager' = [manager EXCEPT ![m] = "unlock"]
  BY DEF ManagerCopy, At, buffer, sems
<1>c. main = "created"
  BY <1>1, CreatedFirst
<1>t. Control /\ Locked /\ Arrays /\ Indexed
  BY DEF IInv
<1>2. /\ Cardinality(Waiting') = Cardinality(Waiting) + 0 - 1
      /\ Cardinality(Copied') = Cardinality(Copied) + 1 - 0
      /\ Cardinality(Posting') = Cardinality(Posting) + 0 - 0
  BY <1>1, <1>t, ManagerMoves
<1>3. Filled' = Filled /\ Accepting' = Accepting /\ Cardinality(Posting') = Cardinality(Posting)
  <2>1. Filled = SEM_BUFFER_CLIENTS + Cardinality(Waiting) + Cardinality(Copied)
    BY DEF Filled
  <2>2. Filled' = SEM_BUFFER_CLIENTS + (Cardinality(Waiting) + 0 - 1)
                    + (Cardinality(Copied) + 1 - 0)
    BY <1>1, <1>2 DEF Filled
  <2>3. Filled' = Filled
    BY <1>t, <2>1, <2>2, Numbers
  <2>4. Cardinality(Posting') = Cardinality(Posting)
    BY <1>2, CountTypes
  <2> QED BY <1>1, <2>3, <2>4 DEF Accepting
<1>4. Control'
  BY <1>1, <1>t DEF Control, Before
<1>5. Locked' /\ Indexed'
  BY <1>1, <1>3, <1>t DEF Control, Locked, Indexed
<1>6. Arrays'
  <2>1. DOMAIN client_paths = Manager
    BY <1>t DEF Arrays
  <2>2. client_paths' = [n \in Manager |-> client_paths'[n]]
    BY <1>1, <2>1
  <2> QED BY <1>1, <1>t, <2>2 DEF Arrays
<1>7. SEM_BUFFER_SPACE' + Accepting' + Filled' + Cardinality(Posting') = MAX_SESSION_COUNT
  BY <1>1, <1>3, <1>c, Sum
<1> QED BY <1>1, <1>4, <1>5, <1>6, <1>7, <1>c, RingKept

LEMMA ManagerUnlockKeeps ==
  ASSUME IInv, NEW m \in Manager, ManagerUnlock(m)
  PROVE  IInv'
<1>1. /\ main' = main /\ host' = host
      /\ SEM_BUFFER_SPACE' = SEM_BUFFER_SPACE /\ SEM_BUFFER_CLIENTS' = SEM_BUFFER_CLIENTS
      /\ BUFFER' = BUFFER
      /\ BUFFER_READ_INDEX' = (BUFFER_READ_INDEX + 1) % MAX_SESSION_COUNT
      /\ BUFFER_WRITE_INDEX' = BUFFER_WRITE_INDEX
      /\ BUFFER_MUTEX' = Nobody
      /\ client_paths' = client_paths
      /\ manager[m] = "unlock" /\ manager' = [manager EXCEPT ![m] = "post"]
  BY DEF ManagerUnlock, At, sems
<1>c. main = "created"
  BY <1>1, CreatedFirst
<1>t. Control /\ Locked /\ Arrays /\ Indexed
  BY DEF IInv
<1>2. /\ Cardinality(Waiting') = Cardinality(Waiting) + 0 - 0
      /\ Cardinality(Copied') = Cardinality(Copied) + 0 - 1
      /\ Cardinality(Posting') = Cardinality(Posting) + 1 - 0
      /\ Cardinality(Copied) > 0
  BY <1>1, <1>t, ManagerMoves
<1>3. /\ Filled' = Filled - 1 /\ Accepting' = Accepting
      /\ Cardinality(Posting') = Cardinality(Posting) + 1 /\ Filled > 0
  <2>1. Filled = SEM_BUFFER_CLIENTS + Cardinality(Waiting) + Cardinality(Copied)
    BY DEF Filled
  <2>2. Filled' = SEM_BUFFER_CLIENTS + (Cardinality(Waiting) + 0 - 0)
                    + (Cardinality(Copied) + 0 - 1)
    BY <1>1, <1>2 DEF Filled
  <2>3. Filled' = Filled - 1 /\ Filled > 0
    BY <1>2, <1>t, <2>1, <2>2, Numbers
  <2>4. Cardinality(Posting') = Cardinality(Posting) + 1
    BY <1>2, CountTypes
  <2> QED BY <1>1, <2>3, <2>4 DEF Accepting
<1>4. SEM_BUFFER_SPACE + Accepting + Filled + Cardinality(Posting) = MAX_SESSION_COUNT
  BY <1>c, Sum
<1>5. SEM_BUFFER_SPACE' + Accepting' + Filled' + Cardinality(Posting') = MAX_SESSION_COUNT
  BY <1>1, <1>3, <1>4, <1>t, Numbers
<1>6. /\ BUFFER_READ_INDEX' \in Slots
      /\ \/ BUFFER_READ_INDEX' = BUFFER_READ_INDEX + 1
         \/ BUFFER_READ_INDEX' = BUFFER_READ_INDEX + 1 - MAX_SESSION_COUNT
  BY <1>1, <1>t, NextSlot DEF Control
<1>7. Control'
  BY <1>1, <1>6, <1>t DEF Control
<1>8. Locked' /\ Arrays'
  <2>1. \A n \in Manager : n # m => manager[n] \notin {"copy", "unlock"}
    BY <1>1, <1>t DEF Locked
  <2> QED BY <1>1, <1>t, <2>1 DEF Control, Locked, Arrays
<1>a. Filled \in Nat /\ Filled > 0 /\ Filled =< MAX_SESSION_COUNT
  BY <1>3, <1>4, <1>t, Numbers
<1>b. BUFFER_READ_INDEX' \in Nat /\ BUFFER_READ_INDEX' < MAX_SESSION_COUNT
  BY <1>6, Sizes DEF Slots
<1>d. Indexed'
  BY <1>1, <1>3, <1>6, <1>a, <1>b, <1>t, Numbers DEF Indexed
<1> QED BY <1>1, <1>5, <1>7, <1>8, <1>c, <1>d, RingKept

LEMMA ManagerPostKeeps ==
  ASSUME IInv, NEW m \in Manager, ManagerPost(m)
  PROVE  IInv'
<1>1. /\ main' = main /\ host' = host
      /\ SEM_BUFFER_SPACE' = SEM_BUFFER_SPACE + 1
      /\ SEM_BUFFER_CLIENTS' = SEM_BUFFER_CLIENTS
      /\ BUFFER' = BUFFER /\ BUFFER_READ_INDEX' = BUFFER_READ_INDEX
      /\ BUFFER_WRITE_INDEX' = BUFFER_WRITE_INDEX /\ BUFFER_MUTEX' = BUFFER_MUTEX
      /\ client_paths' = client_paths
      /\ manager[m] = "post" /\ manager' = [manager EXCEPT ![m] = Parsed(m)]
  BY DEF ManagerPost, At, buffer
<1>r. Parsed(m) \in {"resp", "garbled"}
  BY DEF Parsed
<1>c. main = "created"
  BY <1>1, CreatedFirst
<1>t. Control /\ Locked /\ Arrays /\ Indexed
  BY DEF IInv
<1>2. /\ Cardinality(Waiting') = Cardinality(Waiting) + 0 - 0
      /\ Cardinality(Copied') = Cardinality(Copied) + 0 - 0
      /\ Cardinality(Posting') = Cardinality(Posting) + 0 - 1
  <2>1. /\ Cardinality(Waiting') = Cardinality(Waiting)
             + (IF Parsed(m) \in {"lock", "copy"} THEN 1 ELSE 0)
             - (IF manager[m] \in {"lock", "copy"} THEN 1 ELSE 0)
        /\ Cardinality(Copied') = Cardinality(Copied)
             + (IF Parsed(m) = "unlock" THEN 1 ELSE 0)
             - (IF manager[m] = "unlock" THEN 1 ELSE 0)
        /\ Cardinality(Posting') = Cardinality(Posting)
             + (IF Parsed(m) = "post" THEN 1 ELSE 0)
             - (IF manager[m] = "post" THEN 1 ELSE 0)
    BY <1>1, <1>t, ManagerMoves
  <2> QED BY <1>1, <1>r, <2>1
<1>3. /\ Cardinality(Waiting') = Cardinality(Waiting)
      /\ Cardinality(Copied') = Cardinality(Copied)
      /\ Cardinality(Posting') = Cardinality(Posting) - 1
  BY <1>2, CountTypes
<1>4. Filled' = Filled /\ Accepting' = Accepting
  BY <1>1, <1>3 DEF Filled, Accepting
<1>5. SEM_BUFFER_SPACE' \in Nat
  BY <1>1, <1>t, Numbers
<1>6. Control'
  BY <1>1, <1>r, <1>5, <1>t DEF Control, Before, Phases
<1>7. Locked' /\ Arrays' /\ Indexed'
  BY <1>1, <1>r, <1>4, <1>t DEF Control, Locked, Arrays, Indexed
<1>8. SEM_BUFFER_SPACE + Accepting + Filled + Cardinality(Posting) = MAX_SESSION_COUNT
  BY <1>c, Sum
<1>9. SEM_BUFFER_SPACE' + Accepting' + Filled' + Cardinality(Posting') = MAX_SESSION_COUNT
  BY <1>1, <1>3, <1>4, <1>8, <1>t, Numbers
<1> QED BY <1>1, <1>6, <1>7, <1>9, <1>c, RingKept

-----------------------------------------------------------------------------
(* The invariant of the specification. *)

LEMMA Begun ==
  ASSUME Init
  PROVE  IInv
<1>1. /\ main = "init" /\ host = "wait" /\ SEM_BUFFER_SPACE = 0 /\ SEM_BUFFER_CLIENTS = 0
      /\ BUFFER_READ_INDEX = 0 /\ BUFFER_WRITE_INDEX = 0 /\ BUFFER_MUTEX = Nobody
      /\ manager = [m \in Manager |-> "wait"]
  BY DEF Init
<1>2. Waiting = {} /\ Copied = {}
  BY <1>1 DEF Waiting, Copied
<1>3. Filled = 0
  BY <1>1, <1>2, FS_EmptySet DEF Filled
<1>4. Control
  BY <1>1, Sizes DEF Control, Slots, Before
<1>5. Counted
  BY <1>1 DEF Counted
<1>6. Indexed /\ Locked
  BY <1>1, <1>3 DEF Indexed, Locked
<1>7. Arrays
  BY DEF Init, Arrays
<1> QED BY <1>4, <1>5, <1>6, <1>7 DEF IInv

LEMMA Kept ==
  ASSUME IInv, [Next]_vars
  PROVE  IInv'
<1>1. CASE MainInit
  BY <1>1, MainInitKeeps
<1>2. CASE HostStep
  BY <1>2, StrandedKeeps, HostWaitKeeps, HostReadKeeps, HostPostKeeps DEF HostStep
<1>3. CASE \E m \in Manager : ManagerStep(m)
  <2> PICK m \in Manager : ManagerStep(m)
    BY <1>3
  <2>1. CASE ManagerWait(m) \/ ManagerLock(m) \/ ManagerCopy(m) \/ ManagerUnlock(m)
               \/ ManagerPost(m)
    BY <2>1, ManagerWaitKeeps, ManagerLockKeeps, ManagerCopyKeeps, ManagerUnlockKeeps,
       ManagerPostKeeps
  <2>2. CASE OpenResp(m) \/ OpenReq(m) \/ OpenNotif(m) \/ Answer(m) \/ EndSession(m)
               \/ GarbledOpens(m)
    <3>1. \E here \in Phases \cup {"garbled"}, there \in Phases \cup {"stuck", "wait"} :
             At(m, here, there)
               /\ UNCHANGED <<main, host, sems, buffer, BUFFER_MUTEX, client_paths>>
      BY <2>2 DEF OpenResp, OpenReq, OpenNotif, Answer, EndSession, BothOpen, GarbledOpens,
         Phases
    <3> QED BY <3>1, OpenKeeps
  <2>3. CASE OpenNotifFails(m) \/ NameOverflows(m) \/ GarbledFails(m) \/ AnswerFails(m)
    BY <2>3, RingSame DEF OpenNotifFails, NameOverflows, GarbledFails, AnswerFails, ServerExits
  <2> QED BY <2>1, <2>2, <2>3 DEF ManagerStep
<1>4. CASE \E c \in Client : Connect(c) \/ ClientStep(c) \/ Crash(c)
  <2>1. UNCHANGED <<main, host, sems, buffer, BUFFER_MUTEX, manager, client_paths>>
    BY <1>4 DEF Connect, ClientStep, Disconnect, SeesServerDead, Crash
  <2> QED BY <2>1, RingSame
<1>5. CASE UNCHANGED vars
  <2>1. UNCHANGED <<main, host, sems, buffer, BUFFER_MUTEX, manager, client_paths>>
    BY <1>5 DEF vars
  <2> QED BY <2>1, RingSame
<1> QED BY <1>1, <1>2, <1>3, <1>4, <1>5 DEF Next

LEMMA Invariance ==
  Spec => []IInv
<1>1. Init => IInv
  BY Begun
<1>2. IInv /\ [Next]_vars => IInv'
  BY Kept
<1> QED BY <1>1, <1>2, PTL DEF Spec

\* host_FIFO writes its slot without the mutex (main.c:273-284), and never the
\* slot that a manager copies: whatever the numbers of clients and of slots.
THEOREM HostKeepsApart ==
  Spec => []SlotNotShared
<1>1. IInv => SlotNotShared
  BY HostApart
<1> QED BY <1>1, Invariance, PTL

-----------------------------------------------------------------------------
(* The ring is a bounded queue. *)

Posted == IF host = "post" THEN 1 ELSE 0

\* The slot of the n-th entry of the queue.
Place(n) ==
  (BUFFER_READ_INDEX + Cardinality(Copied) + n - 1) % MAX_SESSION_COUNT

LEMMA Fits ==
  ASSUME IInv
  PROVE  /\ Full \in Nat /\ Full = Filled - Cardinality(Copied) + Posted
         /\ Cardinality(Copied) + Full =< MAX_SESSION_COUNT
         /\ host # "post" => Full = Filled - Cardinality(Copied)
         /\ host = "read" => Filled < MAX_SESSION_COUNT
<1>1. Control
  BY DEF IInv
<1>2. Posted \in {0, 1} /\ (host # "post" => Posted = 0)
  BY DEF Posted
<1>3. /\ Filled = SEM_BUFFER_CLIENTS + Cardinality(Waiting) + Cardinality(Copied)
      /\ Full = SEM_BUFFER_CLIENTS + Cardinality(Waiting) + Posted
  BY DEF Filled, Full, Posted
<1>4. Full \in Nat /\ Full = Filled - Cardinality(Copied) + Posted
  BY <1>1, <1>2, <1>3, Numbers
<1>5. CASE main = "created"
  <2>1. SEM_BUFFER_SPACE + Accepting + Filled + Cardinality(Posting) = MAX_SESSION_COUNT
    BY <1>5, Sum
  <2>2. Posted =< Accepting /\ (host = "read" => Accepting = 1)
    BY DEF Posted, Accepting
  <2> QED BY <1>1, <1>2, <1>4, <2>1, <2>2, Numbers
<1>6. CASE main = "init"
  <2>1. SEM_BUFFER_CLIENTS = 0 /\ host \in {"wait", "stranded"}
        /\ \A m \in Manager : manager[m] = "wait"
    BY <1>6 DEF IInv, Counted
  <2>2. Waiting = {} /\ Copied = {}
    BY <2>1 DEF Waiting, Copied
  <2>3. Cardinality(Waiting) = 0 /\ Cardinality(Copied) = 0
    BY <2>2, FS_EmptySet
  <2> QED BY <1>1, <1>2, <1>3, <1>4, <2>1, <2>3, Numbers
<1> QED BY <1>1, <1>5, <1>6 DEF Control

LEMMA Placed ==
  ASSUME IInv, NEW n \in Nat \ {0},
         Cardinality(Copied) + n =< MAX_SESSION_COUNT
  PROVE  /\ Place(n) \in Slots
         /\ \/ Place(n) = BUFFER_READ_INDEX + Cardinality(Copied) + n - 1
            \/ Place(n) = BUFFER_READ_INDEX + Cardinality(Copied) + n - 1 - MAX_SESSION_COUNT
<1>0. PICK i : i = BUFFER_READ_INDEX + Cardinality(Copied) + n - 1
  OBVIOUS
<1>1. Control
  BY DEF IInv
<1>2. i \in 0 .. 2 * MAX_SESSION_COUNT - 1
  BY <1>0, <1>1, Numbers
<1>3. Place(n) = i % MAX_SESSION_COUNT
  BY <1>0 DEF Place
<1>4. i < MAX_SESSION_COUNT => Place(n) \in Slots /\ Place(n) = i
  <2> HAVE i < MAX_SESSION_COUNT
  <2>1. i \in 0 .. MAX_SESSION_COUNT - 1
    BY <1>1, <1>2, Numbers
  <2>2. Place(n) = i
    BY <1>1, <1>3, <2>1, ModBelow, Numbers
  <2>3. Place(n) \in Slots
    BY <2>1, <2>2 DEF Slots
  <2> QED BY <2>2, <2>3
<1>5. ~ (i < MAX_SESSION_COUNT) => Place(n) \in Slots /\ Place(n) = i - MAX_SESSION_COUNT
  <2> HAVE ~ (i < MAX_SESSION_COUNT)
  <2>1. i \in MAX_SESSION_COUNT .. 2 * MAX_SESSION_COUNT - 1
    BY <1>1, <1>2, Numbers
  <2>2. Place(n) = i - MAX_SESSION_COUNT
    BY <1>1, <1>3, <2>1, ModAbove, Numbers
  <2>3. i - MAX_SESSION_COUNT \in 0 .. MAX_SESSION_COUNT - 1
    BY <1>1, <2>1, Numbers
  <2>4. Place(n) \in Slots
    BY <2>2, <2>3 DEF Slots
  <2> QED BY <2>2, <2>4
<1>6. Place(n) \in Slots /\ (Place(n) = i \/ Place(n) = i - MAX_SESSION_COUNT)
  BY <1>4, <1>5
<1>7. Place(n) \in Nat
  BY <1>6, Sizes DEF Slots
<1> QED BY <1>0, <1>1, <1>6, <1>7, Numbers

LEMMA QueueIs ==
  ASSUME IInv
  PROVE  /\ Queue = [n \in 1 .. Full |-> BUFFER[Place(n)].msgs]
         /\ \A n \in 1 .. Full : Queue[n] = BUFFER[Place(n)].msgs
BY DEF Queue, Place

LEMMA QueueSeq ==
  ASSUME IInv, NEW S, \A s \in Slots : BUFFER[s].msgs \in S
  PROVE  Queue \in Seq(S) /\ Len(Queue) = Full
<1>1. Full \in Nat /\ Cardinality(Copied) + Full =< MAX_SESSION_COUNT
  BY Fits
<1>2. \A n \in 1 .. Full : Place(n) \in Slots
  <2> SUFFICES ASSUME NEW n \in 1 .. Full PROVE Place(n) \in Slots
    OBVIOUS
  <2>1. n \in Nat \ {0} /\ Cardinality(Copied) + n =< MAX_SESSION_COUNT
    BY <1>1, CountTypes, Sizes
  <2> QED BY <2>1, Placed
<1>3. \A n \in 1 .. Full : BUFFER[Place(n)].msgs \in S
  BY <1>2
<1>4. Queue \in [1 .. Full -> S]
  BY <1>3, QueueIs
<1> QED BY <1>1, <1>4

LEMMA SeqOf ==
  ASSUME NEW S, NEW k \in Nat, NEW q,
         q = [n \in 1 .. k |-> q[n]], \A n \in 1 .. k : q[n] \in S
  PROVE  q \in Seq(S) /\ Len(q) = k
<1>1. q \in [1 .. k -> S]
  OBVIOUS
<1> QED BY <1>1

LEMMA AppendIs ==
  ASSUME NEW S, NEW s \in Seq(S), NEW e \in S, NEW t \in Seq(S),
         Len(t) = Len(s) + 1, \A n \in 1 .. Len(s) : t[n] = s[n], t[Len(s) + 1] = e
  PROVE  t = Append(s, e)
<1>1. /\ Append(s, e) \in Seq(S) /\ Len(Append(s, e)) = Len(s) + 1
      /\ \A n \in 1 .. Len(s) : Append(s, e)[n] = s[n]
      /\ Append(s, e)[Len(s) + 1] = e
  BY AppendProperties
<1>2. Len(s) \in Nat
  BY LenProperties
<1>3. \A n \in 1 .. Len(t) : t[n] = Append(s, e)[n]
  BY <1>1, <1>2
<1> QED BY <1>1, <1>3, SeqEqual

LEMMA TailIs ==
  ASSUME NEW S, NEW s \in Seq(S), s # << >>, NEW t \in Seq(S),
         Len(t) = Len(s) - 1, \A n \in 1 .. Len(t) : t[n] = s[n + 1]
  PROVE  t = Tail(s)
<1>1. /\ Tail(s) \in Seq(S) /\ Len(Tail(s)) = Len(s) - 1
      /\ \A n \in 1 .. Len(Tail(s)) : Tail(s)[n] = s[n + 1]
  BY HeadTailProperties
<1> QED BY <1>1, SeqEqual

\* A step after which the ring holds the same entries from the same slot on.
LEMMA QueueSame ==
  ASSUME BUFFER' = BUFFER, BUFFER_READ_INDEX' = BUFFER_READ_INDEX, Full' = Full,
         Cardinality(Copied') = Cardinality(Copied)
  PROVE  Queue' = Queue
BY DEF Queue

LEMMA Stutters ==
  ASSUME fifo' = fifo, client_paths' = client_paths, Queue' = Queue
  PROVE  UNCHANGED Ring!vars
BY DEF Ring!vars

\* A step of somebody who is not at the ring.
LEMMA QueueStays ==
  ASSUME UNCHANGED <<host, sems, buffer, manager>>
  PROVE  Queue' = Queue
<1>1. /\ BUFFER' = BUFFER /\ BUFFER_READ_INDEX' = BUFFER_READ_INDEX
      /\ SEM_BUFFER_CLIENTS' = SEM_BUFFER_CLIENTS /\ host' = host /\ manager' = manager
  BY DEF sems, buffer
<1>2. Waiting' = Waiting /\ Copied' = Copied
  BY <1>1, SameCounts
<1>3. Full' = Full
  BY <1>1, <1>2 DEF Full
<1> QED BY <1>1, <1>2, <1>3, QueueSame

LEMMA AwayStutters ==
  ASSUME UNCHANGED <<fifo, host, sems, buffer, manager, client_paths>>
  PROVE  UNCHANGED Ring!vars
<1>1. /\ fifo' = fifo /\ client_paths' = client_paths
      /\ BUFFER' = BUFFER /\ BUFFER_READ_INDEX' = BUFFER_READ_INDEX
      /\ SEM_BUFFER_CLIENTS' = SEM_BUFFER_CLIENTS /\ host' = host /\ manager' = manager
  BY DEF sems, buffer
<1>2. Waiting' = Waiting /\ Copied' = Copied
  BY <1>1, SameCounts
<1>3. Full' = Full
  BY <1>1, <1>2 DEF Full
<1> QED BY <1>1, <1>2, <1>3, QueueSame, Stutters

LEMMA HostWaitStutters ==
  ASSUME IInv, MainInit \/ HostStranded \/ HostWait \/ HostPost
  PROVE  UNCHANGED Ring!vars
<1>1. /\ fifo' = fifo /\ client_paths' = client_paths
      /\ BUFFER' = BUFFER /\ BUFFER_READ_INDEX' = BUFFER_READ_INDEX
      /\ manager' = manager
  BY DEF MainInit, HostStranded, HostWait, HostPost, buffer
<1>2. Waiting' = Waiting /\ Copied' = Copied
  BY <1>1, SameCounts
<1>3. Control
  BY DEF IInv
<1>4. CASE MainInit
  <2>1. host' = host /\ SEM_BUFFER_CLIENTS' = SEM_BUFFER_CLIENTS
    BY <1>4 DEF MainInit, IInv, Counted
  <2>2. Full' = Full
    BY <1>2, <2>1 DEF Full
  <2> QED BY <1>1, <1>2, <2>2, QueueSame, Stutters
<1>5. CASE HostStranded \/ HostWait
  <2>1. /\ host # "post" /\ host' # "post" /\ SEM_BUFFER_CLIENTS' = SEM_BUFFER_CLIENTS
    BY <1>5 DEF HostStranded, HostWait, sems
  <2>2. Full' = Full
    BY <1>2, <2>1 DEF Full
  <2> QED BY <1>1, <1>2, <2>2, QueueSame, Stutters
<1>6. CASE HostPost
  <2>1. /\ host = "post" /\ host' = "wait"
        /\ SEM_BUFFER_CLIENTS' = SEM_BUFFER_CLIENTS + 1
    BY <1>6 DEF HostPost
  <2>2. /\ Full = SEM_BUFFER_CLIENTS + Cardinality(Waiting) + 1
        /\ Full' = SEM_BUFFER_CLIENTS + 1 + Cardinality(Waiting) + 0
    BY <1>2, <2>1 DEF Full
  <2>3. Full' = Full
    BY <1>3, <2>2, Numbers
  <2> QED BY <1>1, <1>2, <2>3, QueueSame, Stutters
<1> QED BY <1>4, <1>5, <1>6

\* A manager that waits, gets the mutex, or gives a slot back.
LEMMA ManagerStutters ==
  ASSUME IInv, NEW m \in Manager,
         ManagerWait(m) \/ ManagerLock(m) \/ ManagerPost(m)
  PROVE  UNCHANGED Ring!vars
<1>1. /\ fifo' = fifo /\ client_paths' = client_paths /\ host' = host
      /\ BUFFER' = BUFFER /\ BUFFER_READ_INDEX' = BUFFER_READ_INDEX
  BY DEF ManagerWait, ManagerLock, ManagerPost, buffer
<1>2. Control
  BY DEF IInv
<1>3. CASE ManagerWait(m)
  <2>1. /\ manager[m] = "wait" /\ manager' = [manager EXCEPT ![m] = "lock"]
        /\ SEM_BUFFER_CLIENTS' = SEM_BUFFER_CLIENTS - 1
    BY <1>3 DEF ManagerWait, At
  <2>2. /\ Cardinality(Waiting') = Cardinality(Waiting) + 1 - 0
        /\ Cardinality(Copied') = Cardinality(Copied) + 0 - 0
    BY <1>2, <2>1, ManagerMoves
  <2>3. /\ Full = SEM_BUFFER_CLIENTS + Cardinality(Waiting) + Posted
        /\ Full' = SEM_BUFFER_CLIENTS - 1 + (Cardinality(Waiting) + 1 - 0) + Posted
    BY <1>1, <2>1, <2>2 DEF Full, Posted
  <2>4. Posted \in Nat
    BY DEF Posted
  <2>5. Full' = Full /\ Cardinality(Copied') = Cardinality(Copied)
    BY <1>2, <2>2, <2>3, <2>4, Numbers
  <2> QED BY <1>1, <2>5, QueueSame, Stutters
<1>4. CASE ManagerLock(m)
  <2>1. /\ manager[m] = "lock" /\ manager' = [manager EXCEPT ![m] = "copy"]
        /\ SEM_BUFFER_CLIENTS' = SEM_BUFFER_CLIENTS
    BY <1>4 DEF ManagerLock, At, sems
  <2>2. /\ Cardinality(Waiting') = Cardinality(Waiting) + 1 - 1
        /\ Cardinality(Copied') = Cardinality(Copied) + 0 - 0
    BY <1>2, <2>1, ManagerMoves
  <2>3. /\ Cardinality(Waiting') = Cardinality(Waiting)
        /\ Cardinality(Copied') = Cardinality(Copied)
    BY <2>2, CountTypes
  <2>4. Full' = Full
    BY <1>1, <2>1, <2>3 DEF Full
  <2> QED BY <1>1, <2>3, <2>4, QueueSame, Stutters
<1>5. CASE ManagerPost(m)
  <2>1. /\ manager[m] = "post" /\ manager' = [manager EXCEPT ![m] = Parsed(m)]
        /\ SEM_BUFFER_CLIENTS' = SEM_BUFFER_CLIENTS
        /\ Parsed(m) \in {"resp", "garbled"}
    BY <1>5 DEF ManagerPost, At, Parsed
  <2>2. /\ m \notin Waiting /\ m \notin Copied
        /\ Waiting' = Waiting /\ Copied' = Copied
    BY <1>2, <2>1 DEF Control, Waiting, Copied
  <2>3. Full' = Full
    BY <1>1, <2>1, <2>2 DEF Full
  <2> QED BY <1>1, <2>2, <2>3, QueueSame, Stutters
<1> QED BY <1>3, <1>4, <1>5

LEMMA OpenStutters ==
  ASSUME IInv, NEW m \in Manager, NEW here, NEW there, At(m, here, there),
         here \in Phases \cup {"garbled"}, there \in Phases \cup {"stuck", "wait"},
         UNCHANGED <<fifo, host, sems, buffer, client_paths>>
  PROVE  UNCHANGED Ring!vars
<1>1. /\ fifo' = fifo /\ client_paths' = client_paths /\ host' = host
      /\ BUFFER' = BUFFER /\ BUFFER_READ_INDEX' = BUFFER_READ_INDEX
      /\ SEM_BUFFER_CLIENTS' = SEM_BUFFER_CLIENTS
      /\ manager[m] = here /\ manager' = [manager EXCEPT ![m] = there]
  BY DEF buffer, sems, At
<1>2. Control
  BY DEF IInv
<1>3. Waiting' = Waiting /\ Copied' = Copied
  BY <1>1, <1>2 DEF Control, Waiting, Copied, Phases
<1>4. Full' = Full
  BY <1>1, <1>3 DEF Full
<1> QED BY <1>1, <1>3, <1>4, QueueSame, Stutters

\* Whether the index is moved first or the place counted from where it was.
LEMMA ModStep ==
  ASSUME NEW N \in Nat \ {0}, NEW r \in 0 .. N - 1, NEW n \in 1 .. N
  PROVE  (((r + 1) % N) + 0 + n - 1) % N = (r + 1 + n - 1) % N
<1>1. CASE r + 1 < N
  <2>1. r + 1 \in 0 .. N - 1
    BY <1>1
  <2>2. (r + 1) % N = r + 1
    BY <2>1, ModBelow
  <2>3. r + 1 + 0 + n - 1 = r + 1 + n - 1
    OBVIOUS
  <2> QED BY <2>2, <2>3
<1>2. CASE ~ (r + 1 < N)
  <2>1. r + 1 = N /\ r + 1 \in N .. 2 * N - 1
    BY <1>2
  <2>2. (r + 1) % N = 0
    BY <2>1, ModAbove
  <2>3. n - 1 \in 0 .. N - 1 /\ N + n - 1 \in N .. 2 * N - 1
    OBVIOUS
  <2>a. (n - 1) % N = n - 1
    BY <2>3, ModBelow
  <2>b. PICK k : k = N + n - 1
    OBVIOUS
  <2>c. k \in N .. 2 * N - 1
    BY <2>3, <2>b
  <2>d. k % N = k - N
    BY <2>c, ModAbove
  <2>4. (n - 1) % N = n - 1 /\ (N + n - 1) % N = N + n - 1 - N
    BY <2>a, <2>b, <2>d
  <2>5. 0 + 0 + n - 1 = n - 1 /\ N + n - 1 - N = n - 1
    OBVIOUS
  <2> QED BY <2>1, <2>2, <2>4, <2>5
<1> QED BY <1>1, <1>2

LEMMA UnlockStutters ==
  ASSUME IInv, NEW m \in Manager, ManagerUnlock(m)
  PROVE  UNCHANGED Ring!vars
<1>1. /\ fifo' = fifo /\ client_paths' = client_paths /\ host' = host
      /\ BUFFER' = BUFFER /\ SEM_BUFFER_CLIENTS' = SEM_BUFFER_CLIENTS
      /\ BUFFER_READ_INDEX' = (BUFFER_READ_INDEX + 1) % MAX_SESSION_COUNT
      /\ manager[m] = "unlock" /\ manager' = [manager EXCEPT ![m] = "post"]
  BY DEF ManagerUnlock, At, sems
<1>2. Control /\ Locked
  BY DEF IInv
<1>3. Copied = {m} /\ Copied' = {} /\ Waiting' = Waiting
  BY <1>1, <1>2 DEF Control, Locked, Copied, Waiting
<1>4. Cardinality(Copied) = 1 /\ Cardinality(Copied') = 0
  BY <1>3, FS_Singleton, FS_EmptySet
<1>5. Full' = Full
  BY <1>1, <1>3 DEF Full
<1>6. Full \in Nat /\ Full =< MAX_SESSION_COUNT
  BY <1>4, Fits, Sizes
<1>7. \A n \in 1 .. Full :
        (((BUFFER_READ_INDEX + 1) % MAX_SESSION_COUNT) + 0 + n - 1) % MAX_SESSION_COUNT
          = (BUFFER_READ_INDEX + 1 + n - 1) % MAX_SESSION_COUNT
  <2> SUFFICES ASSUME NEW n \in 1 .. Full
               PROVE  (((BUFFER_READ_INDEX + 1) % MAX_SESSION_COUNT) + 0 + n - 1)
                          % MAX_SESSION_COUNT
                        = (BUFFER_READ_INDEX + 1 + n - 1) % MAX_SESSION_COUNT
    OBVIOUS
  <2>1. /\ MAX_SESSION_COUNT \in Nat \ {0} /\ n \in 1 .. MAX_SESSION_COUNT
        /\ BUFFER_READ_INDEX \in 0 .. MAX_SESSION_COUNT - 1
    BY <1>2, <1>6, Sizes DEF Control, Slots
  <2> QED BY <2>1, ModStep
<1>8. Queue' = Queue
  BY <1>1, <1>4, <1>5, <1>7 DEF Queue
<1> QED BY <1>1, <1>8, Stutters

\* The host accepts what is on the FIFO into the slot behind the last entry.
LEMMA ReadQueues ==
  ASSUME IInv, HostRead
  PROVE  /\ Len(Queue) < MAX_SESSION_COUNT
         /\ Queue' = Append(Queue, SubSeq(fifo, 1, bytes_read))
<1> DEFINE got == SubSeq(fifo, 1, bytes_read)
<1>0. PICK used : BUFFER' = [BUFFER EXCEPT ![BUFFER_WRITE_INDEX] =
                               [msgs |-> got, used |-> used]]
  BY DEF HostRead
<1> HIDE DEF got
<1>1. /\ client_paths' = client_paths
      /\ host = "read" /\ host' = "post"
      /\ SEM_BUFFER_CLIENTS' = SEM_BUFFER_CLIENTS
      /\ BUFFER_READ_INDEX' = BUFFER_READ_INDEX /\ manager' = manager
  BY DEF HostRead, sems
<1>3. Control /\ Arrays /\ Indexed
  BY DEF IInv
<1>4. Waiting' = Waiting /\ Copied' = Copied
  BY <1>1, SameCounts
<1>5. /\ Full \in Nat /\ Full = Filled - Cardinality(Copied)
      /\ Filled < MAX_SESSION_COUNT
  BY <1>1, Fits
<1>6. Full' = Full + 1 /\ Full < MAX_SESSION_COUNT
  <2>1. /\ Full = SEM_BUFFER_CLIENTS + Cardinality(Waiting) + 0
        /\ Full' = SEM_BUFFER_CLIENTS + Cardinality(Waiting) + 1
    BY <1>1, <1>4 DEF Full
  <2> QED BY <1>3, <1>5, <2>1, Numbers
<1>7. PICK S : got \in S /\ \A s \in Slots : BUFFER[s].msgs \in S
  <2> DEFINE S == {got} \cup {BUFFER[s].msgs : s \in Slots}
  <2>1. got \in S /\ \A s \in Slots : BUFFER[s].msgs \in S
    OBVIOUS
  <2> QED BY <2>1
<1>8. Queue \in Seq(S) /\ Len(Queue) = Full
  BY <1>7, QueueSeq
<1>9. \A n \in 1 .. Full + 1 :
        /\ Place(n) \in Slots
        /\ Place(n) = BUFFER_WRITE_INDEX <=> n = Full + 1
  <2> SUFFICES ASSUME NEW n \in 1 .. Full + 1
               PROVE  /\ Place(n) \in Slots
                      /\ Place(n) = BUFFER_WRITE_INDEX <=> n = Full + 1
    OBVIOUS
  <2>1. n \in Nat \ {0} /\ n =< Full + 1
        /\ Cardinality(Copied) + n =< MAX_SESSION_COUNT
    BY <1>3, <1>5, Numbers
  <2>2. /\ Place(n) \in Slots
        /\ \/ Place(n) = BUFFER_READ_INDEX + Cardinality(Copied) + n - 1
           \/ Place(n) = BUFFER_READ_INDEX + Cardinality(Copied) + n - 1 - MAX_SESSION_COUNT
    BY <2>1, Placed
  <2>3. \/ BUFFER_WRITE_INDEX = BUFFER_READ_INDEX + Filled
        \/ BUFFER_WRITE_INDEX = BUFFER_READ_INDEX + Filled - MAX_SESSION_COUNT
    BY <1>3 DEF Indexed
  <2>4. Place(n) \in Nat /\ Place(n) < MAX_SESSION_COUNT
    BY <2>2, Sizes DEF Slots
  <2>5. Place(n) = BUFFER_WRITE_INDEX <=> n = Full + 1
    BY <1>3, <1>5, <2>1, <2>2, <2>3, <2>4, Numbers
  <2> QED BY <2>2, <2>5
<1>a. Queue' = [n \in 1 .. Full + 1 |-> BUFFER'[Place(n)].msgs]
  BY <1>1, <1>4, <1>6 DEF Queue, Place
<1>b. \A n \in 1 .. Full + 1 :
        Queue'[n] = IF n = Full + 1 THEN got ELSE BUFFER[Place(n)].msgs
  <2>1. DOMAIN BUFFER = Slots
    BY <1>3 DEF Arrays
  <2> QED BY <1>0, <1>9, <1>a, <2>1
<1>c. Queue' \in Seq(S) /\ Len(Queue') = Full + 1
  <2>1. Queue' = [n \in 1 .. Full + 1 |-> Queue'[n]]
    BY <1>a
  <2>2. \A n \in 1 .. Full + 1 : Queue'[n] \in S
    BY <1>7, <1>9, <1>b
  <2>3. Full + 1 \in Nat
    BY <1>5
  <2> QED BY <2>1, <2>2, <2>3, SeqOf
<1>d. \A n \in 1 .. Full : Queue'[n] = Queue[n]
  <2>1. \A n \in 1 .. Full : n \in 1 .. Full + 1 /\ n # Full + 1
    BY <1>5
  <2>2. \A n \in 1 .. Full : Queue[n] = BUFFER[Place(n)].msgs
    BY QueueIs
  <2> QED BY <1>b, <2>1, <2>2
<1>e. Queue'[Full + 1] = got
  BY <1>5, <1>b
<1>f. Queue' = Append(Queue, got)
  BY <1>7, <1>8, <1>c, <1>d, <1>e, AppendIs
<1> QED BY <1>6, <1>8, <1>f DEF got

\* read() returns the first of the characters, and leaves the others.
LEMMA ReadSome ==
  ASSUME TypeOK, HostRead
  PROVE  /\ bytes_read \in 1 .. Len(fifo) /\ Len(fifo) \in Nat \ {0}
         /\ fifo' = SubSeq(fifo, bytes_read + 1, Len(fifo))
<1>1. fifo \in Seq(Character) /\ fifo # << >> /\ Len(fifo) \in Nat
  BY DEF TypeOK, HostRead
<1>2. Len(fifo) # 0
  BY <1>1, EmptySeq
<1>3. READ_SIZE \in Nat \ {0}
  <2>1. fifo[1] \in Character
    BY <1>1, <1>2
  <2>2. PICK c : c \in Client
    BY <2>1 DEF Character
  <2>3. Sent(c) \in Nat \ {0}
    BY <2>2, SentType
  <2> QED BY <2>2, <2>3, RegistrationAssumption
<1> QED BY <1>1, <1>2, <1>3 DEF bytes_read, HostRead

LEMMA ReadAccepts ==
  ASSUME IInv, TypeOK, HostRead
  PROVE  Ring!Accept
<1>1. fifo # << >> /\ client_paths' = client_paths
  BY DEF HostRead
<1> QED BY <1>1, ReadQueues, ReadSome DEF Ring!Accept

\* A manager takes the entry at the read index.
LEMMA CopyTakes ==
  ASSUME IInv, NEW m \in Manager, ManagerCopy(m)
  PROVE  Ring!Take(m)
<1>1. /\ fifo' = fifo /\ host' = host /\ BUFFER' = BUFFER
      /\ client_paths' = [client_paths EXCEPT ![m] = BUFFER[BUFFER_READ_INDEX]]
      /\ SEM_BUFFER_CLIENTS' = SEM_BUFFER_CLIENTS
      /\ BUFFER_READ_INDEX' = BUFFER_READ_INDEX
      /\ manager[m] = "copy" /\ manager' = [manager EXCEPT ![m] = "unlock"]
  BY DEF ManagerCopy, At, buffer, sems
<1>2. Control /\ Arrays
  BY DEF IInv
<1>3. Cardinality(Copied) = 0
  BY <1>1, Alone
<1>4. /\ Cardinality(Waiting') = Cardinality(Waiting) + 0 - 1
      /\ Cardinality(Copied') = Cardinality(Copied) + 1 - 0
      /\ Cardinality(Waiting) > 0
  BY <1>1, <1>2, ManagerMoves
<1>5. Cardinality(Copied') = 1
  BY <1>3, <1>4
<1>6. /\ Full \in Nat /\ Full' = Full - 1 /\ Full > 0
  <2>1. /\ Full = SEM_BUFFER_CLIENTS + Cardinality(Waiting) + Posted
        /\ Full' = SEM_BUFFER_CLIENTS + (Cardinality(Waiting) + 0 - 1) + Posted
    BY <1>1, <1>4 DEF Full, Posted
  <2>2. Posted \in Nat
    BY DEF Posted
  <2> QED BY <1>2, <1>4, <2>1, <2>2, Numbers
<1>7. PICK S : \A s \in Slots : BUFFER[s].msgs \in S
  <2> DEFINE S == {BUFFER[s].msgs : s \in Slots}
  <2>1. \A s \in Slots : BUFFER[s].msgs \in S
    OBVIOUS
  <2> QED BY <2>1
<1>8. Queue \in Seq(S) /\ Len(Queue) = Full
  BY <1>7, QueueSeq
<1>9. Queue # << >>
  BY <1>6, <1>8, EmptySeq
<1>a. Head(Queue) = BUFFER[BUFFER_READ_INDEX].msgs
  <2>1. BUFFER_READ_INDEX + Cardinality(Copied) + 1 - 1 = BUFFER_READ_INDEX
    BY <1>2, <1>3, Numbers
  <2>2. BUFFER_READ_INDEX % MAX_SESSION_COUNT = BUFFER_READ_INDEX
    BY <1>2, Sizes, ModBelow DEF Control, Slots
  <2>3. Place(1) = BUFFER_READ_INDEX
    BY <2>1, <2>2 DEF Place
  <2>4. Queue[1] = BUFFER[Place(1)].msgs
    BY <1>6, QueueIs
  <2> QED BY <1>8, <1>9, <2>3, <2>4
<1>b. Queue' = [n \in 1 .. Full - 1 |->
                  BUFFER[(BUFFER_READ_INDEX + 1 + n - 1) % MAX_SESSION_COUNT].msgs]
  BY <1>1, <1>5, <1>6 DEF Queue
<1>c. \A n \in 1 .. Full - 1 : Queue'[n] = Queue[n + 1]
  <2> SUFFICES ASSUME NEW n \in 1 .. Full - 1
               PROVE  Queue'[n] = Queue[n + 1]
    OBVIOUS
  <2>1. n + 1 \in 1 .. Full
    BY <1>6
  <2>2. Queue[n + 1] = BUFFER[(BUFFER_READ_INDEX + 0 + (n + 1) - 1) % MAX_SESSION_COUNT].msgs
    BY <1>3, <2>1 DEF Queue
  <2>3. BUFFER_READ_INDEX + 0 + (n + 1) - 1 = BUFFER_READ_INDEX + 1 + n - 1
    BY <1>2, Numbers
  <2> QED BY <1>b, <2>2, <2>3
<1>d. Queue' \in Seq(S) /\ Len(Queue') = Full - 1
  <2>1. Queue' = [n \in 1 .. Full - 1 |-> Queue'[n]]
    BY <1>b
  <2>2. \A n \in 1 .. Full - 1 : Queue'[n] \in S
    <3> SUFFICES ASSUME NEW n \in 1 .. Full - 1
                 PROVE  Queue[n + 1] \in S
      BY <1>c
    <3>1. n + 1 \in 1 .. Len(Queue)
      BY <1>6, <1>8
    <3> QED BY <1>8, <3>1, ElementOfSeq
  <2>3. Full - 1 \in Nat
    BY <1>6
  <2> QED BY <2>1, <2>2, <2>3, SeqOf
<1>e. Queue' = Tail(Queue)
  BY <1>8, <1>9, <1>c, <1>d, TailIs
<1>f. [k \in Manager |-> client_paths'[k].msgs]
        = [[k \in Manager |-> client_paths[k].msgs] EXCEPT ![m] = Head(Queue)]
  <2>1. DOMAIN client_paths = Manager
    BY <1>2 DEF Arrays
  <2>2. \A k \in Manager :
          client_paths'[k] = IF k = m THEN BUFFER[BUFFER_READ_INDEX] ELSE client_paths[k]
    BY <1>1, <2>1
  <2> QED BY <1>a, <2>2
<1> QED BY <1>1, <1>9, <1>e, <1>f DEF Ring!Take

LEMMA QueueBegins ==
  ASSUME Init
  PROVE  Ring!Init
<1>1. /\ fifo = << >> /\ host = "wait" /\ SEM_BUFFER_CLIENTS = 0
      /\ manager = [m \in Manager |-> "wait"]
      /\ client_paths = [m \in Manager |-> [msgs |-> << >>, used |-> 0]]
  BY DEF Init
<1>2. Waiting = {}
  BY <1>1 DEF Waiting
<1>3. Full = 0
  BY <1>1, <1>2, FS_EmptySet DEF Full
<1>4. IInv
  BY Begun
<1>5. PICK S : \A s \in Slots : BUFFER[s].msgs \in S
  <2> DEFINE S == {BUFFER[s].msgs : s \in Slots}
  <2>1. \A s \in Slots : BUFFER[s].msgs \in S
    OBVIOUS
  <2> QED BY <2>1
<1>6. Queue \in Seq(S) /\ Len(Queue) = 0
  BY <1>3, <1>4, <1>5, QueueSeq
<1>7. Queue = << >>
  BY <1>6, EmptySeq
<1>8. [m \in Manager |-> client_paths[m].msgs] = [m \in Manager |-> << >>]
  BY <1>1
<1> QED BY <1>1, <1>7, <1>8 DEF Ring!Init

LEMMA QueueSteps ==
  ASSUME IInv, TypeOK, [Next]_vars
  PROVE  [Ring!Next]_(Ring!vars)
<1>1. CASE MainInit
  BY <1>1, HostWaitStutters
<1>2. CASE HostStep
  <2>1. CASE HostRead
    BY <2>1, ReadAccepts DEF Ring!Next
  <2>2. CASE HostStranded \/ HostWait \/ HostPost
    BY <2>2, HostWaitStutters
  <2> QED BY <1>2, <2>1, <2>2 DEF HostStep
<1>3. CASE \E m \in Manager : ManagerStep(m)
  <2> PICK m \in Manager : ManagerStep(m)
    BY <1>3
  <2>1. CASE ManagerCopy(m)
    BY <2>1, CopyTakes DEF Ring!Next
  <2>2. CASE ManagerWait(m) \/ ManagerLock(m) \/ ManagerPost(m)
    BY <2>2, ManagerStutters
  <2>3. CASE ManagerUnlock(m)
    BY <2>3, UnlockStutters
  <2>4. CASE OpenResp(m) \/ OpenReq(m) \/ OpenNotif(m) \/ Answer(m) \/ EndSession(m)
               \/ GarbledOpens(m)
    <3>1. \E here \in Phases \cup {"garbled"}, there \in Phases \cup {"stuck", "wait"} :
             At(m, here, there)
               /\ UNCHANGED <<fifo, host, sems, buffer, client_paths>>
      BY <2>4 DEF OpenResp, OpenReq, OpenNotif, Answer, EndSession, BothOpen, GarbledOpens,
         Phases
    <3> QED BY <3>1, OpenStutters
  <2>5. CASE OpenNotifFails(m) \/ NameOverflows(m) \/ GarbledFails(m) \/ AnswerFails(m)
    BY <2>5, AwayStutters DEF OpenNotifFails, NameOverflows, GarbledFails, AnswerFails,
       ServerExits
  <2> QED BY <2>1, <2>2, <2>3, <2>4, <2>5 DEF ManagerStep
<1>4. CASE \E c \in Client : Connect(c) \/ ClientStep(c) \/ Crash(c)
  <2> PICK c \in Client : Connect(c) \/ ClientStep(c) \/ Crash(c)
    BY <1>4
  <2>1. CASE Connect(c)
    <3>1. /\ fifo' = fifo \o Message[c] /\ client_paths' = client_paths
          /\ BUFFER' = BUFFER /\ BUFFER_READ_INDEX' = BUFFER_READ_INDEX
          /\ SEM_BUFFER_CLIENTS' = SEM_BUFFER_CLIENTS /\ host' = host /\ manager' = manager
      BY <2>1 DEF Connect, sems, buffer
    <3>2. Waiting' = Waiting /\ Copied' = Copied
      BY <3>1, SameCounts
    <3>3. Full' = Full
      BY <3>1, <3>2 DEF Full
    <3>4. Queue' = Queue
      BY <3>1, <3>2, <3>3, QueueSame
    <3>5. Ring!Offer(c)
      BY <3>1, <3>4 DEF Ring!Offer
    <3> QED BY <3>5 DEF Ring!Next
  <2>2. CASE ClientStep(c) \/ Crash(c)
    BY <2>2, AwayStutters DEF ClientStep, Disconnect, SeesServerDead, Crash
  <2> QED BY <2>1, <2>2
<1>5. CASE UNCHANGED vars
  BY <1>5, AwayStutters DEF vars
<1> QED BY <1>1, <1>2, <1>3, <1>4, <1>5 DEF Next

-----------------------------------------------------------------------------
(* Where the registrations are. *)

\* What the queue and the copies become, step by step.
LEMMA RingSays ==
  ASSUME UNCHANGED Ring!vars
  PROVE  /\ fifo' = fifo /\ Queue' = Queue
         /\ \A m \in Manager : client_paths'[m].msgs = client_paths[m].msgs
<1>1. /\ fifo' = fifo /\ Queue' = Queue
      /\ [m \in Manager |-> client_paths'[m].msgs]
           = [m \in Manager |-> client_paths[m].msgs]
  BY DEF Ring!vars
<1> QED BY <1>1

LEMMA AcceptSays ==
  ASSUME IInv, TypeOK, HostRead
  PROVE  /\ fifo # << >> /\ bytes_read \in 1 .. Len(fifo) /\ Len(fifo) \in Nat
         /\ fifo' = SubSeq(fifo, bytes_read + 1, Len(fifo))
         /\ Queue' = Append(Queue, SubSeq(fifo, 1, bytes_read))
         /\ \A m \in Manager : client_paths'[m].msgs = client_paths[m].msgs
<1>1. client_paths' = client_paths /\ fifo # << >>
  BY DEF HostRead
<1> QED BY <1>1, ReadQueues, ReadSome

LEMMA TakeSays ==
  ASSUME IInv, NEW m \in Manager, ManagerCopy(m)
  PROVE  /\ Queue # << >> /\ Queue' = Tail(Queue) /\ fifo' = fifo
         /\ client_paths'[m].msgs = Head(Queue)
         /\ \A k \in Manager \ {m} : client_paths'[k].msgs = client_paths[k].msgs
<1>1. Ring!Take(m)
  BY CopyTakes
<1>2. [k \in Manager |-> client_paths'[k].msgs]
        = [[k \in Manager |-> client_paths[k].msgs] EXCEPT ![m] = Head(Queue)]
  BY <1>1 DEF Ring!Take
<1> QED BY <1>1, <1>2 DEF Ring!Take

LEMMA QueueType ==
  ASSUME IInv, TypeOK
  PROVE  Queue \in Seq(Seq(Character)) /\ DOMAIN Queue = 1 .. Len(Queue) /\ Len(Queue) \in Nat
<1>1. \A s \in Slots : BUFFER[s].msgs \in Seq(Character)
  BY DEF TypeOK
<1>2. Queue \in Seq(Seq(Character))
  BY <1>1, QueueSeq
<1> QED BY <1>2

\* The three kinds of places.
LEMMA PlaceOf ==
  ASSUME NEW c, NEW managers, NEW r
  PROVE  r \in Registrations(c, managers) <=>
           \/ \E n \in Of(c, fifo) : r = <<"fifo", 0, n>>
           \/ \E k \in DOMAIN Queue : \E n \in Of(c, Queue[k]) : r = <<"slot", k, n>>
           \/ \E m \in managers : \E n \in Of(c, client_paths[m].msgs) :
                r = <<"manager", m, n>>
<1>1. r \in {"fifo"} \X {0} \X Of(c, fifo)
        <=> \E n \in Of(c, fifo) : r = <<"fifo", 0, n>>
  OBVIOUS
<1>2. r \in UNION {{"slot"} \X {k} \X Of(c, Queue[k]) : k \in DOMAIN Queue}
        <=> \E k \in DOMAIN Queue : \E n \in Of(c, Queue[k]) : r = <<"slot", k, n>>
  OBVIOUS
<1>3. r \in UNION {{"manager"} \X {m} \X Of(c, client_paths[m].msgs) : m \in managers}
        <=> \E m \in managers : \E n \in Of(c, client_paths[m].msgs) :
              r = <<"manager", m, n>>
  OBVIOUS
<1> QED BY <1>1, <1>2, <1>3 DEF Registrations

LEMMA PlaceOfNext ==
  ASSUME NEW c, NEW r
  PROVE  r \in Registrations(c, Engaged)' <=>
           \/ \E n \in Of(c, fifo') : r = <<"fifo", 0, n>>
           \/ \E k \in DOMAIN Queue' : \E n \in Of(c, Queue'[k]) : r = <<"slot", k, n>>
           \/ \E m \in Engaged' : \E n \in Of(c, client_paths'[m].msgs) :
                r = <<"manager", m, n>>
<1>1. r \in {"fifo"} \X {0} \X Of(c, fifo')
        <=> \E n \in Of(c, fifo') : r = <<"fifo", 0, n>>
  OBVIOUS
<1>2. r \in UNION {{"slot"} \X {k} \X Of(c, Queue'[k]) : k \in DOMAIN Queue'}
        <=> \E k \in DOMAIN Queue' : \E n \in Of(c, Queue'[k]) : r = <<"slot", k, n>>
  OBVIOUS
<1>3. r \in UNION {{"manager"} \X {m} \X Of(c, client_paths'[m].msgs) : m \in Engaged'}
        <=> \E m \in Engaged' : \E n \in Of(c, client_paths'[m].msgs) :
              r = <<"manager", m, n>>
  OBVIOUS
<1>4. /\ Of(c, fifo)' = Of(c, fifo')
      /\ \A k \in DOMAIN Queue' : Of(c, Queue[k])' = Of(c, Queue'[k])
      /\ \A m \in Engaged' : Of(c, client_paths[m].msgs)' = Of(c, client_paths'[m].msgs)
  BY DEF Of
<1> QED BY <1>1, <1>2, <1>3, <1>4 DEF Registrations

\* The invariant in every state, and the one until a read ends inside a
\* registration.
RInv == IInv /\ TypeOK /\ Occupied /\ UntilCut

WInv == IInv /\ TypeOK /\ Occupied /\ Whole /\ Tracked

LEMMA WholeUntil ==
  ASSUME RInv, ~ cut
  PROVE  WInv
BY DEF RInv, UntilCut, WInv

\* A registration says where its client may be, and is the only one of it.
LEMMA TrackedSays ==
  ASSUME Tracked, NEW c \in Client
  PROVE  /\ \A r, q \in Registrations(c, Engaged) : r = q
         /\ client[c] \in {"start", "gone"} => Registrations(c, Engaged) = {}
         /\ client[c] \in Phases \cup {"leaving"} => Registrations(c, Engaged) # {}
         /\ \A r \in Registrations(c, Engaged) : client[c] \in Allowed(r)
BY DEF Tracked

LEMMA TrackedNext ==
  ASSUME \A c \in Client :
           /\ \A r, q \in Registrations(c, Engaged)' : r = q
           /\ client'[c] \in {"start", "gone"} => Registrations(c, Engaged)' = {}
           /\ client'[c] \in Phases \cup {"leaving"} => Registrations(c, Engaged)' # {}
           /\ \A r \in Registrations(c, Engaged)' : client'[c] \in Allowed(r)'
  PROVE  Tracked'
BY DEF Tracked

\* The registration of the client that a manager serves.
LEMMA ServedPlace ==
  ASSUME IInv, TypeOK, Whole, NEW m \in Engaged
  PROVE  /\ Served(m) \in Client
         /\ <<"manager", m, 1>> \in Registrations(Served(m), Engaged)
<1>1. m \in Manager /\ client_paths[m].msgs \in Seq(Character) /\ client_paths[m].msgs # << >>
  BY DEF Engaged, TypeOK
<1>2. 1 \in DOMAIN client_paths[m].msgs /\ client_paths[m].msgs[1] \in Character
  BY <1>1
<1>3. client_paths[m].msgs[1][2] = 1
  BY DEF Whole, Begins
<1>4. client_paths[m].msgs[1] = <<Served(m), 1>> /\ Served(m) \in Client
  BY <1>2, <1>3 DEF Served, Character
<1>5. 1 \in Of(Served(m), client_paths[m].msgs)
  BY <1>2, <1>4 DEF Of
<1> QED BY <1>4, <1>5, PlaceOf

\* The one registration of a manager that opened the last pipe.
LEMMA ServedAlone ==
  ASSUME TypeOK, Whole, NEW m \in Manager, manager[m] \in {"answer", "connected"}
  PROVE  \A c : \A n \in Of(c, client_paths[m].msgs) : n = 1 /\ c = Served(m)
<1>1. client_paths[m].msgs = Message[Served(m)]
  BY DEF Whole, OneMessage, Served
<1>2. Served(m) \in Client
  <2>1. client_paths[m].msgs \in Seq(Character) /\ client_paths[m].msgs # << >>
    BY DEF TypeOK, Before
  <2>2. client_paths[m].msgs[1] \in Character
    BY <2>1
  <2> QED BY <2>2 DEF Served, Character
<1> QED BY <1>1, <1>2, MessageIs DEF Of

-----------------------------------------------------------------------------
(* Every step keeps the registrations tracked. *)

\* A step that moves none.
LEMMA PlacesSame ==
  ASSUME UNCHANGED Ring!vars, Engaged' = Engaged, NEW c
  PROVE  Registrations(c, Engaged)' = Registrations(c, Engaged)
<1>1. /\ fifo' = fifo /\ Queue' = Queue
      /\ \A m \in Manager : client_paths'[m].msgs = client_paths[m].msgs
  BY RingSays
<1>2. Engaged \subseteq Manager
  BY DEF Engaged
<1>3. \A r : r \in Registrations(c, Engaged)' <=> r \in Registrations(c, Engaged)
  BY <1>1, <1>2, PlaceOf, PlaceOfNext
<1> QED BY <1>3

LEMMA TrackedIf ==
  ASSUME Tracked, UNCHANGED Ring!vars, Engaged' = Engaged,
         \A c \in Client :
           /\ client'[c] \in {"start", "gone"} => client[c] \in {"start", "gone"}
           /\ client'[c] \in Phases \cup {"leaving"} => client[c] \in Phases \cup {"leaving"}
           /\ \A r \in Registrations(c, Engaged) : client'[c] \in Allowed(r)'
  PROVE  Tracked'
<1> SUFFICES ASSUME NEW c \in Client
             PROVE  /\ \A r, q \in Registrations(c, Engaged)' : r = q
                    /\ client'[c] \in {"start", "gone"} => Registrations(c, Engaged)' = {}
                    /\ client'[c] \in Phases \cup {"leaving"}
                         => Registrations(c, Engaged)' # {}
                    /\ \A r \in Registrations(c, Engaged)' : client'[c] \in Allowed(r)'
  BY TrackedNext
<1>1. Registrations(c, Engaged)' = Registrations(c, Engaged)
  BY PlacesSame
<1>2. /\ \A r, q \in Registrations(c, Engaged) : r = q
      /\ client[c] \in {"start", "gone"} => Registrations(c, Engaged) = {}
      /\ client[c] \in Phases \cup {"leaving"} => Registrations(c, Engaged) # {}
  BY TrackedSays
<1> QED BY <1>1, <1>2

\* What follows a phase follows the next one before the pipes are opened.
LEMMA AllowedSame ==
  ASSUME NEW c, NEW r \in Registrations(c, Engaged), manager' = manager
  PROVE  Allowed(r)' = Allowed(r)
BY DEF Allowed

\* The steps of the host and of a manager that is not at the pipes.
LEMMA TrackedApart ==
  ASSUME Tracked, UNCHANGED Ring!vars, client' = client,
         \/ manager' = manager
         \/ \E m \in Manager, here, there \in {"wait", "lock", "copy", "unlock", "post", "resp"} :
              /\ manager \in [Manager -> Before \cup {"unlock", "post", "garbled", "stuck"} \cup Phases]
              /\ manager[m] = here /\ manager' = [manager EXCEPT ![m] = there]
              /\ here \in Before <=> there \in Before
  PROVE  Tracked'
<1>1. CASE manager' = manager
  <2>1. Engaged' = Engaged
    BY <1>1 DEF Engaged
  <2>2. \A c \in Client : \A r \in Registrations(c, Engaged) : client'[c] \in Allowed(r)'
    BY <1>1, AllowedSame, TrackedSays
  <2> QED BY <2>1, <2>2, TrackedIf
<1>2. ASSUME NEW m \in Manager,
             NEW here \in {"wait", "lock", "copy", "unlock", "post", "resp"},
             NEW there \in {"wait", "lock", "copy", "unlock", "post", "resp"},
             manager \in [Manager -> Before \cup {"unlock", "post", "garbled", "stuck"} \cup Phases],
             manager[m] = here, manager' = [manager EXCEPT ![m] = there],
             here \in Before <=> there \in Before
      PROVE  Tracked'
  <2>1. Engaged' = Engaged
    BY <1>2 DEF Engaged
  <2>2. ASSUME NEW c \in Client, NEW r \in Registrations(c, Engaged)
        PROVE  client'[c] \in Allowed(r)'
    <3>1. client[c] \in Allowed(r)
      BY TrackedSays
    <3>2. CASE r[1] = "manager" /\ r[2] = m
      <4>1. m \in Engaged
        BY <3>2, PlaceOf
      <4>2. here \in {"unlock", "post", "resp"} /\ there \in {"unlock", "post", "resp"}
        BY <1>2, <4>1 DEF Engaged, Before
      <4> QED BY <1>2, <3>1, <3>2, <4>2 DEF Allowed, Follows
    <3>3. CASE ~(r[1] = "manager" /\ r[2] = m)
      <4>1. r[1] = "manager" => manager'[r[2]] = manager[r[2]]
        <5>1. r[1] = "manager" => r[2] \in Engaged
          BY PlaceOf
        <5> QED BY <1>2, <3>3, <5>1 DEF Engaged
      <4> QED BY <3>1, <4>1 DEF Allowed
    <3> QED BY <3>2, <3>3
  <2> QED BY <2>1, <2>2, TrackedIf
<1> QED BY <1>1, <1>2

\* A manager and its client open a pipe.
LEMMA TrackedOpens ==
  ASSUME WInv, NEW m \in Manager, NEW here, NEW there,
         <<here, there>> \in {<<"resp", "req">>, <<"req", "notif">>,
                              <<"notif", "answer">>, <<"answer", "connected">>},
         BothOpen(m, here, there)
  PROVE  Tracked'
<1>1. /\ manager[m] = here /\ manager' = [manager EXCEPT ![m] = there]
      /\ client[Served(m)] = here /\ client' = [client EXCEPT ![Served(m)] = there]
  BY DEF BothOpen, At
<1>2. /\ here \in Phases /\ there \in Phases
      /\ UNCHANGED <<fifo, host, sems, buffer, client_paths>> /\ At(m, here, there)
  BY DEF BothOpen, Phases
<1>3. UNCHANGED Ring!vars
  BY <1>2, OpenStutters DEF WInv
<1>4. /\ manager \in [Manager -> Before \cup {"unlock", "post", "garbled", "stuck"} \cup Phases]
      /\ client \in [Client -> Phases \cup {"start", "leaving", "gone", "failed", "crashed"}]
  BY DEF WInv, TypeOK, Control
<1>5. Engaged' = Engaged /\ m \in Engaged
  BY <1>1, <1>2, <1>4 DEF Engaged, Before, Phases
<1>6. Served(m) \in Client /\ <<"manager", m, 1>> \in Registrations(Served(m), Engaged)
  BY <1>5, ServedPlace DEF WInv
<1>7. ASSUME NEW c \in Client, NEW r \in Registrations(c, Engaged)
      PROVE  client'[c] \in Allowed(r)'
  <2>1. client[c] \in Allowed(r)
    BY <1>7, TrackedSays DEF WInv
  <2>2. CASE r = <<"manager", m, 1>>
    <3>1. c = Served(m)
      BY <2>2, PlaceOf DEF Of, Served
    <3> QED BY <1>1, <1>4, <1>6, <2>2, <3>1 DEF Allowed, Follows
  <2>3. CASE r # <<"manager", m, 1>>
    <3>1. c # Served(m)
      BY <1>6, <2>3, TrackedSays DEF WInv
    <3>2. r[1] = "manager" => r[2] \in Manager
      BY PlaceOf DEF Engaged
    <3>3. r[1] = "manager" /\ r[3] = 1 => r[2] # m
      BY <2>3, PlaceOf
    <3>4. Allowed(r)' = Allowed(r)
      BY <1>1, <1>4, <3>2, <3>3 DEF Allowed
    <3> QED BY <1>1, <1>4, <2>1, <3>1, <3>4
  <2> QED BY <2>2, <2>3
<1>8. ASSUME NEW c \in Client
      PROVE  /\ client'[c] \in {"start", "gone"} => client[c] \in {"start", "gone"}
             /\ client'[c] \in Phases \cup {"leaving"} => client[c] \in Phases \cup {"leaving"}
  BY <1>1, <1>2, <1>4 DEF Phases
<1> QED BY <1>3, <1>5, <1>7, <1>8, TrackedIf DEF WInv

\* A client asks to leave, finds the server dead, or is killed.
LEMMA TrackedClient ==
  ASSUME WInv, NEW c \in Client, ClientStep(c) \/ Crash(c)
  PROVE  Tracked'
<1>1. /\ UNCHANGED <<fifo, host, sems, buffer, manager, client_paths>>
      /\ \E to \in {"leaving", "failed", "crashed"} :
           /\ client' = [client EXCEPT ![c] = to]
           /\ to = "leaving" => client[c] = "connected"
           /\ to = "failed" => client[c] \in {"answer", "leaving"}
           /\ to = "crashed" => client[c] \in Phases
  BY DEF ClientStep, Disconnect, SeesServerDead, Crash, Phases
<1>2. PICK to \in {"leaving", "failed", "crashed"} :
        /\ client' = [client EXCEPT ![c] = to]
        /\ to = "leaving" => client[c] = "connected"
        /\ to = "failed" => client[c] \in {"answer", "leaving"}
        /\ to = "crashed" => client[c] \in Phases
  BY <1>1
<1>3. UNCHANGED Ring!vars /\ Engaged' = Engaged
  BY <1>1, AwayStutters DEF Engaged
<1>4. client \in [Client -> Phases \cup {"start", "leaving", "gone", "failed", "crashed"}]
  BY DEF WInv, TypeOK
<1>5. ASSUME NEW d \in Client, NEW r \in Registrations(d, Engaged)
      PROVE  client'[d] \in Allowed(r)'
  <2>1. client[d] \in Allowed(r)
    BY TrackedSays DEF WInv
  <2>2. Allowed(r)' = Allowed(r)
    BY <1>1, AllowedSame
  <2>3. CASE d = c
    <3>1. client'[d] = to
      BY <1>2, <1>4, <2>3
    <3>2. r[1] = "manager" => r[2] \in Manager
      BY PlaceOf DEF Engaged
    <3>3. manager \in [Manager -> Before \cup {"unlock", "post", "garbled", "stuck"} \cup Phases]
      BY DEF WInv, TypeOK, Control
    <3>4. to \in Allowed(r)
      BY <1>2, <2>1, <2>3, <3>2, <3>3 DEF Allowed, Follows, Phases, Before
    <3> QED BY <2>2, <3>1, <3>4
  <2>4. CASE d # c
    BY <1>2, <1>4, <2>1, <2>2, <2>4
  <2> QED BY <2>3, <2>4
<1>6. ASSUME NEW d \in Client
      PROVE  /\ client'[d] \in {"start", "gone"} => client[d] \in {"start", "gone"}
             /\ client'[d] \in Phases \cup {"leaving"} => client[d] \in Phases \cup {"leaving"}
  BY <1>2, <1>4 DEF Phases
<1> QED BY <1>3, <1>5, <1>6, TrackedIf DEF WInv

\* A client without a registration sends one.
LEMMA TrackedConnects ==
  ASSUME WInv, NEW c \in Client, Connect(c)
  PROVE  Tracked'
<1>1. /\ fifo' = fifo \o Message[c] /\ client[c] \in {"start", "gone"}
      /\ client' = [client EXCEPT ![c] = "resp"]
      /\ UNCHANGED <<host, sems, buffer, manager, client_paths>>
  BY DEF Connect
<1>2. /\ Queue' = Queue /\ Engaged' = Engaged /\ client_paths' = client_paths
      /\ manager' = manager
  <2>1. /\ BUFFER' = BUFFER /\ BUFFER_READ_INDEX' = BUFFER_READ_INDEX
        /\ SEM_BUFFER_CLIENTS' = SEM_BUFFER_CLIENTS /\ host' = host /\ manager' = manager
    BY <1>1 DEF sems, buffer
  <2>2. Waiting' = Waiting /\ Copied' = Copied
    BY <2>1, SameCounts
  <2>3. Full' = Full
    BY <2>1, <2>2 DEF Full
  <2> QED BY <1>1, <2>1, <2>2, <2>3, QueueSame DEF Engaged
<1>3. /\ client \in [Client -> Phases \cup {"start", "leaving", "gone", "failed", "crashed"}]
      /\ fifo \in Seq(Character)
  BY DEF WInv, TypeOK
<1>4. /\ \A d : d # c => Of(d, fifo') = Of(d, fifo)
      /\ Of(c, fifo') = Of(c, fifo) \cup {Len(fifo) + 1}
  <2>1. /\ Message[c] \in Seq(Character) /\ Len(Message[c]) \in Nat \ {0}
        /\ \A n \in 1 .. Len(Message[c]) : Message[c][n] = <<c, n>>
    BY MessageIs, SentType
  <2>2. fifo \in Seq(Character) /\ Len(fifo) \in Nat
    BY <1>3
  <2>3. DOMAIN fifo' = 1 .. Len(fifo) + Len(Message[c]) /\ DOMAIN fifo = 1 .. Len(fifo)
    BY <1>1, <2>1, <2>2
  <2>4. ASSUME NEW n \in 1 .. Len(fifo) + Len(Message[c])
        PROVE  /\ n <= Len(fifo) => fifo'[n] = fifo[n]
               /\ n > Len(fifo) => fifo'[n] = <<c, n - Len(fifo)>>
    <3>1. fifo'[n] = IF n <= Len(fifo) THEN fifo[n] ELSE Message[c][n - Len(fifo)]
      BY <1>1, <2>1, <2>2, ConcatProperties
    <3>2. ASSUME n > Len(fifo)
          PROVE  fifo'[n] = <<c, n - Len(fifo)>>
      <4>1. n - Len(fifo) \in 1 .. Len(Message[c]) /\ ~(n <= Len(fifo))
        BY <2>1, <2>2, <3>2
      <4>2. Message[c][n - Len(fifo)] = <<c, n - Len(fifo)>>
        BY <2>1, <4>1
      <4> QED BY <3>1, <4>1, <4>2
    <3> QED BY <3>1, <3>2
  <2>5. ASSUME NEW d, NEW n
        PROVE  n \in Of(d, fifo') <=> n \in Of(d, fifo) \/ (d = c /\ n = Len(fifo) + 1)
    <3> DEFINE f == Len(fifo)
               s == Len(Message[c])
    <3>1. f \in Nat /\ s \in Nat \ {0}
      BY <2>1, <2>2
    <3>e. /\ n \in 1 .. f + s /\ n <= f => fifo'[n] = fifo[n]
          /\ n \in 1 .. f + s /\ n > f => fifo'[n] = <<c, n - f>>
      BY <2>4
    <3>6. n \in Of(d, fifo') <=> n \in 1 .. f + s /\ fifo'[n] = <<d, 1>>
      BY <2>3 DEF Of
    <3>7. n \in Of(d, fifo) <=> n \in 1 .. f /\ fifo[n] = <<d, 1>>
      BY <2>3 DEF Of
    <3> HIDE DEF f, s
    <3>2. n \in 1 .. f + s <=> n \in 1 .. f \/ n \in f + 1 .. f + s
      BY <3>1
    <3>3. n \in 1 .. f => fifo'[n] = fifo[n]
      <4> HAVE n \in 1 .. f
      <4>1. n <= f
        BY <3>1
      <4>2. n \in 1 .. f + s
        BY <3>2
      <4> QED BY <3>e, <4>1, <4>2
    <3>4. n \in f + 1 .. f + s =>
            fifo'[n] = <<c, n - f>> /\ (n - f = 1 <=> n = f + 1) /\ n \notin 1 .. f
      <4> HAVE n \in f + 1 .. f + s
      <4>1. n > f /\ (n - f = 1 <=> n = f + 1) /\ n \notin 1 .. f
        BY <3>1
      <4> QED BY <3>2, <3>e, <4>1
    <3>5. f + 1 \in f + 1 .. f + s
      BY <3>1
    <3>8. n \in Of(d, fifo') <=> n \in Of(d, fifo) \/ (d = c /\ n = f + 1)
      <4>1. CASE n \in 1 .. f
        <5>1. n # f + 1
          BY <3>1, <4>1
        <5> QED BY <3>2, <3>3, <3>6, <3>7, <4>1, <5>1
      <4>2. CASE n \in f + 1 .. f + s
        BY <3>2, <3>4, <3>6, <3>7, <4>2
      <4>3. CASE n \notin 1 .. f /\ n \notin f + 1 .. f + s
        BY <3>2, <3>5, <3>6, <3>7, <4>3
      <4> QED BY <4>1, <4>2, <4>3
    <3> QED BY <3>8 DEF f
  <2> QED BY <2>5
<1>5. ASSUME NEW d \in Client, d # c
      PROVE  Registrations(d, Engaged)' = Registrations(d, Engaged)
  <2>1. \A r : r \in Registrations(d, Engaged)' <=> r \in Registrations(d, Engaged)
    BY <1>2, <1>4, <1>5, PlaceOf, PlaceOfNext
  <2> QED BY <2>1
<1>6. Registrations(c, Engaged)' = {<<"fifo", 0, Len(fifo) + 1>>}
  <2>1. Registrations(c, Engaged) = {}
    BY <1>1, TrackedSays DEF WInv
  <2>2. \A r : r \in Registrations(c, Engaged)'
                 <=> r \in Registrations(c, Engaged) \/ r = <<"fifo", 0, Len(fifo) + 1>>
    BY <1>2, <1>4, PlaceOf, PlaceOfNext
  <2> QED BY <2>1, <2>2
<1>7. ASSUME NEW d \in Client
      PROVE  /\ \A r, q \in Registrations(d, Engaged)' : r = q
             /\ client'[d] \in {"start", "gone"} => Registrations(d, Engaged)' = {}
             /\ client'[d] \in Phases \cup {"leaving"} => Registrations(d, Engaged)' # {}
             /\ \A r \in Registrations(d, Engaged)' : client'[d] \in Allowed(r)'
  <2>1. CASE d = c
    <3>1. client'[d] = "resp"
      BY <1>1, <1>3, <2>1
    <3>2. \A r \in Registrations(d, Engaged)' : r = <<"fifo", 0, Len(fifo) + 1>>
      BY <1>6, <2>1
    <3>3. \A r \in Registrations(d, Engaged)' : "resp" \in Allowed(r)'
      BY <3>2 DEF Allowed
    <3> QED BY <1>6, <2>1, <3>1, <3>2, <3>3
  <2>2. CASE d # c
    <3>1. client'[d] = client[d]
      BY <1>1, <1>3, <2>2
    <3>2. \A r \in Registrations(d, Engaged) : Allowed(r)' = Allowed(r)
      BY <1>2, AllowedSame
    <3> QED BY <1>5, <2>2, <3>1, <3>2, TrackedSays DEF WInv
  <2> QED BY <2>1, <2>2
<1> QED BY <1>7, TrackedNext

\* Where the registrations on the FIFO begin, in what a read returned and in what
\* it left.
LEMMA ReadSplits ==
  ASSUME fifo \in Seq(Character), NEW k \in 1 .. Len(fifo), NEW c, NEW n
  PROVE  /\ n \in Of(c, SubSeq(fifo, 1, k)) <=> n \in Of(c, fifo) /\ n <= k
         /\ n \in Of(c, SubSeq(fifo, k + 1, Len(fifo)))
              <=> n \in Nat \ {0} /\ k + n \in Of(c, fifo)
<1>1. Len(fifo) \in Nat /\ k \in Nat \ {0} /\ k <= Len(fifo) /\ DOMAIN fifo = 1 .. Len(fifo)
  OBVIOUS
<1> DEFINE got  == SubSeq(fifo, 1, k)
           rest == SubSeq(fifo, k + 1, Len(fifo))
<1>2. DOMAIN got = 1 .. k /\ \A i \in 1 .. k : got[i] = fifo[i]
  BY <1>1
<1>3. /\ DOMAIN rest = 1 .. Len(fifo) - k
      /\ \A i \in 1 .. Len(fifo) - k : rest[i] = fifo[k + i]
  BY <1>1
<1> HIDE DEF got, rest
<1>4. n \in Of(c, got) <=> n \in Of(c, fifo) /\ n <= k
  <2>1. n \in 1 .. k <=> n \in 1 .. Len(fifo) /\ n <= k
    BY <1>1
  <2> QED BY <1>1, <1>2, <2>1 DEF Of
<1>5. n \in Of(c, rest) <=> n \in Nat \ {0} /\ k + n \in Of(c, fifo)
  <2>1. n \in 1 .. Len(fifo) - k <=> n \in Nat \ {0} /\ k + n \in 1 .. Len(fifo)
    <3>1. n \in 1 .. Len(fifo) - k => n \in Nat \ {0} /\ k + n \in 1 .. Len(fifo)
      BY <1>1
    <3>2. n \in Nat \ {0} /\ k + n \in 1 .. Len(fifo) => n \in 1 .. Len(fifo) - k
      BY <1>1
    <3> QED BY <3>1, <3>2
  <2> QED BY <1>1, <1>3, <2>1 DEF Of
<1> QED BY <1>4, <1>5 DEF got, rest

\* The registrations that a read returned go to the last slot of the queue.
LEMMA TrackedAccepts ==
  ASSUME WInv, HostRead
  PROVE  Tracked'
<1> DEFINE L == bytes_read
<1>1. /\ fifo' = SubSeq(fifo, L + 1, Len(fifo))
      /\ Queue' = Append(Queue, SubSeq(fifo, 1, L))
      /\ L \in 1 .. Len(fifo) /\ L \in Nat
      /\ \A m \in Manager : client_paths'[m].msgs = client_paths[m].msgs
      /\ client' = client /\ manager' = manager /\ Engaged' = Engaged
  BY AcceptSays DEF WInv, HostRead, Engaged
<1>2. /\ Queue \in Seq(Seq(Character)) /\ fifo \in Seq(Character)
      /\ DOMAIN Queue = 1 .. Len(Queue) /\ Len(Queue) \in Nat
  BY QueueType DEF WInv, TypeOK
<1>3. /\ DOMAIN Queue' = 1 .. Len(Queue) + 1
      /\ \A k \in 1 .. Len(Queue) : Queue'[k] = Queue[k]
      /\ Queue'[Len(Queue) + 1] = SubSeq(fifo, 1, L)
  BY <1>1, <1>2
<1> HIDE DEF L
<1>4. /\ \A c, n : n \in Of(c, Queue'[Len(Queue) + 1]) <=> n \in Of(c, fifo) /\ n <= L
      /\ \A c, n : n \in Of(c, fifo') <=> n \in Nat \ {0} /\ L + n \in Of(c, fifo)
  BY <1>1, <1>2, <1>3, ReadSplits
<1>n. \A c : \A n \in Of(c, fifo) : n \in Nat \ {0}
  BY <1>2 DEF Of
<1> DEFINE From(r, q) ==
             \/ r = q /\ q[1] # "fifo"
             \/ /\ q[1] = "fifo" /\ q[3] <= L
                /\ r = <<"slot", Len(Queue) + 1, q[3]>> /\ q = <<"fifo", 0, q[3]>>
             \/ /\ q[1] = "fifo" /\ ~(q[3] <= L)
                /\ r = <<"fifo", 0, q[3] - L>> /\ q = <<"fifo", 0, q[3]>>
<1>5. ASSUME NEW c \in Client, NEW r \in Registrations(c, Engaged)'
      PROVE  \E q \in Registrations(c, Engaged) : From(r, q)
  <2>1. CASE \E k \in DOMAIN Queue' : \E n \in Of(c, Queue'[k]) : r = <<"slot", k, n>>
    <3> PICK k \in DOMAIN Queue' : \E n \in Of(c, Queue'[k]) : r = <<"slot", k, n>>
      BY <2>1
    <3>1. CASE k = Len(Queue) + 1
      <4>1. PICK n : n \in Of(c, fifo) /\ n <= L /\ r = <<"slot", Len(Queue) + 1, n>>
        BY <1>4, <3>1
      <4>2. <<"fifo", 0, n>> \in Registrations(c, Engaged)
        BY <4>1, PlaceOf
      <4>3. From(r, <<"fifo", 0, n>>)
        BY <4>1
      <4> QED BY <4>2, <4>3
    <3>2. CASE k # Len(Queue) + 1
      <4>1. k \in DOMAIN Queue /\ Queue'[k] = Queue[k]
        BY <1>2, <1>3, <3>2
      <4>2. r \in Registrations(c, Engaged) /\ r[1] # "fifo"
        BY <4>1, PlaceOf
      <4> QED BY <4>2
    <3> QED BY <3>1, <3>2
  <2>2. CASE \E m \in Engaged' : \E n \in Of(c, client_paths'[m].msgs) :
                r = <<"manager", m, n>>
    <3>1. PICK m \in Engaged : \E n \in Of(c, client_paths[m].msgs) : r = <<"manager", m, n>>
      BY <1>1, <2>2 DEF Engaged
    <3>2. r \in Registrations(c, Engaged) /\ r[1] # "fifo"
      BY <3>1, PlaceOf
    <3> QED BY <3>2
  <2>f. CASE \E n \in Of(c, fifo') : r = <<"fifo", 0, n>>
    <3>1. PICK n \in Of(c, fifo') : r = <<"fifo", 0, n>>
      BY <2>f
    <3>2. n \in Nat \ {0} /\ L + n \in Of(c, fifo)
      BY <1>4
    <3>3. PICK j : j \in Of(c, fifo) /\ ~(j <= L) /\ j - L = n
      BY <1>1, <3>2
    <3>4. <<"fifo", 0, j>> \in Registrations(c, Engaged)
      BY <3>3, PlaceOf
    <3>5. From(r, <<"fifo", 0, j>>)
      BY <3>1, <3>3
    <3> QED BY <3>4, <3>5
  <2>3. \/ \E n \in Of(c, fifo') : r = <<"fifo", 0, n>>
        \/ \E k \in DOMAIN Queue' : \E n \in Of(c, Queue'[k]) : r = <<"slot", k, n>>
        \/ \E m \in Engaged' : \E n \in Of(c, client_paths'[m].msgs) :
             r = <<"manager", m, n>>
    BY PlaceOfNext
  <2> QED BY <2>1, <2>2, <2>3, <2>f
<1>6. ASSUME NEW c \in Client, NEW r \in Registrations(c, Engaged)
      PROVE  Registrations(c, Engaged)' # {}
  <2>1. CASE \E n \in Of(c, fifo) : r = <<"fifo", 0, n>>
    <3> PICK n \in Of(c, fifo) : r = <<"fifo", 0, n>>
      BY <2>1
    <3>1. CASE n <= L
      <4>1. Len(Queue) + 1 \in DOMAIN Queue' /\ n \in Of(c, Queue'[Len(Queue) + 1])
        BY <1>2, <1>3, <1>4, <3>1
      <4>2. <<"slot", Len(Queue) + 1, n>> \in Registrations(c, Engaged)'
        BY <4>1, PlaceOfNext
      <4> QED BY <4>2
    <3>2. CASE ~(n <= L)
      <4>1. n - L \in Nat \ {0} /\ L + (n - L) = n
        BY <1>1, <1>n, <3>2
      <4>2. n - L \in Of(c, fifo')
        BY <1>4, <4>1
      <4>3. <<"fifo", 0, n - L>> \in Registrations(c, Engaged)'
        BY <4>2, PlaceOfNext
      <4> QED BY <4>3
    <3> QED BY <3>1, <3>2
  <2>2. CASE \E k \in DOMAIN Queue : \E n \in Of(c, Queue[k]) : r = <<"slot", k, n>>
    <3>1. r \in Registrations(c, Engaged)'
      BY <1>2, <1>3, <2>2, PlaceOfNext
    <3> QED BY <3>1
  <2>3. CASE \E m \in Engaged : \E n \in Of(c, client_paths[m].msgs) :
                r = <<"manager", m, n>>
    <3>1. r \in Registrations(c, Engaged)'
      BY <1>1, <2>3, PlaceOfNext DEF Engaged
    <3> QED BY <3>1
  <2> QED BY <2>1, <2>2, <2>3, PlaceOf
<1>7. ASSUME NEW c \in Client
      PROVE  /\ \A r, q \in Registrations(c, Engaged)' : r = q
             /\ client'[c] \in {"start", "gone"} => Registrations(c, Engaged)' = {}
             /\ client'[c] \in Phases \cup {"leaving"} => Registrations(c, Engaged)' # {}
             /\ \A r \in Registrations(c, Engaged)' : client'[c] \in Allowed(r)'
  <2>1. /\ \A r, q \in Registrations(c, Engaged) : r = q
        /\ client[c] \in {"start", "gone"} => Registrations(c, Engaged) = {}
        /\ client[c] \in Phases \cup {"leaving"} => Registrations(c, Engaged) # {}
        /\ \A r \in Registrations(c, Engaged) : client[c] \in Allowed(r)
    BY TrackedSays DEF WInv
  <2>2. ASSUME NEW r \in Registrations(c, Engaged)', NEW q \in Registrations(c, Engaged)'
        PROVE  r = q
    <3>1. PICK x \in Registrations(c, Engaged) : From(r, x)
      BY <1>5
    <3>2. PICK y \in Registrations(c, Engaged) : From(q, y)
      BY <1>5
    <3>3. x = y
      BY <2>1
    <3> QED BY <3>1, <3>2, <3>3
  <2>3. client'[c] \in {"start", "gone"} => Registrations(c, Engaged)' = {}
    BY <1>1, <1>5, <2>1
  <2>4. client'[c] \in Phases \cup {"leaving"} => Registrations(c, Engaged)' # {}
    BY <1>1, <1>6, <2>1
  <2>5. ASSUME NEW r \in Registrations(c, Engaged)' PROVE client'[c] \in Allowed(r)'
    <3>1. PICK q \in Registrations(c, Engaged) : From(r, q)
      BY <1>5
    <3>2. client[c] \in Allowed(q)
      BY <2>1
    <3> QED BY <1>1, <3>1, <3>2 DEF Allowed
  <2> QED BY <2>2, <2>3, <2>4, <2>5
<1> QED BY <1>7, TrackedNext

\* The registrations in the first slot go to the manager that copies it.
LEMMA TrackedTakes ==
  ASSUME WInv, NEW m \in Manager, ManagerCopy(m)
  PROVE  Tracked'
<1>1. /\ Queue # << >> /\ Queue' = Tail(Queue) /\ fifo' = fifo
      /\ client_paths'[m].msgs = Head(Queue)
      /\ \A k \in Manager \ {m} : client_paths'[k].msgs = client_paths[k].msgs
      /\ client' = client
      /\ manager[m] = "copy" /\ manager' = [manager EXCEPT ![m] = "unlock"]
  BY TakeSays DEF WInv, ManagerCopy, At
<1>2. /\ Queue \in Seq(Seq(Character)) /\ fifo \in Seq(Character)
      /\ DOMAIN Queue = 1 .. Len(Queue) /\ Len(Queue) \in Nat
      /\ manager \in [Manager -> Before \cup {"unlock", "post", "garbled", "stuck"} \cup Phases]
  BY QueueType DEF WInv, TypeOK, Control
<1>3. /\ DOMAIN Queue' = 1 .. Len(Queue) - 1
      /\ \A k \in 1 .. Len(Queue) - 1 : Queue'[k] = Queue[k + 1]
      /\ Head(Queue) = Queue[1] /\ 1 \in DOMAIN Queue
  BY <1>1, <1>2
<1>4. Engaged' = Engaged \cup {m} /\ m \notin Engaged
  BY <1>1, <1>2 DEF Engaged, Before
<1> DEFINE From(r, q) ==
             \/ r = q /\ q[1] # "slot" /\ (q[1] = "manager" => q[2] \in Engaged)
             \/ \E k \in 1 .. Len(Queue) - 1 : \E n \in DOMAIN Queue[k + 1] :
                  r = <<"slot", k, n>> /\ q = <<"slot", k + 1, n>>
             \/ \E n \in DOMAIN Queue[1] :
                  r = <<"manager", m, n>> /\ q = <<"slot", 1, n>>
<1>5. ASSUME NEW c \in Client, NEW r \in Registrations(c, Engaged)'
      PROVE  \E q \in Registrations(c, Engaged) : From(r, q)
  <2>1. CASE \E n \in Of(c, fifo') : r = <<"fifo", 0, n>>
    <3>1. r \in Registrations(c, Engaged) /\ r[1] # "slot" /\ r[1] # "manager"
      BY <1>1, <2>1, PlaceOf
    <3> QED BY <3>1
  <2>2. CASE \E k \in DOMAIN Queue' : \E n \in Of(c, Queue'[k]) : r = <<"slot", k, n>>
    <3> PICK k \in DOMAIN Queue' : \E n \in Of(c, Queue'[k]) : r = <<"slot", k, n>>
      BY <2>2
    <3>1. k \in 1 .. Len(Queue) - 1 /\ Queue'[k] = Queue[k + 1] /\ k + 1 \in DOMAIN Queue
      BY <1>2, <1>3
    <3>2. PICK n \in Of(c, Queue[k + 1]) : r = <<"slot", k, n>>
      BY <3>1
    <3>3. <<"slot", k + 1, n>> \in Registrations(c, Engaged) /\ n \in DOMAIN Queue[k + 1]
      BY <3>1, PlaceOf DEF Of
    <3> QED BY <3>1, <3>2, <3>3
  <2>3. CASE \E k \in Engaged' : \E n \in Of(c, client_paths'[k].msgs) :
                r = <<"manager", k, n>>
    <3> PICK k \in Engaged' : \E n \in Of(c, client_paths'[k].msgs) : r = <<"manager", k, n>>
      BY <2>3
    <3>1. CASE k = m
      <4>1. PICK n \in Of(c, Queue[1]) : r = <<"manager", m, n>>
        BY <1>1, <1>3, <3>1
      <4>2. <<"slot", 1, n>> \in Registrations(c, Engaged) /\ n \in DOMAIN Queue[1]
        BY <1>3, PlaceOf DEF Of
      <4> QED BY <4>1, <4>2
    <3>2. CASE k # m
      <4>1. k \in Engaged /\ client_paths'[k].msgs = client_paths[k].msgs
        BY <1>1, <1>4, <3>2 DEF Engaged
      <4>2. r \in Registrations(c, Engaged) /\ r[1] = "manager" /\ r[2] = k
        BY <4>1, PlaceOf
      <4> QED BY <4>1, <4>2
    <3> QED BY <3>1, <3>2
  <2>4. \/ \E n \in Of(c, fifo') : r = <<"fifo", 0, n>>
        \/ \E k \in DOMAIN Queue' : \E n \in Of(c, Queue'[k]) : r = <<"slot", k, n>>
        \/ \E k \in Engaged' : \E n \in Of(c, client_paths'[k].msgs) :
             r = <<"manager", k, n>>
    BY PlaceOfNext
  <2> QED BY <2>1, <2>2, <2>3, <2>4
<1>6. ASSUME NEW c \in Client, NEW r \in Registrations(c, Engaged)
      PROVE  Registrations(c, Engaged)' # {}
  <2>1. CASE \E n \in Of(c, fifo) : r = <<"fifo", 0, n>>
    <3>1. r \in Registrations(c, Engaged)'
      BY <1>1, <2>1, PlaceOfNext
    <3> QED BY <3>1
  <2>2. CASE \E k \in DOMAIN Queue : \E n \in Of(c, Queue[k]) : r = <<"slot", k, n>>
    <3> PICK k \in DOMAIN Queue : \E n \in Of(c, Queue[k]) : r = <<"slot", k, n>>
      BY <2>2
    <3> PICK n \in Of(c, Queue[k]) : r = <<"slot", k, n>>
      OBVIOUS
    <3>1. CASE k = 1
      <4>1. <<"manager", m, n>> \in Registrations(c, Engaged)'
        BY <1>1, <1>3, <1>4, <3>1, PlaceOfNext
      <4> QED BY <4>1
    <3>2. CASE k # 1
      <4>1. k - 1 \in DOMAIN Queue' /\ Queue'[k - 1] = Queue[k]
        BY <1>2, <1>3, <3>2
      <4>2. <<"slot", k - 1, n>> \in Registrations(c, Engaged)'
        BY <4>1, PlaceOfNext
      <4> QED BY <4>2
    <3> QED BY <3>1, <3>2
  <2>3. CASE \E k \in Engaged : \E n \in Of(c, client_paths[k].msgs) :
                r = <<"manager", k, n>>
    <3>1. r \in Registrations(c, Engaged)'
      BY <1>1, <1>4, <2>3, PlaceOfNext DEF Engaged
    <3> QED BY <3>1
  <2> QED BY <2>1, <2>2, <2>3, PlaceOf
<1>7. ASSUME NEW c \in Client
      PROVE  /\ \A r, q \in Registrations(c, Engaged)' : r = q
             /\ client'[c] \in {"start", "gone"} => Registrations(c, Engaged)' = {}
             /\ client'[c] \in Phases \cup {"leaving"} => Registrations(c, Engaged)' # {}
             /\ \A r \in Registrations(c, Engaged)' : client'[c] \in Allowed(r)'
  <2>1. /\ \A r, q \in Registrations(c, Engaged) : r = q
        /\ client[c] \in {"start", "gone"} => Registrations(c, Engaged) = {}
        /\ client[c] \in Phases \cup {"leaving"} => Registrations(c, Engaged) # {}
        /\ \A r \in Registrations(c, Engaged) : client[c] \in Allowed(r)
    BY TrackedSays DEF WInv
  <2>2. ASSUME NEW r \in Registrations(c, Engaged)', NEW q \in Registrations(c, Engaged)'
        PROVE  r = q
    <3>1. PICK x \in Registrations(c, Engaged) : From(r, x)
      BY <1>5
    <3>2. PICK y \in Registrations(c, Engaged) : From(q, y)
      BY <1>5
    <3>3. x = y
      BY <2>1
    <3>4. CASE x[1] # "slot"
      BY <3>1, <3>2, <3>3, <3>4
    <3>a. \A k \in 1 .. Len(Queue) - 1 : k \in Int /\ k + 1 # 1
      BY <1>2
    <3>5. CASE x[1] = "slot" /\ x[2] = 1
      <4>1. r = <<"manager", m, x[3]>> /\ q = <<"manager", m, x[3]>>
        BY <3>1, <3>2, <3>3, <3>5, <3>a
      <4> QED BY <4>1
    <3>6. CASE x[1] = "slot" /\ x[2] # 1
      <4>1. r = <<"slot", x[2] - 1, x[3]>> /\ q = <<"slot", x[2] - 1, x[3]>>
        BY <3>1, <3>2, <3>3, <3>6, <3>a
      <4> QED BY <4>1
    <3> QED BY <3>4, <3>5, <3>6
  <2>3. client'[c] \in {"start", "gone"} => Registrations(c, Engaged)' = {}
    BY <1>1, <1>5, <2>1
  <2>4. client'[c] \in Phases \cup {"leaving"} => Registrations(c, Engaged)' # {}
    BY <1>1, <1>6, <2>1
  <2>5. ASSUME NEW r \in Registrations(c, Engaged)' PROVE client'[c] \in Allowed(r)'
    <3>1. PICK q \in Registrations(c, Engaged) : From(r, q)
      BY <1>5
    <3>2. client[c] \in Allowed(q)
      BY <2>1
    <3>3. CASE r = q /\ q[1] # "slot" /\ (q[1] = "manager" => q[2] \in Engaged)
      <4>1. q[1] = "manager" => manager'[q[2]] = manager[q[2]]
        BY <1>1, <1>2, <1>4, <3>3 DEF Engaged
      <4> QED BY <1>1, <3>2, <3>3, <4>1 DEF Allowed
    <3>4. CASE ~(r = q /\ q[1] # "slot" /\ (q[1] = "manager" => q[2] \in Engaged))
      <4>1. client[c] \in {"resp", "crashed"}
        BY <3>1, <3>2, <3>4 DEF Allowed
      <4>2. Allowed(r)' = {"resp", "crashed"}
        BY <1>1, <1>2, <3>1, <3>4 DEF Allowed, Follows
      <4> QED BY <1>1, <4>1, <4>2
    <3> QED BY <3>3, <3>4
  <2> QED BY <2>2, <2>3, <2>4, <2>5
<1> QED BY <1>7, TrackedNext

\* A manager ends the session of its client, the only one it has.
LEMMA TrackedEnds ==
  ASSUME WInv, NEW m \in Manager, EndSession(m)
  PROVE  Tracked'
<1>1. /\ manager[m] = "connected" /\ manager' = [manager EXCEPT ![m] = "wait"]
      /\ client[Served(m)] \in {"leaving", "crashed"}
      /\ client' = [client EXCEPT ![Served(m)] = IF @ = "leaving" THEN "gone" ELSE @]
      /\ At(m, "connected", "wait")
      /\ UNCHANGED <<fifo, host, sems, buffer, client_paths>>
  BY DEF EndSession, At
<1>2. "connected" \in Phases
  BY DEF Phases
<1>3. UNCHANGED Ring!vars
  BY <1>1, <1>2, OpenStutters DEF WInv
<1>4. /\ fifo' = fifo /\ Queue' = Queue
      /\ \A k \in Manager : client_paths'[k].msgs = client_paths[k].msgs
  BY <1>3, RingSays
<1>5. /\ manager \in [Manager -> Before \cup {"unlock", "post", "garbled", "stuck"} \cup Phases]
      /\ client \in [Client -> Phases \cup {"start", "leaving", "gone", "failed", "crashed"}]
  BY DEF WInv, TypeOK, Control
<1>6. m \in Engaged /\ Engaged' = Engaged \ {m}
  BY <1>1, <1>5 DEF Engaged, Before
<1>7. Served(m) \in Client /\ <<"manager", m, 1>> \in Registrations(Served(m), Engaged)
  BY <1>6, ServedPlace DEF WInv
<1>8. \A c : \A n \in Of(c, client_paths[m].msgs) : n = 1 /\ c = Served(m)
  BY <1>1, ServedAlone DEF WInv
<1>9. ASSUME NEW c \in Client, NEW r
      PROVE  r \in Registrations(c, Engaged)'
               <=> r \in Registrations(c, Engaged) /\ r # <<"manager", m, 1>>
  <2>1. r \in Registrations(c, Engaged)' =>
          r \in Registrations(c, Engaged) /\ r # <<"manager", m, 1>>
    BY <1>4, <1>6, PlaceOf, PlaceOfNext DEF Engaged
  <2>2. r \in Registrations(c, Engaged) /\ r # <<"manager", m, 1>> =>
          r \in Registrations(c, Engaged)'
    BY <1>4, <1>6, <1>8, PlaceOf, PlaceOfNext DEF Engaged
  <2> QED BY <2>1, <2>2
<1>a. ASSUME NEW c \in Client
      PROVE  /\ \A r, q \in Registrations(c, Engaged)' : r = q
             /\ client'[c] \in {"start", "gone"} => Registrations(c, Engaged)' = {}
             /\ client'[c] \in Phases \cup {"leaving"} => Registrations(c, Engaged)' # {}
             /\ \A r \in Registrations(c, Engaged)' : client'[c] \in Allowed(r)'
  <2>1. /\ \A r, q \in Registrations(c, Engaged) : r = q
        /\ client[c] \in {"start", "gone"} => Registrations(c, Engaged) = {}
        /\ client[c] \in Phases \cup {"leaving"} => Registrations(c, Engaged) # {}
        /\ \A r \in Registrations(c, Engaged) : client[c] \in Allowed(r)
    BY TrackedSays DEF WInv
  <2>2. CASE c = Served(m)
    <3>1. Registrations(c, Engaged)' = {}
      BY <1>7, <1>9, <2>1, <2>2
    <3>2. client'[c] \in {"gone", "crashed"}
      BY <1>1, <1>5, <1>7, <2>2
    <3> QED BY <3>1, <3>2 DEF Phases
  <2>3. CASE c # Served(m)
    <3>1. Registrations(c, Engaged)' = Registrations(c, Engaged)
      <4>1. <<"manager", m, 1>> \notin Registrations(c, Engaged)
        BY <1>8, <2>3, PlaceOf
      <4> QED BY <1>9, <4>1
    <3>2. client'[c] = client[c]
      BY <1>1, <1>5, <2>3
    <3>3. ASSUME NEW r \in Registrations(c, Engaged) PROVE client[c] \in Allowed(r)'
      <4>1. r[1] = "manager" => r[2] \in Engaged /\ r[2] # m
        BY <1>8, <2>3, PlaceOf
      <4>2. r[1] = "manager" => manager'[r[2]] = manager[r[2]]
        BY <1>1, <1>5, <4>1 DEF Engaged
      <4> QED BY <2>1, <4>2 DEF Allowed
    <3> QED BY <2>1, <3>1, <3>2, <3>3
  <2> QED BY <2>2, <2>3
<1> QED BY <1>a, TrackedNext

LEMMA TrackedStep ==
  ASSUME WInv, [Next]_vars
  PROVE  Tracked'
<1>1. CASE MainInit
  BY <1>1, HostWaitStutters, TrackedApart DEF WInv, MainInit
<1>2. CASE HostStep
  <2>1. CASE HostRead
    BY <2>1, TrackedAccepts
  <2>2. CASE HostStranded \/ HostWait \/ HostPost
    <3>1. manager' = manager /\ client' = client
      BY <2>2 DEF HostStranded, HostWait, HostPost
    <3> QED BY <2>2, <3>1, HostWaitStutters, TrackedApart DEF WInv
  <2> QED BY <1>2, <2>1, <2>2 DEF HostStep
<1>3. CASE \E m \in Manager : ManagerStep(m)
  <2> PICK m \in Manager : ManagerStep(m)
    BY <1>3
  <2>1. CASE ManagerCopy(m)
    BY <2>1, TrackedTakes
  <2>2. CASE ManagerWait(m) \/ ManagerLock(m) \/ ManagerUnlock(m) \/ ManagerPost(m)
    <3>1. UNCHANGED Ring!vars
      BY <2>2, ManagerStutters, UnlockStutters DEF WInv
    <3>p. ManagerPost(m) => Parsed(m) = "resp"
      <4> HAVE ManagerPost(m)
      <4>1. m \in Engaged
        BY DEF ManagerPost, At, Engaged, Before
      <4> QED BY <4>1 DEF WInv, Whole, Parsed
    <3>2. \E here, there \in {"wait", "lock", "copy", "unlock", "post", "resp"} :
            /\ manager[m] = here /\ manager' = [manager EXCEPT ![m] = there]
            /\ here \in Before <=> there \in Before
      BY <2>2, <3>p DEF ManagerWait, ManagerLock, ManagerUnlock, ManagerPost, At, Before
    <3>3. client' = client /\ manager \in [Manager -> Before \cup {"unlock", "post", "garbled", "stuck"} \cup Phases]
      BY <2>2 DEF ManagerWait, ManagerLock, ManagerUnlock, ManagerPost, WInv, TypeOK, Control
    <3> QED BY <3>1, <3>2, <3>3, TrackedApart DEF WInv
  <2>3. CASE OpenResp(m) \/ OpenReq(m) \/ OpenNotif(m) \/ Answer(m)
    BY <2>3, TrackedOpens DEF OpenResp, OpenReq, OpenNotif, Answer
  <2>4. CASE EndSession(m)
    BY <2>4, TrackedEnds
  <2>5. CASE OpenNotifFails(m) \/ NameOverflows(m) \/ GarbledFails(m) \/ AnswerFails(m)
    BY <2>5, AwayStutters, TrackedApart DEF WInv, OpenNotifFails, NameOverflows, GarbledFails,
       AnswerFails, ServerExits
  <2>6. ~ GarbledOpens(m)
    <3>1. manager[m] # "garbled"
      BY DEF WInv, Whole, Engaged, Before
    <3> QED BY <3>1 DEF GarbledOpens, At
  <2> QED BY <2>1, <2>2, <2>3, <2>4, <2>5, <2>6 DEF ManagerStep
<1>4. CASE \E c \in Client : Connect(c) \/ ClientStep(c) \/ Crash(c)
  BY <1>4, TrackedConnects, TrackedClient
<1>5. CASE UNCHANGED vars
  BY <1>5, AwayStutters, TrackedApart DEF WInv, vars
<1> QED BY <1>1, <1>2, <1>3, <1>4, <1>5 DEF Next

-----------------------------------------------------------------------------
(* Every step keeps the types, and the slots of the queue occupied. *)

\* What a step changes of the managers and their copies.
LEMMA Moves ==
  ASSUME [Next]_vars
  PROVE  \/ manager' = manager /\ client_paths' = client_paths
         \/ \E m \in Manager :
              \/ ManagerCopy(m)
              \/ /\ client_paths' = client_paths
                 /\ \E there \in Before \cup {"garbled", "stuck"} \cup Phases :
                      /\ manager' = [manager EXCEPT ![m] = there]
                      /\ there \in {"copy", "lock"} => manager[m] \in Before
                      /\ there \notin Before => manager[m] \notin Before
                      /\ there \in {"garbled", "stuck"} =>
                           manager[m] = "garbled" \/ ~ Begins(client_paths[m].msgs)
                      /\ there = "answer" => NamesRight(client_paths[m])
                      /\ there = "connected" => manager[m] = "answer"
              \/ /\ client_paths' = client_paths
                 /\ manager[m] = "unlock" /\ manager' = [manager EXCEPT ![m] = "post"]
<1>1. CASE MainInit \/ HostStep
  BY <1>1 DEF MainInit, HostStep, HostStranded, HostWait, HostRead, HostPost
<1>2. CASE \E m \in Manager : ManagerStep(m)
  <2> PICK m \in Manager : ManagerStep(m)
    BY <1>2
  <2>1. CASE ManagerWait(m) \/ ManagerLock(m)
    BY <2>1 DEF ManagerWait, ManagerLock, At, Before, Phases
  <2>p. CASE ManagerPost(m)
    <3>1. /\ client_paths' = client_paths /\ manager[m] = "post"
          /\ manager' = [manager EXCEPT ![m] = Parsed(m)]
      BY <2>p DEF ManagerPost, At
    <3>2. \/ Parsed(m) = "resp"
          \/ Parsed(m) = "garbled" /\ ~ Begins(client_paths[m].msgs)
      BY DEF Parsed
    <3> QED BY <3>1, <3>2 DEF Before, Phases
  <2>2. CASE OpenResp(m) \/ OpenReq(m) \/ OpenNotif(m) \/ Answer(m) \/ EndSession(m)
    BY <2>2 DEF OpenResp, OpenReq, OpenNotif, Answer, EndSession, BothOpen, At, Before, Phases
  <2>g. CASE GarbledOpens(m)
    BY <2>g DEF GarbledOpens, At, Before, Phases
  <2>3. CASE ManagerUnlock(m)
    BY <2>3 DEF ManagerUnlock, At
  <2>4. CASE OpenNotifFails(m) \/ NameOverflows(m) \/ GarbledFails(m) \/ AnswerFails(m)
    BY <2>4 DEF OpenNotifFails, NameOverflows, GarbledFails, AnswerFails, ServerExits
  <2>c. CASE ManagerCopy(m)
    BY <2>c
  <2> QED BY <2>1, <2>2, <2>3, <2>4, <2>c, <2>g, <2>p DEF ManagerStep
<1>3. CASE \E c \in Client : Connect(c) \/ ClientStep(c) \/ Crash(c)
  BY <1>3 DEF Connect, ClientStep, Disconnect, SeesServerDead, Crash
<1>4. CASE UNCHANGED vars
  BY <1>4 DEF vars
<1> QED BY <1>1, <1>2, <1>3, <1>4 DEF Next

\* What a step changes of the queue.
LEMMA QueueGoesOn ==
  ASSUME RInv, [Next]_vars
  PROVE  \/ Queue' = Queue
         \/ HostRead
         \/ Queue # << >> /\ Queue' = Tail(Queue)
<1>1. CASE HostRead
  BY <1>1
<1>2. CASE \E m \in Manager : ManagerCopy(m)
  BY <1>2, TakeSays DEF RInv
<1>3. CASE MainInit \/ HostStranded \/ HostWait \/ HostPost
  BY <1>3, HostWaitStutters, RingSays DEF RInv
<1>4. ASSUME NEW m \in Manager, ManagerStep(m), ~ ManagerCopy(m)
      PROVE  Queue' = Queue
  <2>1. CASE ManagerWait(m) \/ ManagerLock(m) \/ ManagerPost(m)
    BY <2>1, ManagerStutters, RingSays DEF RInv
  <2>2. CASE ManagerUnlock(m)
    BY <2>2, UnlockStutters, RingSays DEF RInv
  <2>3. CASE OpenResp(m) \/ OpenReq(m) \/ OpenNotif(m) \/ Answer(m) \/ EndSession(m)
               \/ GarbledOpens(m)
    <3>1. \E here \in Phases \cup {"garbled"}, there \in Phases \cup {"stuck", "wait"} :
             At(m, here, there)
               /\ UNCHANGED <<fifo, host, sems, buffer, client_paths>>
      BY <2>3 DEF OpenResp, OpenReq, OpenNotif, Answer, EndSession, BothOpen, GarbledOpens,
         Phases
    <3> QED BY <3>1, OpenStutters, RingSays DEF RInv
  <2>4. CASE OpenNotifFails(m) \/ NameOverflows(m) \/ GarbledFails(m) \/ AnswerFails(m)
    BY <2>4, AwayStutters, RingSays DEF OpenNotifFails, NameOverflows, GarbledFails,
       AnswerFails, ServerExits
  <2> QED BY <1>4, <2>1, <2>2, <2>3, <2>4 DEF ManagerStep
<1>5. ASSUME NEW c \in Client, Connect(c) \/ ClientStep(c) \/ Crash(c)
      PROVE  Queue' = Queue
  <2>1. UNCHANGED <<host, sems, buffer, manager>>
    BY <1>5 DEF Connect, ClientStep, Disconnect, SeesServerDead, Crash
  <2> QED BY <2>1, QueueStays
<1>6. CASE UNCHANGED vars
  <2>1. UNCHANGED <<host, sems, buffer, manager>>
    BY <1>6 DEF vars
  <2> QED BY <2>1, QueueStays
<1> QED BY <1>1, <1>2, <1>3, <1>4, <1>5, <1>6 DEF Next, HostStep

LEMMA OccupiedStep ==
  ASSUME RInv, [Next]_vars
  PROVE  Occupied'
<1>1. /\ Queue \in Seq(Seq(Character))
      /\ DOMAIN Queue = 1 .. Len(Queue) /\ Len(Queue) \in Nat
      /\ \A k \in DOMAIN Queue : Queue[k] # << >>
  BY QueueType DEF RInv, Occupied
<1>2. CASE Queue' = Queue
  BY <1>1, <1>2 DEF Occupied
<1>3. CASE HostRead
  <2>1. /\ fifo \in Seq(Character) /\ bytes_read \in 1 .. Len(fifo) /\ Len(fifo) \in Nat
        /\ Queue' = Append(Queue, SubSeq(fifo, 1, bytes_read))
    BY <1>3, AcceptSays DEF RInv, TypeOK
  <2>2. /\ SubSeq(fifo, 1, bytes_read) \in Seq(Character)
        /\ Len(SubSeq(fifo, 1, bytes_read)) = bytes_read
    BY <2>1
  <2>3. SubSeq(fifo, 1, bytes_read) # << >>
    BY <2>1, <2>2, EmptySeq
  <2>4. /\ DOMAIN Queue' = 1 .. Len(Queue) + 1
        /\ \A k \in 1 .. Len(Queue) : Queue'[k] = Queue[k]
        /\ Queue'[Len(Queue) + 1] = SubSeq(fifo, 1, bytes_read)
    BY <1>1, <2>1, <2>2
  <2>5. ASSUME NEW k \in 1 .. Len(Queue) + 1
        PROVE  Queue'[k] # << >>
    <3>1. k \in 1 .. Len(Queue) \/ k = Len(Queue) + 1
      BY <1>1
    <3> QED BY <1>1, <2>3, <2>4, <3>1
  <2> QED BY <2>4, <2>5 DEF Occupied
<1>4. CASE Queue # << >> /\ Queue' = Tail(Queue)
  <2>1. /\ DOMAIN Queue' = 1 .. Len(Queue) - 1
        /\ \A k \in 1 .. Len(Queue) - 1 : Queue'[k] = Queue[k + 1]
    BY <1>1, <1>4
  <2>2. \A k \in 1 .. Len(Queue) - 1 : k + 1 \in DOMAIN Queue
    BY <1>1
  <2> QED BY <1>1, <2>1, <2>2 DEF Occupied
<1> QED BY <1>2, <1>3, <1>4, QueueGoesOn

\* What a step changes of the FIFO.
LEMMA FifoGoesOn ==
  ASSUME [Next]_vars
  PROVE  \/ fifo' = fifo /\ cut' = cut
         \/ HostRead
         \/ \E c \in Client : fifo' = fifo \o Message[c] /\ cut' = cut
<1>1. CASE MainInit \/ HostStep
  BY <1>1 DEF MainInit, HostStep, HostStranded, HostWait, HostPost
<1>2. CASE \E m \in Manager : ManagerStep(m)
  <2> PICK m \in Manager : ManagerStep(m)
    BY <1>2
  <2>1. CASE ManagerWait(m) \/ ManagerLock(m) \/ ManagerCopy(m) \/ ManagerUnlock(m)
               \/ ManagerPost(m)
    BY <2>1 DEF ManagerWait, ManagerLock, ManagerCopy, ManagerUnlock, ManagerPost
  <2>2. CASE OpenResp(m) \/ OpenReq(m) \/ OpenNotif(m) \/ Answer(m) \/ EndSession(m)
               \/ GarbledOpens(m)
    BY <2>2 DEF OpenResp, OpenReq, OpenNotif, Answer, EndSession, BothOpen, GarbledOpens
  <2>3. CASE OpenNotifFails(m) \/ NameOverflows(m) \/ GarbledFails(m) \/ AnswerFails(m)
    BY <2>3 DEF OpenNotifFails, NameOverflows, GarbledFails, AnswerFails, ServerExits
  <2> QED BY <2>1, <2>2, <2>3 DEF ManagerStep
<1>3. CASE \E c \in Client : Connect(c) \/ ClientStep(c) \/ Crash(c)
  BY <1>3 DEF Connect, ClientStep, Disconnect, SeesServerDead, Crash
<1>4. CASE UNCHANGED vars
  BY <1>4 DEF vars
<1> QED BY <1>1, <1>2, <1>3, <1>4 DEF Next

\* No read that ends inside a registration is undone.
LEMMA CutBefore ==
  ASSUME [Next]_vars, ~ cut'
  PROVE  ~ cut
<1>1. HostRead => (cut => cut')
  BY DEF HostRead
<1> QED BY <1>1, FifoGoesOn

\* A step after which no read has ended inside a registration keeps them whole.
LEMMA WholeStep ==
  ASSUME RInv, WInv, [Next]_vars, ~ cut'
  PROVE  Whole'
<1>1. /\ Queue \in Seq(Seq(Character)) /\ fifo \in Seq(Character) /\ Len(fifo) \in Nat
      /\ DOMAIN Queue = 1 .. Len(Queue) /\ Len(Queue) \in Nat
      /\ manager \in [Manager -> Before \cup {"unlock", "post", "garbled", "stuck"} \cup Phases]
  BY QueueType DEF RInv, TypeOK, Control
<1>2. /\ fifo = << >> \/ fifo[1][2] = 1
      /\ \A k \in DOMAIN Queue : Queue[k][1][2] = 1
      /\ \A m \in Engaged : manager[m] \notin {"garbled", "stuck"} /\ Begins(client_paths[m].msgs)
      /\ \A m \in Manager :
           manager[m] \in {"answer", "connected"} => OneMessage(client_paths[m])
  BY DEF WInv, Whole, Begins
<1>3. fifo' = << >> \/ fifo'[1][2] = 1
  <2>1. CASE HostRead
    <3> DEFINE L == bytes_read
    <3>1. L \in 1 .. Len(fifo) /\ fifo' = SubSeq(fifo, L + 1, Len(fifo))
      BY <2>1, AcceptSays DEF RInv
    <3>2. ~(L < Len(fifo) /\ fifo[L + 1][2] # 1)
      BY <2>1 DEF HostRead
    <3> HIDE DEF L
    <3>3. CASE L < Len(fifo)
      <4>1. fifo'[1] = fifo[L + 1]
        BY <1>1, <3>1, <3>3
      <4> QED BY <3>2, <3>3, <4>1
    <3>4. CASE ~(L < Len(fifo))
      BY <1>1, <3>1, <3>4
    <3> QED BY <3>3, <3>4
  <2>2. ASSUME NEW c \in Client, fifo' = fifo \o Message[c]
        PROVE  fifo'[1][2] = 1
    <3>1. Message[c] \in Seq(Character) /\ Len(Message[c]) \in Nat \ {0} /\ Message[c][1] = <<c, 1>>
      BY MessageIs, SentType
    <3>2. CASE fifo = << >>
      <4>1. fifo'[1] = Message[c][1]
        BY <1>1, <2>2, <3>1, <3>2
      <4> QED BY <3>1, <4>1
    <3>3. CASE fifo # << >>
      <4>1. Len(fifo) # 0
        BY <1>1, <3>3, EmptySeq
      <4>2. fifo'[1] = fifo[1]
        BY <1>1, <2>2, <3>1, <4>1
      <4> QED BY <1>2, <3>3, <4>2
    <3> QED BY <3>2, <3>3
  <2> QED BY <1>2, <2>1, <2>2, FifoGoesOn
<1>4. \A k \in DOMAIN Queue' : Queue'[k][1][2] = 1
  <2>1. CASE HostRead
    <3>1. /\ bytes_read \in 1 .. Len(fifo) /\ fifo # << >>
          /\ Queue' = Append(Queue, SubSeq(fifo, 1, bytes_read))
      BY <2>1, AcceptSays DEF RInv
    <3>2. SubSeq(fifo, 1, bytes_read)[1] = fifo[1]
      BY <1>1, <3>1
    <3>3. /\ DOMAIN Queue' = 1 .. Len(Queue) + 1
          /\ \A k \in 1 .. Len(Queue) : Queue'[k] = Queue[k]
          /\ Queue'[Len(Queue) + 1] = SubSeq(fifo, 1, bytes_read)
      BY <1>1, <3>1
    <3> QED BY <1>1, <1>2, <3>1, <3>2, <3>3
  <2>2. CASE Queue # << >> /\ Queue' = Tail(Queue)
    <3>1. /\ DOMAIN Queue' = 1 .. Len(Queue) - 1
          /\ \A k \in 1 .. Len(Queue) - 1 : Queue'[k] = Queue[k + 1]
      BY <1>1, <2>2
    <3>2. \A k \in 1 .. Len(Queue) - 1 : k + 1 \in DOMAIN Queue
      BY <1>1
    <3> QED BY <1>2, <3>1, <3>2
  <2> QED BY <1>2, <2>1, <2>2, QueueGoesOn
<1> DEFINE Sound(m) ==
             /\ manager'[m] \notin Before =>
                  manager'[m] \notin {"garbled", "stuck"} /\ client_paths'[m].msgs[1][2] = 1
             /\ manager'[m] \in {"answer", "connected"} => OneMessage(client_paths'[m])
<1>5. ASSUME NEW m \in Manager
      PROVE  Sound(m)
  <2>1. /\ manager[m] \notin Before =>
             manager[m] \notin {"garbled", "stuck"} /\ client_paths[m].msgs[1][2] = 1
        /\ manager[m] \in {"answer", "connected"} => OneMessage(client_paths[m])
    BY <1>2 DEF Engaged, Begins
  <2>2. CASE manager' = manager /\ client_paths' = client_paths
    BY <2>1, <2>2
  <2>3. ASSUME NEW k \in Manager, ManagerCopy(k)
        PROVE  Sound(m)
    <3>1. /\ client_paths' = [client_paths EXCEPT ![k] = BUFFER[BUFFER_READ_INDEX]]
          /\ manager' = [manager EXCEPT ![k] = "unlock"]
      BY <2>3 DEF ManagerCopy, At
    <3>2. client_paths \in [Manager -> [msgs : Seq(Character), used : Nat]]
      BY DEF RInv, TypeOK
    <3>3. Queue # << >> /\ client_paths'[k].msgs = Head(Queue)
      BY <2>3, TakeSays DEF RInv
    <3>4. 1 \in DOMAIN Queue /\ Head(Queue) = Queue[1]
      BY <1>1, <3>3
    <3>5. client_paths'[k].msgs[1][2] = 1
      BY <1>2, <3>3, <3>4
    <3>6. m # k => manager'[m] = manager[m] /\ client_paths'[m] = client_paths[m]
      BY <1>1, <3>1, <3>2
    <3>7. manager'[k] = "unlock"
      BY <1>1, <3>1
    <3> QED BY <2>1, <3>5, <3>6, <3>7
  <2>4. ASSUME NEW k \in Manager, client_paths' = client_paths,
               \/ \E there \in Before \cup {"garbled", "stuck"} \cup Phases :
                    /\ manager' = [manager EXCEPT ![k] = there]
                    /\ there \notin Before => manager[k] \notin Before
                    /\ there \in {"garbled", "stuck"} =>
                         manager[k] = "garbled" \/ ~ Begins(client_paths[k].msgs)
                    /\ there = "answer" => NamesRight(client_paths[k])
                    /\ there = "connected" => manager[k] = "answer"
               \/ manager[k] = "unlock" /\ manager' = [manager EXCEPT ![k] = "post"]
        PROVE  Sound(m)
    <3>1. CASE m # k
      <4>1. manager'[m] = manager[m]
        BY <1>1, <2>4, <3>1
      <4> QED BY <2>1, <2>4, <4>1
    <3>2. CASE m = k
      BY <1>1, <2>1, <2>4, <3>2 DEF Begins, Before, NamesRight
    <3> QED BY <3>1, <3>2
  <2> QED BY <2>2, <2>3, <2>4, Moves
<1>6. \A m \in Engaged' :
        manager'[m] \notin {"garbled", "stuck"} /\ client_paths'[m].msgs[1][2] = 1
  BY <1>5 DEF Engaged
<1>7. \A m \in Manager :
        manager'[m] \in {"answer", "connected"} => OneMessage(client_paths'[m])
  BY <1>5
<1>8. \A m \in Manager : OneMessage(client_paths[m])' <=> OneMessage(client_paths'[m])
  BY DEF OneMessage, Message
<1> QED BY <1>3, <1>4, <1>6, <1>7, <1>8 DEF Whole, Begins

\* A slot's use is a number.
LEMMA MaxType ==
  ASSUME NEW a \in Nat, NEW b \in Nat
  PROVE  Max({a, b}) \in Nat
<1>1. \E x \in {a, b} : \A y \in {a, b} : x >= y
  OBVIOUS
<1> QED BY <1>1 DEF Max

LEMMA TypeStep ==
  ASSUME RInv, [Next]_vars
  PROVE  TypeOK'
<1>1. Control'
  BY Kept DEF RInv, IInv
<1>2. /\ Control
      /\ fifo \in Seq(Character)
      /\ BUFFER \in [Slots -> [msgs : Seq(Character), used : Nat]]
      /\ client_paths \in [Manager -> [msgs : Seq(Character), used : Nat]]
      /\ \A m \in Manager : manager[m] \notin Before => client_paths[m].msgs # << >>
      /\ client \in [Client -> Phases \cup {"start", "leaving", "gone", "failed", "crashed"}]
      /\ alive \in BOOLEAN /\ cut \in BOOLEAN
  BY DEF RInv, TypeOK
<1>3. fifo' \in Seq(Character) /\ cut' \in BOOLEAN
  <2>1. CASE HostRead
    <3>1. /\ bytes_read \in 1 .. Len(fifo) /\ Len(fifo) \in Nat
          /\ fifo' = SubSeq(fifo, bytes_read + 1, Len(fifo))
      BY <2>1, AcceptSays DEF RInv
    <3>2. cut' \in BOOLEAN
      BY <2>1 DEF HostRead
    <3>3. fifo' \in Seq(Character)
      BY <1>2, <3>1
    <3> QED BY <3>2, <3>3
  <2>2. ASSUME NEW c \in Client PROVE fifo \o Message[c] \in Seq(Character)
    BY <1>2, MessageIs, ConcatProperties
  <2> QED BY <1>2, <2>1, <2>2, FifoGoesOn
<1>4. BUFFER' \in [Slots -> [msgs : Seq(Character), used : Nat]]
  <2>1. CASE HostRead
    <3>1. BUFFER_WRITE_INDEX \in Slots
      BY <1>2 DEF Control
    <3>2. bytes_read \in 1 .. Len(fifo) /\ Len(fifo) \in Nat
      BY <2>1, ReadSome DEF RInv
    <3>3. bytes_read \in Nat /\ BUFFER[BUFFER_WRITE_INDEX].used \in Nat
      BY <1>2, <3>1, <3>2
    <3>4. Max({bytes_read, BUFFER[BUFFER_WRITE_INDEX].used}) \in Nat
      BY <3>3, MaxType
    <3>5. SubSeq(fifo, 1, bytes_read) \in Seq(Character)
      BY <1>2, <3>2
    <3> QED BY <1>2, <2>1, <3>4, <3>5 DEF HostRead
  <2>2. CASE ~ HostRead
    <3>1. BUFFER' = BUFFER
      <4>1. CASE MainInit \/ HostStep
        BY <2>2, <4>1 DEF MainInit, HostStep, HostStranded, HostWait, HostPost, buffer
      <4>2. CASE \E m \in Manager : ManagerStep(m)
        <5> PICK m \in Manager : ManagerStep(m)
          BY <4>2
        <5>1. CASE \/ ManagerWait(m) \/ ManagerLock(m) \/ ManagerCopy(m) \/ ManagerUnlock(m)
                   \/ ManagerPost(m)
          BY <5>1 DEF ManagerWait, ManagerLock, ManagerCopy, ManagerUnlock, ManagerPost, buffer
        <5>2. CASE \/ OpenResp(m) \/ OpenReq(m) \/ OpenNotif(m) \/ Answer(m) \/ EndSession(m)
                   \/ GarbledOpens(m) \/ OpenNotifFails(m) \/ NameOverflows(m)
                   \/ GarbledFails(m) \/ AnswerFails(m)
          BY <5>2 DEF OpenResp, OpenReq, OpenNotif, Answer, EndSession, BothOpen, GarbledOpens,
             OpenNotifFails, NameOverflows, GarbledFails, AnswerFails, ServerExits, buffer
        <5> QED BY <5>1, <5>2 DEF ManagerStep
      <4>3. CASE \E c \in Client : Connect(c) \/ ClientStep(c) \/ Crash(c)
        BY <4>3 DEF Connect, ClientStep, Disconnect, SeesServerDead, Crash, buffer
      <4>4. CASE UNCHANGED vars
        BY <4>4 DEF vars, buffer
      <4> QED BY <4>1, <4>2, <4>3, <4>4 DEF Next
    <3> QED BY <1>2, <3>1
  <2> QED BY <2>1, <2>2
<1> DEFINE Copies ==
             /\ client_paths' \in [Manager -> [msgs : Seq(Character), used : Nat]]
             /\ \A m \in Manager : manager'[m] \notin Before => client_paths'[m].msgs # << >>
<1>5. Copies
  <2>1. CASE manager' = manager /\ client_paths' = client_paths
    BY <1>2, <2>1
  <2>2. ASSUME NEW k \in Manager, ManagerCopy(k)
        PROVE  Copies
    <3>1. /\ client_paths' = [client_paths EXCEPT ![k] = BUFFER[BUFFER_READ_INDEX]]
          /\ manager' = [manager EXCEPT ![k] = "unlock"]
      BY <2>2 DEF ManagerCopy, At
    <3>2. BUFFER[BUFFER_READ_INDEX] \in [msgs : Seq(Character), used : Nat]
      BY <1>2 DEF Control
    <3>3. Queue # << >> /\ client_paths'[k].msgs = Head(Queue)
      BY <2>2, TakeSays DEF RInv
    <3>4. client_paths'[k].msgs # << >>
      <4>1. Queue \in Seq(Seq(Character))
        BY QueueType DEF RInv
      <4>2. 1 \in DOMAIN Queue /\ Head(Queue) = Queue[1]
        BY <3>3, <4>1
      <4> QED BY <3>3, <4>2 DEF RInv, Occupied
    <3> QED BY <1>2, <3>1, <3>2, <3>4 DEF Control
  <2>3. ASSUME NEW k \in Manager, client_paths' = client_paths,
               \/ \E there \in Before \cup {"garbled", "stuck"} \cup Phases :
                    /\ manager' = [manager EXCEPT ![k] = there]
                    /\ there \notin Before => manager[k] \notin Before
               \/ manager[k] = "unlock" /\ manager' = [manager EXCEPT ![k] = "post"]
        PROVE  Copies
    BY <1>2, <2>3 DEF Control, Before
  <2> QED BY <2>1, <2>2, <2>3, Moves
<1>6. /\ client' \in [Client -> Phases \cup {"start", "leaving", "gone", "failed", "crashed"}]
      /\ alive' \in BOOLEAN
  <2>1. CASE MainInit \/ HostStep
    BY <1>2, <2>1 DEF MainInit, HostStep, HostStranded, HostWait, HostRead, HostPost
  <2>2. CASE \E m \in Manager : ManagerStep(m)
    <3> PICK m \in Manager : ManagerStep(m)
      BY <2>2
    <3>1. CASE \/ ManagerWait(m) \/ ManagerLock(m) \/ ManagerCopy(m) \/ ManagerUnlock(m)
               \/ ManagerPost(m)
      BY <1>2, <3>1 DEF ManagerWait, ManagerLock, ManagerCopy, ManagerUnlock, ManagerPost
    <3>2. CASE OpenResp(m) \/ OpenReq(m) \/ OpenNotif(m) \/ Answer(m)
      BY <1>2, <3>2 DEF OpenResp, OpenReq, OpenNotif, Answer, BothOpen, Phases
    <3>3. CASE EndSession(m)
      BY <1>2, <3>3 DEF EndSession
    <3>4. CASE OpenNotifFails(m) \/ NameOverflows(m) \/ GarbledFails(m) \/ AnswerFails(m)
      BY <1>2, <3>4 DEF OpenNotifFails, NameOverflows, GarbledFails, AnswerFails, ServerExits
    <3>5. CASE GarbledOpens(m)
      BY <1>2, <3>5 DEF GarbledOpens
    <3> QED BY <3>1, <3>2, <3>3, <3>4, <3>5 DEF ManagerStep
  <2>3. CASE \E c \in Client : Connect(c) \/ ClientStep(c) \/ Crash(c)
    BY <1>2, <2>3 DEF Connect, ClientStep, Disconnect, SeesServerDead, Crash, Phases
  <2>4. CASE UNCHANGED vars
    BY <1>2, <2>4 DEF vars
  <2> QED BY <2>1, <2>2, <2>3, <2>4 DEF Next
<1> QED BY <1>1, <1>3, <1>4, <1>5, <1>6 DEF TypeOK

-----------------------------------------------------------------------------
(* The registrations, in every state. *)

LEMMA RBegun ==
  ASSUME Init
  PROVE  RInv
<1>1. IInv
  BY Begun
<1>2. /\ main = "init" /\ host = "wait" /\ fifo = << >> /\ SEM_BUFFER_CLIENTS = 0
      /\ manager = [m \in Manager |-> "wait"]
      /\ client_paths = [m \in Manager |-> [msgs |-> << >>, used |-> 0]]
      /\ client = [c \in Client |-> "start"] /\ alive = TRUE
      /\ BUFFER = [s \in Slots |-> [msgs |-> << >>, used |-> 0]]
  BY DEF Init
<1>3. TypeOK
  <2>1. [msgs |-> << >>, used |-> 0] \in [msgs : Seq(Character), used : Nat]
    OBVIOUS
  <2>2. \A m \in Manager : manager[m] \in Before
    BY <1>2 DEF Before
  <2>3. cut \in BOOLEAN
    BY DEF Init
  <2> QED BY <1>1, <1>2, <2>1, <2>2, <2>3 DEF TypeOK, IInv
<1>4. DOMAIN Queue = {}
  <2>1. Queue = << >>
    BY <1>1, QueueBegins DEF Ring!Init
  <2> QED BY <2>1
<1>5. Engaged = {}
  BY <1>2 DEF Engaged, Before
<1>6. Occupied /\ Whole
  BY <1>2, <1>4, <1>5 DEF Occupied, Whole
<1>7. \A c : Registrations(c, Engaged) = {}
  <2>1. \A c : Of(c, fifo) = {}
    BY <1>2 DEF Of
  <2> QED BY <1>4, <1>5, <2>1, PlaceOf
<1>8. Tracked
  <2>1. \A c \in Client : client[c] = "start"
    BY <1>2
  <2> QED BY <1>7, <2>1 DEF Tracked, Phases
<1> QED BY <1>1, <1>3, <1>6, <1>8 DEF RInv, UntilCut

LEMMA RInvariance ==
  Spec => []RInv
<1>1. Init => RInv
  BY RBegun
<1>2. RInv /\ [Next]_vars => RInv'
  <2> SUFFICES ASSUME RInv, [Next]_vars PROVE RInv'
    OBVIOUS
  <2>1. IInv' /\ TypeOK' /\ Occupied'
    BY Kept, TypeStep, OccupiedStep DEF RInv
  <2>2. ~ cut' => Whole' /\ Tracked'
    <3> HAVE ~ cut'
    <3>1. WInv
      BY CutBefore, WholeUntil
    <3> QED BY <3>1, WholeStep, TrackedStep
  <2> QED BY <2>1, <2>2 DEF RInv, UntilCut
<1> QED BY <1>1, <1>2, PTL DEF Spec

\* The ring buffer, its indices, its semaphores and the mutex are a bounded
\* queue (main.c:273-313), whatever the numbers of clients and of slots, and
\* wherever a read ends: every step of the server and of its clients offers,
\* accepts or takes an entry, or leaves the queue as it is.
THEOREM RingIsQueue ==
  Spec => RefinesQueue
<1>1. Init => Ring!Init
  BY QueueBegins
<1>2. IInv /\ TypeOK /\ [Next]_vars => [Ring!Next]_(Ring!vars)
  BY QueueSteps
<1>3. RInv => IInv /\ TypeOK
  BY DEF RInv
<1> QED BY <1>1, <1>2, <1>3, RInvariance, PTL DEF Spec, RefinesQueue, Ring!Spec

\* The ring buffer's indices stay inside it, and a manager past its copy has
\* something to parse, whether reads join registrations or cut them
\* (main.c:273-313).
THEOREM TypeCorrect ==
  Spec => []TypeOK
<1>1. RInv => TypeOK
  BY DEF RInv
<1> QED BY <1>1, RInvariance, PTL

LEMMA OneRegistration ==
  ASSUME RInv
  PROVE  RegisteredOnce
<1> SUFFICES ASSUME ~ cut, NEW c \in Client, client[c] = "resp"
             PROVE  Cardinality(Registrations(c, Holding)) = 1
  BY DEF RegisteredOnce
<1>w. WInv
  BY WholeUntil
<1>1. /\ \A r, q \in Registrations(c, Engaged) : r = q
      /\ Registrations(c, Engaged) # {}
      /\ \A r \in Registrations(c, Engaged) : client[c] \in Allowed(r)
  BY <1>w, TrackedSays DEF WInv, Phases
<1>2. /\ manager \in [Manager -> Before \cup {"unlock", "post", "garbled", "stuck"} \cup Phases]
      /\ client_paths \in [Manager -> [msgs : Seq(Character), used : Nat]]
  BY DEF RInv, TypeOK, Control
<1>3. Holding \subseteq Engaged
  BY DEF Holding, Engaged, Before
<1>4. PICK r : r \in Registrations(c, Engaged)
  BY <1>1
<1>5. r \in Registrations(c, Holding)
  <2>1. ASSUME NEW m \in Engaged, NEW n \in Of(c, client_paths[m].msgs),
               r = <<"manager", m, n>>
        PROVE  m \in Holding
    <3>1. CASE manager[m] \in {"answer", "connected"}
      <4>1. n = 1
        <5>1. m \in Manager
          BY DEF Engaged
        <5> QED BY <1>w, <3>1, <5>1, ServedAlone DEF WInv
      <4>2. client[c] \in Follows(manager[m])
        BY <1>1, <1>4, <2>1, <4>1 DEF Allowed
      <4> QED BY <3>1, <4>2 DEF Follows
    <3>2. CASE manager[m] \notin {"answer", "connected"}
      <4>1. manager[m] \notin {"garbled", "stuck"}
        BY <1>w DEF WInv, Whole
      <4> QED BY <1>2, <3>2, <4>1 DEF Engaged, Holding, Before, Phases
    <3> QED BY <3>1, <3>2
  <2> QED BY <1>4, <2>1, PlaceOf
<1>6. \A q \in Registrations(c, Holding) : q = r
  <2>1. \A q \in Registrations(c, Holding) : q \in Registrations(c, Engaged)
    BY <1>3, PlaceOf
  <2> QED BY <1>1, <1>4, <2>1
<1>7. Registrations(c, Holding) = {r}
  BY <1>5, <1>6
<1> QED BY <1>7, FS_Singleton

\* A client that waits for its session has exactly one registration on the way:
\* between the FIFO, the ring and the managers none is lost or taken twice,
\* for any number of clients, whatever is merged, and also when the server exits,
\* until a read ends inside a registration (main.c:273-313).
THEOREM NoneLostNorDoubled ==
  Spec => []RegisteredOnce
<1>1. RInv => RegisteredOnce
  BY OneRegistration
<1> QED BY <1>1, RInvariance, PTL

LEMMA Paired ==
  ASSUME RInv
  PROVE  SessionsPaired
<1> SUFFICES ASSUME ~ cut
             PROVE  SessionsPaired
  BY DEF SessionsPaired
<1>w. WInv
  BY WholeUntil
<1> DEFINE Serving == {m \in Manager : manager[m] \in Phases}
<1>1. manager \in [Manager -> Before \cup {"unlock", "post", "garbled", "stuck"} \cup Phases]
  BY DEF RInv, TypeOK, Control
<1>2. Serving \subseteq Engaged
  BY DEF Engaged, Before, Phases
<1>3. \A m, n \in Serving : Served(m) = Served(n) => m = n
  <2> SUFFICES ASSUME NEW m \in Serving, NEW n \in Serving, Served(m) = Served(n)
               PROVE  m = n
    OBVIOUS
  <2>1. /\ Served(m) \in Client
        /\ <<"manager", m, 1>> \in Registrations(Served(m), Engaged)
        /\ <<"manager", n, 1>> \in Registrations(Served(m), Engaged)
    BY <1>2, <1>w, ServedPlace DEF WInv
  <2>2. <<"manager", m, 1>> = <<"manager", n, 1>>
    BY <1>w, <2>1, TrackedSays DEF WInv
  <2> QED BY <2>2
<1>4. ASSUME NEW c \in Client,
             client[c] \in {"req", "notif", "answer", "connected", "leaving"}
      PROVE  \E m \in Serving :
               /\ Served(m) = c
               /\ manager[m] = IF client[c] = "leaving" THEN "connected" ELSE client[c]
  <2>1. PICK r : r \in Registrations(c, Engaged) /\ client[c] \in Allowed(r)
    BY <1>4, <1>w, TrackedSays DEF WInv, Phases
  <2>2. r[1] = "manager" /\ r[3] = 1 /\ client[c] \in Follows(manager[r[2]])
    BY <1>4, <2>1 DEF Allowed
  <2>3. PICK m \in Engaged : r = <<"manager", m, 1>> /\ 1 \in Of(c, client_paths[m].msgs)
    BY <2>1, <2>2, PlaceOf
  <2>4. client[c] \in Follows(manager[m]) /\ Served(m) = c
    BY <2>2, <2>3 DEF Of, Served
  <2>5. manager[m] \in {"unlock", "post"} \cup Phases
    <3>1. manager[m] \notin {"garbled", "stuck"}
      BY <1>w DEF WInv, Whole
    <3> QED BY <1>1, <3>1 DEF Engaged
  <2>6. manager[m] \in Phases
    BY <1>4, <2>4, <2>5 DEF Follows
  <2>7. manager[m] = IF client[c] = "leaving" THEN "connected" ELSE client[c]
    BY <1>4, <2>4, <2>6 DEF Follows, Phases
  <2>8. m \in Serving
    BY <2>6 DEF Engaged
  <2> QED BY <2>4, <2>7, <2>8
<1> QED BY <1>3, <1>4 DEF SessionsPaired

\* The pipes of a client are opened by one manager, which is where the client
\* is: no session is split between two clients, until a read ends inside a
\* registration (main.c:321-403, api.c:64-129).
THEOREM SessionsStayPaired ==
  Spec => []SessionsPaired
<1>1. RInv => SessionsPaired
  BY Paired
<1> QED BY <1>1, RInvariance, PTL

=============================================================================
