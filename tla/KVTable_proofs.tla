--------------------------- MODULE KVTable_proofs ---------------------------
(***************************************************************************)
(* What the operators of KVTable return, for every table, key and value:   *)
(* the lemmas the proofs about KVStore cite.                               *)
(***************************************************************************)
EXTENDS KVTable, FiniteSetTheorems, FunctionTheorems, WellFoundedInduction,
        TLAPS

\* Every set of numbers has a least one: what a CHOOSE of a first position
\* or of a lowest chain rests on.
LEMMA LeastNumber ==
  ASSUME NEW T \in SUBSET Nat, T # {}
  PROVE  \E x \in T : \A y \in T : x <= y
<1>1. PICK x \in T : \A y \in T : ~ (<<y, x>> \in OpToRel(<, Nat))
  BY NatLessThanWellFounded, WFMin
<1>2. \A y \in T : x <= y
  <2> SUFFICES ASSUME NEW y \in T, y < x PROVE FALSE
    OBVIOUS
  <2>1. <<y, x>> \in Nat \X Nat
    OBVIOUS
  <2>2. <<y, x>> \in OpToRel(<, Nat)
    BY <2>1 DEF OpToRel
  <2> QED BY <2>2, <1>1
<1> QED BY <1>2

\* Positions of a sequence have a greatest one.
LEMMA GreatestNumber ==
  ASSUME NEW N \in Nat, NEW T \in SUBSET (1 .. N), T # {}
  PROVE  \E x \in T : \A y \in T : y <= x
<1> DEFINE R == {d \in 0 .. N : N - d \in T}
<1>1. R \in SUBSET Nat
  OBVIOUS
<1>2. R # {}
  <2>1. PICK y \in T : TRUE
    OBVIOUS
  <2>2. N - y \in 0 .. N /\ N - (N - y) = y
    OBVIOUS
  <2>3. N - y \in R
    BY <2>1, <2>2
  <2> QED BY <2>3
<1>3. PICK d \in R : \A e \in R : d <= e
  BY <1>1, <1>2, LeastNumber
<1>4. ASSUME NEW y \in T PROVE y <= N - d
  <2>1. N - y \in 0 .. N /\ N - (N - y) = y
    OBVIOUS
  <2>2. d <= N - y
    BY <1>3, <2>1
  <2> QED BY <1>3, <2>2
<1> QED BY <1>3, <1>4

\* A set of chains that is not empty has a highest one.
LEMMA GreatestSlot ==
  ASSUME NEW N \in Nat, NEW T \in SUBSET (0 .. N - 1), T # {}
  PROVE  \E x \in T : \A y \in T : y <= x
<1> DEFINE Shifted == {n \in 1 .. N : n - 1 \in T}
<1>1. ASSUME NEW y \in T PROVE y + 1 \in Shifted
  <2>1. y + 1 \in 1 .. N /\ (y + 1) - 1 = y
    OBVIOUS
  <2> QED BY <2>1
<1>2. Shifted # {}
  BY <1>1
<1>3. PICK m \in Shifted : \A n \in Shifted : n <= m
  BY <1>2, GreatestNumber
<1>4. ASSUME NEW y \in T PROVE y <= m - 1
  BY <1>1, <1>3, <1>4
<1> QED BY <1>3, <1>4

\* The greatest member of a set of positions is the one that CHOOSE finds.
LEMMA LastAt ==
  ASSUME NEW N \in Nat, NEW At \in SUBSET (1 .. N), NEW m \in At,
         \A l \in At : l <= m
  PROVE  (CHOOSE j \in At : \A l \in At : l <= j) = m
<1>1. ASSUME NEW j \in At, \A l \in At : l <= j PROVE j = m
  <2>1. j <= m /\ m <= j /\ j \in Int /\ m \in Int
    BY <1>1
  <2> QED BY <2>1
<1> QED BY <1>1

\* What holds first and for the next number holds for all of them.
LEMMA UpwardsTo ==
  ASSUME NEW N \in Nat, NEW S, 0 \in S,
         \A n \in 0 .. N - 1 : n \in S => n + 1 \in S
  PROVE  \A n \in 0 .. N : n \in S
<1> SUFFICES ASSUME NEW bad \in 0 .. N, bad \notin S PROVE FALSE
  OBVIOUS
<1> DEFINE T == {n \in 0 .. N : n \notin S}
<1>1. T \in SUBSET Nat /\ bad \in T
  OBVIOUS
<1>2. PICK n \in T : \A m \in T : n <= m
  <2> HIDE DEF T
  <2> QED BY <1>1, LeastNumber
<1>3. n # 0 /\ n \in 0 .. N
  OBVIOUS
<1>4. n - 1 \in 0 .. N - 1 /\ n - 1 + 1 = n /\ n - 1 \notin T
  BY <1>2, <1>3
<1>5. n - 1 \in S
  BY <1>4
<1> QED BY <1>4, <1>5

\* A set of as many members as the members of another set have images.
LEMMA SameNumber ==
  ASSUME NEW S, NEW T, IsFiniteSet(S), NEW g \in [S -> T],
         \A x, y \in S : g[x] = g[y] => x = y,
         \A z \in T : \E x \in S : g[x] = z
  PROVE  IsFiniteSet(T) /\ Cardinality(T) = Cardinality(S)
<1>1. g \in Injection(S, T)
  BY Fun_IsInj
<1>2. g \in Surjection(S, T)
  BY Fun_IsSurj
<1> QED BY <1>1, <1>2, FS_Surjection

-----------------------------------------------------------------------------
(* Chains. *)

\* A search that succeeds stops at a node of the chain with the key, the
\* first one.
LEMMA PositionFound ==
  ASSUME NEW chain \in Chain, NEW key, InChain(chain, key)
  PROVE  /\ Position(chain, key) \in DOMAIN chain
         /\ chain[Position(chain, key)].key = key
         /\ \A m \in 1 .. Position(chain, key) - 1 : chain[m].key # key
<1> DEFINE T == {n \in DOMAIN chain : chain[n].key = key}
<1>1. T \in SUBSET Nat /\ T # {}
  BY DEF InChain, Chain
<1>2. PICK n \in T : \A m \in T : n <= m
  BY <1>1, LeastNumber
<1>3. n \in DOMAIN chain /\ chain[n].key = key
  BY <1>2
<1>4. \A m \in 1 .. n - 1 : chain[m].key # key
  <2> TAKE m \in 1 .. n - 1
  <2>1. m \in DOMAIN chain /\ m < n
    BY <1>3 DEF Chain
  <2> QED BY <2>1, <1>1, <1>2
<1> QED BY <1>3, <1>4 DEF Position

\* A node pointer read from a chain is a key or the null pointer.
LEMMA NodeAtType ==
  ASSUME NEW chain \in Chain, NEW n
  PROVE  NodeAt(chain, n) \in Key \cup {NULL}
<1>1. CASE n \in DOMAIN chain
  <2>1. chain[n] \in Node
    BY <1>1 DEF Chain
  <2> QED BY <1>1, <2>1 DEF NodeAt, Node
<1>2. CASE n \notin DOMAIN chain
  BY <1>2 DEF NodeAt
<1> QED BY <1>1, <1>2

\* kvs.c: writing a pair leaves a chain.
LEMMA WriteInChainType ==
  ASSUME NEW chain \in Chain, NEW key \in Key, NEW value \in Value
  PROVE  WriteInChain(chain, key, value) \in Chain
<1>1. CASE InChain(chain, key)
  <2> DEFINE n == Position(chain, key)
  <2>1. n \in DOMAIN chain /\ chain[n] \in Node
    BY <1>1, PositionFound DEF Chain
  <2>2. [chain[n] EXCEPT !.value = value] \in Node
    BY <2>1 DEF Node
  <2>3. [chain EXCEPT ![n] = [chain[n] EXCEPT !.value = value]] \in Chain
    BY <2>1, <2>2 DEF Chain
  <2>4. WriteInChain(chain, key, value)
          = [chain EXCEPT ![n] = [chain[n] EXCEPT !.value = value]]
    BY <1>1 DEF WriteInChain
  <2> QED BY <2>3, <2>4
<1>2. CASE ~InChain(chain, key)
  BY <1>2 DEF WriteInChain, Chain, Node
<1> QED BY <1>1, <1>2

\* kvs.c: deleting a pair leaves a chain.
LEMMA DeleteInChainType ==
  ASSUME NEW chain \in Chain, NEW key \in Key
  PROVE  DeleteInChain(chain, key) \in Chain
<1>1. CASE InChain(chain, key)
  <2> DEFINE n == Position(chain, key)
  <2>1. n \in 1 .. Len(chain)
    BY <1>1, PositionFound DEF Chain
  <2> HIDE DEF n
  <2>2. SubSeq(chain, 1, n - 1) \in Chain /\ SubSeq(chain, n + 1, Len(chain)) \in Chain
    BY <2>1 DEF Chain
  <2>3. SubSeq(chain, 1, n - 1) \o SubSeq(chain, n + 1, Len(chain)) \in Chain
    BY <2>2 DEF Chain
  <2> QED BY <1>1, <2>3 DEF DeleteInChain, n
<1>2. CASE ~InChain(chain, key)
  BY <1>2 DEF DeleteInChain
<1> QED BY <1>1, <1>2

-----------------------------------------------------------------------------
(* Tables. *)

LEMMA CreateType == create_hash_table \in Table
BY DEF create_hash_table, Table, Chain

\* hash() indexes the table for every key the job files use.
LEMMA HashType == ASSUME NEW key \in Key PROVE hash(key) \in Slot
BY TableAssumption

LEMMA WriteType ==
  ASSUME NEW ht \in Table, NEW key \in Key, NEW value \in Value
  PROVE  write_pair(ht, key, value) \in Table
<1>1. ht[hash(key)] \in Chain
  BY HashType DEF Table
<1>2. WriteInChain(ht[hash(key)], key, value) \in Chain
  BY <1>1, WriteInChainType
<1> QED BY <1>2 DEF write_pair, Table

LEMMA DeleteType ==
  ASSUME NEW ht \in Table, NEW key \in Key
  PROVE  delete_pair(ht, key) \in Table
<1>1. ht[hash(key)] \in Chain
  BY HashType DEF Table
<1>2. DeleteInChain(ht[hash(key)], key) \in Chain
  BY <1>1, DeleteInChainType
<1> QED BY <1>2 DEF delete_pair, Table

LEMMA ReadType ==
  ASSUME NEW ht \in Table, NEW key \in Key
  PROVE  read_pair(ht, key) \in Value \cup {NULL}
<1> DEFINE chain == ht[hash(key)]
<1>1. chain \in Chain
  BY HashType DEF Table
<1>2. CASE InChain(chain, key)
  <2>1. chain[Position(chain, key)] \in Node
    BY <1>1, <1>2, PositionFound DEF Chain
  <2> QED BY <1>2, <2>1 DEF read_pair, Node
<1>3. CASE ~InChain(chain, key)
  BY <1>3 DEF read_pair
<1> QED BY <1>2, <1>3

-----------------------------------------------------------------------------
(* Chains that hold a key once, and only keys that hash to their slot.     *)

WellFormed(chain, s) ==
  \A m, n \in DOMAIN chain :
    /\ hash(chain[m].key) = s
    /\ chain[m].key = chain[n].key => m = n

\* write_pair to a key that is there: its node gets the value.
LEMMA WrittenInPlace ==
  ASSUME NEW chain \in Chain, NEW key, NEW value, InChain(chain, key)
  PROVE  LET written == WriteInChain(chain, key, value) IN
         /\ DOMAIN written = DOMAIN chain
         /\ \A n \in DOMAIN chain :
              /\ written[n].key = chain[n].key
              /\ written[n].value = IF n = Position(chain, key)
                                    THEN value ELSE chain[n].value
<1> DEFINE written == WriteInChain(chain, key, value)
           p == Position(chain, key)
<1>1. p \in DOMAIN chain /\ \A n \in DOMAIN chain : chain[n] \in Node
  BY PositionFound DEF Chain
<1>2. written = [chain EXCEPT ![p].value = value]
  BY DEF WriteInChain
<1> HIDE DEF written, p
<1>3. /\ DOMAIN written = DOMAIN chain
      /\ \A n \in DOMAIN chain :
           written[n] = IF n = p THEN [chain[n] EXCEPT !.value = value]
                                 ELSE chain[n]
  BY <1>1, <1>2
<1> QED BY <1>1, <1>3 DEF Node, written, p

\* write_pair to a key that is not there: a node in front of the others.
LEMMA WrittenInFront ==
  ASSUME NEW chain \in Chain, NEW key \in Key, NEW value \in Value,
         ~InChain(chain, key)
  PROVE  LET written == WriteInChain(chain, key, value) IN
         /\ DOMAIN written = 1 .. Len(chain) + 1
         /\ written[1] = [key |-> key, value |-> value]
         /\ \A n \in 2 .. Len(chain) + 1 :
              n - 1 \in DOMAIN chain /\ written[n] = chain[n - 1]
<1> DEFINE written == WriteInChain(chain, key, value)
           new == [key |-> key, value |-> value]
<1>1. written = << new >> \o chain
  BY DEF WriteInChain
<1>2. << new >> \in Seq(Node) /\ chain \in Seq(Node) /\ Len(<< new >>) = 1
  BY DEF Chain, Node
<1> HIDE DEF new, written
<1>3. Len(written) = Len(chain) + 1 /\ written \in Seq(Node)
  BY <1>1, <1>2
<1>4. Len(chain) \in Nat /\ DOMAIN chain = 1 .. Len(chain)
  BY <1>2
<1>5. DOMAIN written = 1 .. Len(chain) + 1
  BY <1>3
<1>6. written[1] = new
  <2>1. << new >>[1] = new /\ 1 \in 1 .. Len(<< new >>)
    BY <1>2
  <2> QED BY <1>1, <1>2, <1>4, <2>1
<1>7. ASSUME NEW n \in 2 .. Len(chain) + 1
      PROVE  n - 1 \in DOMAIN chain /\ written[n] = chain[n - 1]
  BY <1>1, <1>2, <1>4
<1> QED BY <1>5, <1>6, <1>7 DEF written, new

\* delete_pair: the nodes that are left, in their order.
LEMMA NodesLeft ==
  ASSUME NEW chain \in Chain, NEW key, InChain(chain, key)
  PROVE  LET left == DeleteInChain(chain, key)
             p == Position(chain, key)
         IN  /\ DOMAIN left = 1 .. Len(chain) - 1
             /\ \A n \in 1 .. p - 1 : n \in DOMAIN chain /\ left[n] = chain[n]
             /\ \A n \in p .. Len(chain) - 1 :
                  n + 1 \in DOMAIN chain /\ left[n] = chain[n + 1]
<1> DEFINE p == Position(chain, key)
           left == DeleteInChain(chain, key)
           front == SubSeq(chain, 1, p - 1)
           back == SubSeq(chain, p + 1, Len(chain))
<1>1. p \in 1 .. Len(chain) /\ Len(chain) \in Nat
  BY PositionFound DEF Chain
<1>2. left = front \o back
  BY DEF DeleteInChain
<1> HIDE DEF p, left
<1>f. /\ front \in Seq(Node) /\ Len(front) = p - 1
      /\ \A n \in 1 .. p - 1 : front[n] = chain[n]
  BY <1>1 DEF Chain
<1>b. /\ back \in Seq(Node) /\ Len(back) = Len(chain) - p
      /\ \A n \in 1 .. Len(chain) - p : back[n] = chain[p + n]
  BY <1>1 DEF Chain
<1> HIDE DEF front, back
<1>3. DOMAIN left = 1 .. Len(chain) - 1
  <2>1. left \in Seq(Node) /\ Len(left) = Len(front) + Len(back)
    <3>1. front \in Seq(Node) /\ back \in Seq(Node)
      BY <1>f, <1>b
    <3> QED BY <3>1, <1>2
  <2>2. Len(front) + Len(back) = Len(chain) - 1
    BY <1>1, <1>f, <1>b
  <2> QED BY <2>1, <2>2
<1>4. ASSUME NEW n \in 1 .. p - 1
      PROVE  n \in DOMAIN chain /\ left[n] = chain[n]
  BY <1>1, <1>f, <1>b, <1>2 DEF Chain
<1>5. ASSUME NEW n \in p .. Len(chain) - 1
      PROVE  n + 1 \in DOMAIN chain /\ left[n] = chain[n + 1]
  <2>1. n - (p - 1) \in 1 .. Len(chain) - p /\ p + (n - (p - 1)) = n + 1
    BY <1>1
  <2>0. n \in Nat /\ p <= n /\ n <= Len(chain) - 1
    BY <1>1
  <2>2. left[n] = back[n - (p - 1)]
    BY <1>1, <1>f, <1>b, <1>2, <2>0, <2>1
  <2>3. n + 1 \in DOMAIN chain
    BY <1>1 DEF Chain
  <2> QED BY <1>b, <2>1, <2>2, <2>3
<1> QED BY <1>3, <1>4, <1>5 DEF p, left

\* write_pair: a new node is put before nodes that have other keys.
LEMMA WriteKeeps ==
  ASSUME NEW chain \in Chain, NEW key \in Key, NEW value \in Value,
         WellFormed(chain, hash(key))
  PROVE  WellFormed(WriteInChain(chain, key, value), hash(key))
<1> DEFINE written == WriteInChain(chain, key, value)
<1>1. CASE InChain(chain, key)
  BY <1>1, WrittenInPlace DEF WellFormed
<1>2. CASE ~InChain(chain, key)
  <2>1. \A n \in DOMAIN chain : chain[n].key # key
    BY <1>2 DEF InChain
  <2>2. /\ DOMAIN written = 1 .. Len(chain) + 1
        /\ written[1].key = key
        /\ \A n \in 2 .. Len(chain) + 1 :
             n - 1 \in DOMAIN chain /\ written[n] = chain[n - 1]
    <3>1. written[1] = [key |-> key, value |-> value]
      BY <1>2, WrittenInFront
    <3> QED BY <1>2, <3>1, WrittenInFront
  <2> HIDE DEF written
  <2> SUFFICES ASSUME NEW m \in 1 .. Len(chain) + 1, NEW n \in 1 .. Len(chain) + 1
               PROVE  /\ hash(written[m].key) = hash(key)
                      /\ written[m].key = written[n].key => m = n
    BY <2>2 DEF WellFormed, written
  <2>3. Len(chain) \in Nat
    BY DEF Chain
  <2>4. /\ m = 1 \/ m \in 2 .. Len(chain) + 1
        /\ n = 1 \/ n \in 2 .. Len(chain) + 1
    BY <2>3
  <2>5. hash(written[m].key) = hash(key)
    BY <2>2, <2>4 DEF WellFormed
  <2>6. ASSUME written[m].key = written[n].key PROVE m = n
    <3>1. CASE m = 1 \/ n = 1
      BY <2>1, <2>2, <2>4, <2>6, <3>1
    <3>2. CASE m # 1 /\ n # 1
      <4>1. m - 1 = n - 1
        BY <2>2, <2>4, <2>6, <3>2 DEF WellFormed
      <4> QED BY <2>3, <4>1
    <3> QED BY <3>1, <3>2
  <2> QED BY <2>5, <2>6
<1> QED BY <1>1, <1>2

\* delete_pair: the nodes that are left are old nodes, none of them twice.
LEMMA DeleteKeeps ==
  ASSUME NEW chain \in Chain, NEW key \in Key,
         WellFormed(chain, hash(key))
  PROVE  WellFormed(DeleteInChain(chain, key), hash(key))
<1>1. CASE InChain(chain, key)
  <2> DEFINE p == Position(chain, key)
             left == DeleteInChain(chain, key)
             old(n) == IF n < p THEN n ELSE n + 1
  <2>1. p \in 1 .. Len(chain) /\ Len(chain) \in Nat
    BY <1>1, PositionFound DEF Chain
  <2>2. /\ DOMAIN left = 1 .. Len(chain) - 1
        /\ \A n \in 1 .. p - 1 : n \in DOMAIN chain /\ left[n] = chain[n]
        /\ \A n \in p .. Len(chain) - 1 :
             n + 1 \in DOMAIN chain /\ left[n] = chain[n + 1]
    BY <1>1, NodesLeft
  <2> HIDE DEF p, left
  <2>3. ASSUME NEW n \in 1 .. Len(chain) - 1
        PROVE  old(n) \in DOMAIN chain /\ left[n] = chain[old(n)]
    BY <2>1, <2>2
  <2>4. \A m, n \in 1 .. Len(chain) - 1 : old(m) = old(n) => m = n
    BY <2>1
  <2> HIDE DEF old
  <2>5. WellFormed(left, hash(key))
    BY <2>2, <2>3, <2>4 DEF WellFormed
  <2> QED BY <2>5 DEF left
<1>2. CASE ~InChain(chain, key)
  BY <1>2 DEF DeleteInChain
<1> QED BY <1>1, <1>2

-----------------------------------------------------------------------------
(* What is read back. *)

\* What read_pair finds in a chain.
ValueIn(chain, key) ==
  IF InChain(chain, key) THEN chain[Position(chain, key)].value ELSE NULL

LEMMA ReadIsValueIn ==
  ASSUME NEW ht, NEW key
  PROVE  read_pair(ht, key) = ValueIn(ht[hash(key)], key)
BY DEF read_pair, ValueIn

\* A search finds the node with the key: there is no other.
LEMMA NodeFound ==
  ASSUME NEW chain \in Chain, NEW s, WellFormed(chain, s), NEW n \in DOMAIN chain
  PROVE  /\ chain[n].key \in Key /\ chain[n].value \in Value
         /\ InChain(chain, chain[n].key)
         /\ Position(chain, chain[n].key) = n
         /\ ValueIn(chain, chain[n].key) = chain[n].value
<1>1. chain[n] \in Node
  BY DEF Chain
<1>2. InChain(chain, chain[n].key)
  BY DEF InChain
<1>3. Position(chain, chain[n].key) = n
  BY <1>2, PositionFound DEF WellFormed
<1> QED BY <1>1, <1>2, <1>3 DEF Node, ValueIn

\* write_pair gives the key its value and leaves the other keys alone.
LEMMA WriteReads ==
  ASSUME NEW chain \in Chain, NEW key \in Key, NEW value \in Value,
         WellFormed(chain, hash(key)), NEW k
  PROVE  ValueIn(WriteInChain(chain, key, value), k) =
           IF k = key THEN value ELSE ValueIn(chain, k)
<1> DEFINE written == WriteInChain(chain, key, value)
<1>0. written \in Chain /\ WellFormed(written, hash(key))
  BY WriteInChainType, WriteKeeps
<1>1. CASE InChain(chain, key)
  <2> DEFINE p == Position(chain, key)
  <2>1. /\ DOMAIN written = DOMAIN chain
        /\ \A n \in DOMAIN chain :
             /\ written[n].key = chain[n].key
             /\ written[n].value = IF n = p THEN value ELSE chain[n].value
    BY <1>1, WrittenInPlace
  <2>2. p \in DOMAIN chain /\ chain[p].key = key
    BY <1>1, PositionFound
  <2> HIDE DEF written, p
  <2>3. CASE InChain(chain, k)
    <3>1. PICK n \in DOMAIN chain : chain[n].key = k
      BY <2>3 DEF InChain
    <3>2. ValueIn(chain, k) = chain[n].value /\ ValueIn(written, k) = written[n].value
      BY <1>0, <2>1, <3>1, NodeFound
    <3>3. n = p <=> k = key
      BY <2>2, <3>1 DEF WellFormed
    <3> QED BY <2>1, <3>1, <3>2, <3>3 DEF written
  <2>4. CASE ~InChain(chain, k)
    <3>1. ~InChain(written, k) /\ k # key
      BY <1>1, <2>1, <2>4 DEF InChain
    <3> QED BY <2>4, <3>1 DEF ValueIn, written
  <2> QED BY <2>3, <2>4
<1>2. CASE ~InChain(chain, key)
  <2>1. /\ DOMAIN written = 1 .. Len(chain) + 1
        /\ written[1] = [key |-> key, value |-> value]
        /\ \A n \in 2 .. Len(chain) + 1 :
             n - 1 \in DOMAIN chain /\ written[n] = chain[n - 1]
    BY <1>2, WrittenInFront
  <2>2. DOMAIN chain = 1 .. Len(chain) /\ Len(chain) \in Nat
    BY DEF Chain
  <2> HIDE DEF written
  <2>3. CASE k = key
    <3>1. 1 \in DOMAIN written /\ written[1].key = key /\ written[1].value = value
      BY <2>1, <2>2
    <3> QED BY <1>0, <2>3, <3>1, NodeFound DEF written
  <2>4. CASE k # key /\ InChain(chain, k)
    <3>1. PICK n \in DOMAIN chain : chain[n].key = k
      BY <2>4 DEF InChain
    <3>2. n + 1 \in 2 .. Len(chain) + 1 /\ n + 1 - 1 = n
      BY <2>2
    <3>3. n + 1 \in DOMAIN written /\ written[n + 1] = chain[n]
      BY <2>1, <2>2, <3>2
    <3>4. ValueIn(chain, k) = chain[n].value
      BY <3>1, NodeFound
    <3>5. ValueIn(written, k) = written[n + 1].value
      BY <1>0, <3>1, <3>3, NodeFound
    <3> QED BY <2>4, <3>3, <3>4, <3>5 DEF written
  <2>5. CASE k # key /\ ~InChain(chain, k)
    <3>1. ASSUME NEW n \in DOMAIN written PROVE written[n].key # k
      <4>1. n = 1 \/ n \in 2 .. Len(chain) + 1
        BY <2>1, <2>2
      <4> QED BY <2>1, <2>5, <4>1 DEF InChain
    <3>2. ~InChain(written, k)
      BY <3>1 DEF InChain
    <3> QED BY <2>5, <3>2 DEF ValueIn, written
  <2> QED BY <2>3, <2>4, <2>5
<1> QED BY <1>1, <1>2

\* delete_pair takes the key away and leaves the other keys alone.
LEMMA DeleteReads ==
  ASSUME NEW chain \in Chain, NEW key \in Key, WellFormed(chain, hash(key)), NEW k
  PROVE  ValueIn(DeleteInChain(chain, key), k) =
           IF k = key THEN NULL ELSE ValueIn(chain, k)
<1> DEFINE left == DeleteInChain(chain, key)
<1>0. left \in Chain /\ WellFormed(left, hash(key))
  BY DeleteInChainType, DeleteKeeps
<1>1. CASE InChain(chain, key)
  <2> DEFINE p == Position(chain, key)
  <2>1. /\ DOMAIN left = 1 .. Len(chain) - 1
        /\ \A n \in 1 .. p - 1 : n \in DOMAIN chain /\ left[n] = chain[n]
        /\ \A n \in p .. Len(chain) - 1 :
             n + 1 \in DOMAIN chain /\ left[n] = chain[n + 1]
    BY <1>1, NodesLeft
  <2>2. /\ p \in DOMAIN chain /\ chain[p].key = key
        /\ DOMAIN chain = 1 .. Len(chain) /\ Len(chain) \in Nat
    BY <1>1, PositionFound DEF Chain
  <2> HIDE DEF left, p
  <2>3. ASSUME NEW n \in DOMAIN left
        PROVE  \E m \in DOMAIN chain : m # p /\ left[n] = chain[m]
    <3>1. CASE n < p
      BY <2>1, <2>2, <3>1
    <3>2. CASE ~ (n < p)
      <4>1. n \in p .. Len(chain) - 1 /\ n + 1 # p
        BY <2>1, <2>2, <3>2
      <4> QED BY <2>1, <4>1
    <3> QED BY <3>1, <3>2
  <2>4. CASE k # key /\ InChain(chain, k)
    <3>1. PICK n \in DOMAIN chain : chain[n].key = k
      BY <2>4 DEF InChain
    <3>2. n # p
      BY <2>2, <2>4, <3>1
    <3>3. \E m \in DOMAIN left : left[m] = chain[n]
      <4>1. CASE n < p
        BY <2>1, <2>2, <4>1
      <4>2. CASE ~ (n < p)
        <5>1. n - 1 \in p .. Len(chain) - 1 /\ n - 1 + 1 = n
          BY <2>2, <3>2, <4>2
        <5>2. n - 1 \in DOMAIN left
          BY <2>1, <2>2, <5>1
        <5> QED BY <2>1, <5>1, <5>2
      <4> QED BY <4>1, <4>2
    <3> QED BY <1>0, <2>4, <3>1, <3>3, NodeFound DEF left
  <2>5. CASE k = key \/ ~InChain(chain, k)
    <3>1. ASSUME NEW n \in DOMAIN left PROVE left[n].key # k
      <4>1. PICK m \in DOMAIN chain : m # p /\ left[n] = chain[m]
        BY <2>3
      <4>2. CASE k = key
        BY <2>2, <4>1, <4>2 DEF WellFormed
      <4>3. CASE ~InChain(chain, k)
        BY <4>1, <4>3 DEF InChain
      <4> QED BY <2>5, <4>2, <4>3
    <3>2. ~InChain(left, k)
      BY <3>1 DEF InChain
    <3> QED BY <2>5, <3>2 DEF ValueIn, left
  <2> QED BY <2>4, <2>5
<1>2. CASE ~InChain(chain, key)
  BY <1>2 DEF DeleteInChain, ValueIn
<1> QED BY <1>1, <1>2

-----------------------------------------------------------------------------
(* Sorting. *)

\* What insertionSort is given: records with a key.
Sortable(pairs) ==
  /\ pairs \in Seq({pairs[n] : n \in DOMAIN pairs})
  /\ \A n \in DOMAIN pairs : pairs[n].key \in Nat

\* A position is ranked within the sequence.
LEMMA RankType ==
  ASSUME NEW pairs, Sortable(pairs), NEW n \in DOMAIN pairs
  PROVE  Rank(pairs, n) \in DOMAIN pairs
<1> DEFINE D == 1 .. Len(pairs)
           below == {m \in DOMAIN pairs : Before(pairs, m, n)}
<1>1. DOMAIN pairs = D /\ Len(pairs) \in Nat
  BY DEF Sortable
<1>2. IsFiniteSet(D) /\ Cardinality(D) = Len(pairs)
  <2>1. /\ IsFiniteSet(D)
        /\ Cardinality(D) = IF 1 > Len(pairs) THEN 0 ELSE Len(pairs) - 1 + 1
    BY <1>1, FS_Interval
  <2> QED BY <1>1, <2>1
<1>3. below \in SUBSET D
  BY <1>1
<1>4. IsFiniteSet(below) /\ Cardinality(below) <= Len(pairs)
  BY <1>2, <1>3, FS_Subset
<1>5. n \in below
  BY <1>1 DEF Before, Sortable
<1>6. Cardinality(below) \in Nat /\ Cardinality(below) # 0
  BY <1>4, <1>5, FS_CardinalityType, FS_EmptySet
<1> QED BY <1>1, <1>4, <1>6 DEF Rank

\* A position that is before another one has a smaller rank.
LEMMA RankIncreases ==
  ASSUME NEW pairs, Sortable(pairs),
         NEW m \in DOMAIN pairs, NEW n \in DOMAIN pairs,
         m # n, Before(pairs, m, n)
  PROVE  Rank(pairs, m) < Rank(pairs, n)
<1> DEFINE D == 1 .. Len(pairs)
           below(l) == {k \in DOMAIN pairs : Before(pairs, k, l)}
<1>1. DOMAIN pairs = D /\ Len(pairs) \in Nat
  BY DEF Sortable
<1>2. IsFiniteSet(below(n)) /\ IsFiniteSet(below(m))
  <2>1. IsFiniteSet(D)
    BY <1>1, FS_Interval
  <2>2. below(n) \in SUBSET D /\ below(m) \in SUBSET D
    BY <1>1
  <2> QED BY <2>1, <2>2, FS_Subset
<1>3. below(m) \in SUBSET below(n)
  <2> SUFFICES ASSUME NEW k \in DOMAIN pairs, Before(pairs, k, m)
               PROVE  Before(pairs, k, n)
    OBVIOUS
  <2>1. k \in Nat /\ m \in Nat /\ n \in Nat
    BY <1>1
  <2> QED BY <2>1 DEF Before, Sortable
<1>4. n \in below(n) /\ n \notin below(m)
  <2>1. m \in Nat /\ n \in Nat
    BY <1>1
  <2> QED BY <2>1 DEF Before, Sortable
<1>5. /\ Cardinality(below(m)) <= Cardinality(below(n))
      /\ Cardinality(below(m)) # Cardinality(below(n))
  BY <1>2, <1>3, <1>4, FS_Subset
<1>6. Cardinality(below(m)) \in Nat /\ Cardinality(below(n)) \in Nat
  BY <1>2, FS_CardinalityType
<1> QED BY <1>5, <1>6 DEF Rank

\* No two positions have the same rank.
LEMMA RankOnce ==
  ASSUME NEW pairs, Sortable(pairs),
         NEW m \in DOMAIN pairs, NEW n \in DOMAIN pairs,
         Rank(pairs, m) = Rank(pairs, n)
  PROVE  m = n
<1> SUFFICES ASSUME m # n PROVE FALSE
  OBVIOUS
<1>1. DOMAIN pairs = 1 .. Len(pairs) /\ Len(pairs) \in Nat
  BY DEF Sortable
<1>2. /\ Rank(pairs, m) \in Nat /\ Rank(pairs, n) \in Nat
      /\ m \in Nat /\ n \in Nat
  BY <1>1, RankType
<1>3. Before(pairs, m, n) \/ Before(pairs, n, m)
  BY <1>2 DEF Before, Sortable
<1> QED BY <1>2, <1>3, RankIncreases

\* Every rank is taken, so the CHOOSE of insertionSort finds its element.
LEMMA RankTaken ==
  ASSUME NEW pairs, Sortable(pairs), NEW r \in DOMAIN pairs
  PROVE  \E n \in DOMAIN pairs : Rank(pairs, n) = r
<1> DEFINE D == DOMAIN pairs
           R == [n \in D |-> Rank(pairs, n)]
<1>1. D = 1 .. Len(pairs) /\ Len(pairs) \in Nat
  BY DEF Sortable
<1>2. R \in [D -> D]
  BY RankType
<1>3. \A m, n \in D : R[m] = R[n] => m = n
  BY RankOnce
<1> HIDE DEF R
<1>4. R \in Injection(D, D)
  BY <1>2, <1>3, Fun_IsInj
<1>5. IsFiniteSet(D)
  BY <1>1, FS_Interval
<1>6. R \in Surjection(D, D)
  BY <1>4, <1>5, FS_Injection
<1>7. \E n \in D : R[n] = r
  BY <1>6, Fun_SurjectionProperties
<1> QED BY <1>7 DEF R

\* insertionSort puts at r an element of the sequence that has rank r.
LEMMA SortPicks ==
  ASSUME NEW pairs, Sortable(pairs), NEW r \in DOMAIN pairs
  PROVE  \E n \in DOMAIN pairs :
           Rank(pairs, n) = r /\ insertionSort(pairs)[r] = pairs[n]
BY RankTaken DEF insertionSort, WithRank

\* insertionSort returns as many arguments, all of them among those it was
\* given.
LEMMA SortType ==
  ASSUME NEW S, NEW pairs \in Seq(S), \A p \in S : p.key \in Nat
  PROVE  /\ insertionSort(pairs) \in Seq(S)
         /\ DOMAIN insertionSort(pairs) = DOMAIN pairs
         /\ \A r \in DOMAIN pairs :
              \E n \in DOMAIN pairs : insertionSort(pairs)[r] = pairs[n]
<1>1. Sortable(pairs)
  BY DEF Sortable
<1>2. DOMAIN insertionSort(pairs) = DOMAIN pairs
  BY DEF insertionSort
<1>3. \A r \in DOMAIN pairs :
        \E n \in DOMAIN pairs : insertionSort(pairs)[r] = pairs[n]
  BY <1>1, SortPicks
<1>4. \A r \in 1 .. Len(pairs) : pairs[WithRank(pairs, r)] \in S
  BY <1>3 DEF insertionSort
<1>5. insertionSort(pairs) \in Seq(S)
  BY <1>4 DEF insertionSort
<1> QED BY <1>2, <1>3, <1>5

\* insertionSort returns its arguments in the order of their keys.
LEMMA SortAscends ==
  ASSUME NEW S, NEW pairs \in Seq(S), \A p \in S : p.key \in Nat,
         NEW q \in DOMAIN pairs, NEW r \in DOMAIN pairs, q < r
  PROVE  insertionSort(pairs)[q].key <= insertionSort(pairs)[r].key
<1>1. Sortable(pairs)
  BY DEF Sortable
<1>2. PICK m \in DOMAIN pairs :
        Rank(pairs, m) = q /\ insertionSort(pairs)[q] = pairs[m]
  BY <1>1, SortPicks
<1>3. PICK n \in DOMAIN pairs :
        Rank(pairs, n) = r /\ insertionSort(pairs)[r] = pairs[n]
  BY <1>1, SortPicks
<1>4. m # n /\ q \in Nat /\ r \in Nat
  BY <1>2, <1>3
<1>5. ~Before(pairs, n, m)
  BY <1>1, <1>2, <1>3, <1>4, RankIncreases
<1>6. pairs[m].key \in Nat /\ pairs[n].key \in Nat
  OBVIOUS
<1> QED BY <1>2, <1>3, <1>5, <1>6 DEF Before

\* insertionSort moves every element to a place of its own.
LEMMA SortPermutes ==
  ASSUME NEW S, NEW pairs \in Seq(S), \A p \in S : p.key \in Nat
  PROVE  /\ \A r \in DOMAIN pairs :
              /\ WithRank(pairs, r) \in DOMAIN pairs
              /\ insertionSort(pairs)[r] = pairs[WithRank(pairs, r)]
         /\ \A q, r \in DOMAIN pairs :
              WithRank(pairs, q) = WithRank(pairs, r) => q = r
         /\ \A n \in DOMAIN pairs :
              \E r \in DOMAIN pairs : WithRank(pairs, r) = n
<1>1. Sortable(pairs)
  BY DEF Sortable
<1>2. ASSUME NEW r \in DOMAIN pairs
      PROVE  /\ WithRank(pairs, r) \in DOMAIN pairs
             /\ Rank(pairs, WithRank(pairs, r)) = r
  BY <1>1, RankTaken DEF WithRank
<1>3. ASSUME NEW n \in DOMAIN pairs
      PROVE  \E r \in DOMAIN pairs : WithRank(pairs, r) = n
  <2>1. Rank(pairs, n) \in DOMAIN pairs
    BY <1>1, RankType
  <2>2. WithRank(pairs, Rank(pairs, n)) = n
    BY <1>1, <1>2, <2>1, RankOnce
  <2> QED BY <2>1, <2>2
<1>4. \A r \in DOMAIN pairs :
        insertionSort(pairs)[r] = pairs[WithRank(pairs, r)]
  BY DEF insertionSort
<1>5. \A q, r \in DOMAIN pairs :
        WithRank(pairs, q) = WithRank(pairs, r) => q = r
  BY <1>2
<1> QED BY <1>2, <1>3, <1>4, <1>5

\* insertionSort is stable: equal keys stay in their order.
LEMMA SortStable ==
  ASSUME NEW S, NEW pairs \in Seq(S), \A p \in S : p.key \in Nat,
         NEW q \in DOMAIN pairs, NEW r \in DOMAIN pairs,
         insertionSort(pairs)[q].key = insertionSort(pairs)[r].key
  PROVE  q < r <=> WithRank(pairs, q) < WithRank(pairs, r)
<1> DEFINE m == WithRank(pairs, q)
           n == WithRank(pairs, r)
<1>1. Sortable(pairs)
  BY DEF Sortable
<1>2. /\ m \in DOMAIN pairs /\ Rank(pairs, m) = q
      /\ n \in DOMAIN pairs /\ Rank(pairs, n) = r
  BY <1>1, RankTaken DEF WithRank
<1>3. pairs[m].key = pairs[n].key
  BY DEF insertionSort
<1> HIDE DEF m, n
<1>4. m \in Nat /\ n \in Nat /\ q \in Nat /\ r \in Nat
  BY <1>2
<1>5. ASSUME q < r PROVE m < n
  <2> SUFFICES ASSUME n <= m PROVE FALSE
    BY <1>4
  <2>1. n # m
    BY <1>2, <1>4, <1>5
  <2>2. Before(pairs, n, m)
    BY <1>3 DEF Before
  <2> QED BY <1>1, <1>2, <1>4, <1>5, <2>1, <2>2, RankIncreases
<1>6. ASSUME m < n PROVE q < r
  <2>1. Before(pairs, m, n) /\ m # n
    BY <1>3, <1>4, <1>6 DEF Before
  <2> QED BY <1>1, <1>2, <2>1, RankIncreases
<1> QED BY <1>5, <1>6 DEF m, n

=============================================================================
