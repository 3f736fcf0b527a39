------------------------------ MODULE KVTable ------------------------------
(***************************************************************************)
(* The hash table of the key-value store: src/SOParte2/src/server/kvs.c,   *)
(* and the sort that process_job_file applies to the arguments of every    *)
(* WRITE, READ and DELETE before it calls the engine.                      *)
(*                                                                         *)
(* A key is a natural number: its first character times CHAR_BASE, plus    *)
(* the rank of the rest of the string among the strings that start with    *)
(* that character.  So k < l is strcmp(k, l) < 0, and the first character, *)
(* the only one hash() looks at, can be recovered.                         *)
(***************************************************************************)
EXTENDS Integers, Sequences, FiniteSets

CONSTANTS
  TABLE_SIZE,  \* number of chains, 26 in kvs.h
  Key,         \* the keys the job files use
  Value,       \* the values they store
  NULL         \* the null pointer: an absent value, the end of a chain

CHAR_BASE == 256

Slot == 0 .. TABLE_SIZE - 1

FirstChar(key) == key \div CHAR_BASE

tolower(c) == IF c \in 65..90 THEN c + 32 ELSE c

\* 'a'..'z' and '0'..'9' share the slots from 0 up; anything else has no slot.
hash(key) ==
  LET firstLetter == tolower(FirstChar(key)) IN
  CASE firstLetter \in 97..122 -> firstLetter - 97
    [] firstLetter \in 48..57  -> firstLetter - 48
    [] OTHER                   -> -1

(***************************************************************************)
(* The job files use only keys that hash() gives a slot: the code indexes  *)
(* its arrays with the result of hash() without a test, so another key is  *)
(* undefined behaviour before anything modelled here happens.              *)
(***************************************************************************)
ASSUME TableAssumption ==
  /\ TABLE_SIZE \in Nat \ {0}
  /\ Key \subseteq Nat
  /\ \A k \in Key : hash(k) \in Slot
  /\ NULL \notin Value
  /\ NULL \notin Key

Node == [key : Key, value : Value]

\* A chain lists its nodes from the head, the one inserted last.
Chain == Seq(Node)

Table == [Slot -> Chain]

create_hash_table == [s \in Slot |-> << >>]

-----------------------------------------------------------------------------
(* Searching a chain. *)

InChain(chain, key) == \E n \in DOMAIN chain : chain[n].key = key

\* The first node with that key, which is where every search loop stops.
Position(chain, key) ==
  CHOOSE n \in DOMAIN chain :
    /\ chain[n].key = key
    /\ \A m \in 1 .. n - 1 : chain[m].key # key

\* The key of the node at a position, or the null pointer after the last one.
NodeAt(chain, n) == IF n \in DOMAIN chain THEN chain[n].key ELSE NULL

HeadOf(chain) == NodeAt(chain, 1)

\* keyNode->next of the node that holds key.
NextOf(chain, key) == NodeAt(chain, Position(chain, key) + 1)

-----------------------------------------------------------------------------
(* The operations of kvs.c; each works on the chain of hash(key). *)

\* The definitions named Slip... are what a plausible bug would make of the
\* definition that follows them; each must break a property.
SlipDuplicates(chain, key, value) == << [key |-> key, value |-> value] >> \o chain

WriteInChain(chain, key, value) ==
  IF InChain(chain, key)
  THEN [chain EXCEPT ![Position(chain, key)].value = value]
  ELSE << [key |-> key, value |-> value] >> \o chain

DeleteInChain(chain, key) ==
  IF InChain(chain, key)
  THEN LET n == Position(chain, key) IN
       SubSeq(chain, 1, n - 1) \o SubSeq(chain, n + 1, Len(chain))
  ELSE chain

write_pair(ht, key, value) ==
  [ht EXCEPT ![hash(key)] = WriteInChain(@, key, value)]

read_pair(ht, key) ==
  LET chain == ht[hash(key)] IN
  IF InChain(chain, key) THEN chain[Position(chain, key)].value ELSE NULL

delete_pair(ht, key) ==
  [ht EXCEPT ![hash(key)] = DeleteInChain(@, key)]

-----------------------------------------------------------------------------
(***************************************************************************)
(* insertionSort(keys, values, n): ascending by key and stable.  The       *)
(* sorting loops are in module InsertionSort, which is checked against     *)
(* this definition: an element ends at its rank, the number of elements    *)
(* that are smaller or, being equal, do not come after it.                 *)
(***************************************************************************)
SlipUnstable(pairs, m, n) ==
  \/ pairs[m].key < pairs[n].key
  \/ pairs[m].key = pairs[n].key /\ m >= n

Before(pairs, m, n) ==
  \/ pairs[m].key < pairs[n].key
  \/ pairs[m].key = pairs[n].key /\ m <= n

Rank(pairs, n) == Cardinality({m \in DOMAIN pairs : Before(pairs, m, n)})

WithRank(pairs, r) == CHOOSE n \in DOMAIN pairs : Rank(pairs, n) = r

\* The keys are moved and their values forgotten.
SlipKeysOnly(pairs) ==
  [r \in DOMAIN pairs |-> [pairs[r] EXCEPT !.key = pairs[WithRank(pairs, r)].key]]

insertionSort(pairs) == [r \in DOMAIN pairs |-> pairs[WithRank(pairs, r)]]

=============================================================================
