--------------------------- MODULE InsertionSort ---------------------------
(***************************************************************************)
(* The loops of insertionSort (src/SOParte2/src/server/main.c), one step   *)
(* per comparison.  It moves the keys and the values of a command together *)
(* and in place; KVTable gives its result as one definition, and the two   *)
(* are compared here.                                                      *)
(***************************************************************************)
EXTENDS KVTable

CONSTANT MAX_WRITE_SIZE

ASSUME SizeAssumption == MAX_WRITE_SIZE \in Nat

\* The definitions named Slip... are what a plausible bug would make of the
\* definition that follows them; each must break a property.

VARIABLES
  given,      \* the pairs of the command, as they were parsed
  keys,
  values,
  keyTemp,
  valueTemp,
  i,
  j,
  pc          \* "outer", "inner" or "done"

vars == <<given, keys, values, keyTemp, valueTemp, i, j, pc>>

n == Len(given)

\* Arrays start at 0 in the code and at 1 here.
Init ==
  /\ \E size \in 0 .. MAX_WRITE_SIZE :
       given \in [1 .. size -> [key : Key, value : Value]]
  /\ keys = [k \in 1 .. n |-> given[k].key]
  /\ values = [k \in 1 .. n |-> given[k].value]
  /\ keyTemp = NULL
  /\ valueTemp = NULL
  /\ i = 2
  /\ j = 0
  /\ pc = "outer"

\* The element at i is set aside.
Take ==
  /\ pc = "outer" /\ i <= n
  /\ keyTemp' = keys[i]
  /\ valueTemp' = values[i]
  /\ j' = i
  /\ pc' = "inner"
  /\ UNCHANGED <<given, keys, values, i>>

SlipNotStrict == j > 1 /\ keys[j - 1] >= keyTemp

\* j > 0 && strcmp(keys[j - 1], keyTemp) > 0
MustShift == j > 1 /\ keys[j - 1] > keyTemp

SlipStays ==
  /\ pc = "inner"
  /\ MustShift
  /\ keys' = [keys EXCEPT ![j] = keys[j - 1]]
  /\ values' = [values EXCEPT ![j] = values[j - 1]]
  /\ UNCHANGED <<given, keyTemp, valueTemp, i, j, pc>>

\* The one before j goes to j.
Shift ==
  /\ pc = "inner"
  /\ MustShift
  /\ keys' = [keys EXCEPT ![j] = keys[j - 1]]
  /\ values' = [values EXCEPT ![j] = values[j - 1]]
  /\ j' = j - 1
  /\ UNCHANGED <<given, keyTemp, valueTemp, i, pc>>

SlipUnshifted ==
  /\ pc = "inner"
  /\ ~ MustShift
  /\ keys' = [keys EXCEPT ![i] = keyTemp]
  /\ values' = [values EXCEPT ![i] = valueTemp]
  /\ i' = i + 1
  /\ pc' = "outer"
  /\ UNCHANGED <<given, keyTemp, valueTemp, j>>

Insert ==
  /\ pc = "inner"
  /\ ~ MustShift
  /\ keys' = [keys EXCEPT ![j] = keyTemp]
  /\ values' = [values EXCEPT ![j] = valueTemp]
  /\ i' = i + 1
  /\ pc' = "outer"
  /\ UNCHANGED <<given, keyTemp, valueTemp, j>>

Finish ==
  /\ pc = "outer" /\ i > n
  /\ pc' = "done"
  /\ UNCHANGED <<given, keys, values, keyTemp, valueTemp, i, j>>

Done == pc = "done" /\ UNCHANGED vars

Next == Take \/ Shift \/ Insert \/ Finish \/ Done

Spec == Init /\ [][Next]_vars /\ WF_vars(Next)

-----------------------------------------------------------------------------

\* The pairs in the arrays, the one set aside being where it would go now.
Pairs ==
  [k \in 1 .. n |->
     IF pc = "inner" /\ k = j THEN [key |-> keyTemp, value |-> valueTemp]
                              ELSE [key |-> keys[k], value |-> values[k]]]

\* The loops compute what KVTable says: ascending keys, each with its value,
\* and equal keys in the order in which the command names them.
SortsStably == pc = "done" => Pairs = insertionSort(given)

\* At every step of the shifting no pair is lost, doubled or torn apart, and the
\* part before i is already sorted but for the pair set aside.
NothingLost ==
  /\ \A p \in [key : Key, value : Value] :
       Cardinality({k \in 1 .. n : Pairs[k] = p}) =
         Cardinality({k \in 1 .. n : given[k] = p})
  /\ \A k, l \in 1 .. n :
       k < l /\ l < i /\ (pc = "inner" => j \notin {k, l}) => keys[k] <= keys[l]

\* The loops end.
Terminates == <>(pc = "done")

-----------------------------------------------------------------------------
(* The inductive invariant of the loops. *)

Counters ==
  /\ given \in Seq([key : Key, value : Value])
  /\ keys \in [1 .. n -> Key] /\ values \in [1 .. n -> Value]
  /\ i \in Nat /\ i >= 2
  /\ pc \in {"outer", "inner", "done"}
  /\ pc = "inner" => i <= n /\ j \in 1 .. i
  /\ pc = "done" => i > n

Rearrangements ==
  {p \in [1 .. n -> 1 .. n] : \A k, l \in 1 .. n : p[k] = p[l] => k = l}

\* The outer loop has been at k, or is.
Visited(k) == k < i \/ (pc = "inner" /\ k = i)

\* The pair at k is the p[k]-th that was given: those visited are in order,
\* those shifted are larger than the one set aside, and the rest is untouched.
Rearranged(p) ==
  /\ \A k \in 1 .. n : Pairs[k] = given[p[k]]
  /\ \A k \in 1 .. n : ~ Visited(k) => p[k] = k
  /\ \A k, l \in 1 .. n :
       k < l /\ Visited(l) /\ (pc = "inner" => j \notin {k, l}) =>
         Before(given, p[k], p[l])
  /\ pc = "inner" =>
       /\ p[j] = i
       /\ \A l \in j + 1 .. i : given[p[l]].key > keyTemp

IInv == Counters /\ \E p \in Rearrangements : Rearranged(p)

=============================================================================
