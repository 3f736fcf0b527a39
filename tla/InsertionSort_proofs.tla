------------------------ MODULE InsertionSort_proofs ------------------------
(***************************************************************************)
(* The loops of insertionSort compute the order that KVTable defines, for  *)
(* any number of pairs, any keys and any values.                           *)
(***************************************************************************)
EXTENDS InsertionSort, KVTable_proofs

Pair == [key : Key, value : Value]

LEMMA GivenPairs ==
  ASSUME Counters
  PROVE  /\ n \in Nat
         /\ DOMAIN given = 1 .. n
         /\ \A k \in 1 .. n : given[k] \in Pair /\ given[k].key \in Nat
<1>1. given \in Seq(Pair)
  BY DEF Counters, Pair
<1>2. n \in Nat /\ DOMAIN given = 1 .. n
  BY <1>1 DEF n
<1>3. \A k \in 1 .. n : given[k] \in Pair
  BY <1>1 DEF n
<1>4. \A k \in 1 .. n : given[k].key \in Nat
  BY <1>3, TableAssumption DEF Pair
<1> QED BY <1>2, <1>3, <1>4

\* A pair is its key and its value.
LEMMA SamePair ==
  ASSUME NEW pair \in Pair, NEW key, NEW value
  PROVE  [key |-> key, value |-> value] = pair <=> key = pair.key /\ value = pair.value
BY DEF Pair

\* Where the pairs are.
LEMMA PairsAre ==
  ASSUME Counters, NEW p \in Rearrangements, Rearranged(p)
  PROVE  /\ \A k \in 1 .. n : p[k] \in 1 .. n /\ given[p[k]] \in Pair
         /\ \A k \in 1 .. n : ~ (pc = "inner" /\ k = j) =>
              keys[k] = given[p[k]].key /\ values[k] = given[p[k]].value
         /\ pc = "inner" =>
              keyTemp = given[i].key /\ valueTemp = given[i].value
<1>1. \A k \in 1 .. n : p[k] \in 1 .. n /\ given[p[k]] \in Pair
  BY GivenPairs DEF Rearrangements
<1>2. \A k \in 1 .. n : Pairs[k] = given[p[k]]
  BY DEF Rearranged
<1>3. \A k \in 1 .. n : ~ (pc = "inner" /\ k = j) =>
        keys[k] = given[p[k]].key /\ values[k] = given[p[k]].value
  <2> SUFFICES ASSUME NEW k \in 1 .. n, ~ (pc = "inner" /\ k = j)
               PROVE  keys[k] = given[p[k]].key /\ values[k] = given[p[k]].value
    OBVIOUS
  <2>1. Pairs[k] = [key |-> keys[k], value |-> values[k]]
    BY DEF Pairs
  <2> QED BY <1>1, <1>2, <2>1, SamePair
<1>4. pc = "inner" => keyTemp = given[i].key /\ valueTemp = given[i].value
  <2> HAVE pc = "inner"
  <2>1. j \in 1 .. n /\ p[j] = i
    BY GivenPairs DEF Counters, Rearranged
  <2>2. Pairs[j] = [key |-> keyTemp, value |-> valueTemp]
    BY <2>1 DEF Pairs
  <2>3. given[i] \in Pair /\ Pairs[j] = given[i]
    BY <1>1, <1>2, <2>1
  <2> QED BY <2>2, <2>3, SamePair
<1> QED BY <1>1, <1>3, <1>4

\* What is untouched is not among what is visited.
LEMMA VisitedBelow ==
  ASSUME Counters, pc = "inner", NEW p \in Rearrangements, Rearranged(p),
         NEW k \in 1 .. i
  PROVE  p[k] \in 1 .. i
<1>1. n \in Nat /\ i \in Nat /\ i <= n /\ k \in 1 .. n /\ p[k] \in 1 .. n
  BY GivenPairs DEF Counters, Rearrangements
<1>2. \A l \in 1 .. n : l > i => p[l] = l
  BY <1>1 DEF Rearranged, Visited
<1>3. SUFFICES ASSUME p[k] > i PROVE FALSE
  BY <1>1
<1>4. p[p[k]] = p[k]
  BY <1>1, <1>2, <1>3
<1>5. p[k] = k
  BY <1>1, <1>4 DEF Rearrangements
<1> QED BY <1>1, <1>3, <1>5

-----------------------------------------------------------------------------
(* Every step keeps the invariant. *)

LEMMA TakeKeeps ==
  ASSUME IInv, Take
  PROVE  IInv'
<1>1. /\ Counters /\ pc = "outer" /\ i <= n /\ keyTemp' = keys[i] /\ valueTemp' = values[i]
      /\ j' = i /\ pc' = "inner" /\ given' = given /\ keys' = keys /\ values' = values
      /\ i' = i /\ n' = n
  BY DEF IInv, Take, n
<1>2. PICK p \in Rearrangements : Rearranged(p)
  BY DEF IInv
<1>3. n \in Nat /\ i \in Nat /\ i >= 2 /\ i \in 1 .. n
  BY <1>1, GivenPairs DEF Counters
<1>4. Counters'
  BY <1>1, <1>3 DEF Counters
<1>5. p \in Rearrangements'
  BY <1>1, <1>2 DEF Rearrangements
<1>6. \A k \in 1 .. n : Pairs'[k] = Pairs[k]
  BY <1>1 DEF Pairs
<1>7. p[i] = i
  BY <1>1, <1>2, <1>3 DEF Rearranged, Visited
<1>8. Rearranged(p)'
  <2>1. \A k \in 1 .. n' : Pairs'[k] = given'[p[k]]
    BY <1>1, <1>2, <1>6 DEF Rearranged
  <2>2. \A k \in 1 .. n' : ~ Visited(k)' => p[k] = k
    BY <1>1, <1>2 DEF Rearranged, Visited
  <2>3. \A k, l \in 1 .. n' :
          k < l /\ Visited(l)' /\ (pc' = "inner" => j' \notin {k, l}) =>
            Before(given', p[k], p[l])
    BY <1>1, <1>2 DEF Rearranged, Visited
  <2>4. p[j'] = i' /\ \A l \in j' + 1 .. i' : given'[p[l]].key > keyTemp'
    BY <1>1, <1>3, <1>7
  <2> QED BY <2>1, <2>2, <2>3, <2>4 DEF Rearranged
<1> QED BY <1>4, <1>5, <1>8 DEF IInv

LEMMA ShiftKeeps ==
  ASSUME IInv, Shift
  PROVE  IInv'
<1>1. /\ Counters /\ pc = "inner" /\ pc' = pc /\ j > 1 /\ keys[j - 1] > keyTemp
      /\ keys' = [keys EXCEPT ![j] = keys[j - 1]]
      /\ values' = [values EXCEPT ![j] = values[j - 1]]
      /\ j' = j - 1 /\ given' = given /\ keyTemp' = keyTemp /\ valueTemp' = valueTemp
      /\ i' = i /\ n' = n
  BY DEF IInv, Shift, MustShift, n
<1>2. PICK p \in Rearrangements : Rearranged(p)
  BY DEF IInv
<1>3. /\ n \in Nat /\ i \in Nat /\ i <= n /\ j \in 2 .. i /\ j - 1 \in 1 .. n /\ j \in 1 .. n
      /\ keys \in [1 .. n -> Key] /\ values \in [1 .. n -> Value]
  BY <1>1, GivenPairs DEF Counters
<1>4. Counters'
  <2>1. keys' \in [1 .. n -> Key] /\ values' \in [1 .. n -> Value]
    BY <1>1, <1>3
  <2>2. j' \in 1 .. i
    BY <1>1, <1>3
  <2> QED BY <1>1, <1>3, <2>1, <2>2 DEF Counters
<1>p. p \in [1 .. n -> 1 .. n] /\ \A k, l \in 1 .. n : p[k] = p[l] => k = l
  BY <1>2 DEF Rearrangements
<1>5. PICK q : q = [p EXCEPT ![j] = p[j - 1], ![j - 1] = p[j]]
  OBVIOUS
<1>6. /\ q \in [1 .. n -> 1 .. n] /\ q[j] = p[j - 1] /\ q[j - 1] = p[j]
      /\ \A k \in 1 .. n : k # j /\ k # j - 1 => q[k] = p[k]
  BY <1>3, <1>5, <1>p
<1>7. q \in Rearrangements'
  <2>1. \A k, l \in 1 .. n : q[k] = q[l] => k = l
    BY <1>3, <1>6, <1>p
  <2> QED BY <1>1, <1>6, <2>1 DEF Rearrangements
<1>8. \A k \in 1 .. n : Pairs[k] = given[p[k]]
  BY <1>2 DEF Rearranged
<1>9. \A k \in 1 .. n : Visited(k)' <=> k <= i
  BY <1>1, <1>3 DEF Visited
<1>a. \A k \in 1 .. n : Visited(k) <=> k <= i
  BY <1>1, <1>3 DEF Visited
<1>b. \A k \in 1 .. n : Pairs'[k] = given[q[k]]
  <2> SUFFICES ASSUME NEW k \in 1 .. n PROVE Pairs'[k] = given[q[k]]
    OBVIOUS
  <2>1. Pairs'[k] = IF k = j - 1 THEN [key |-> keyTemp, value |-> valueTemp]
                                 ELSE [key |-> keys'[k], value |-> values'[k]]
    BY <1>1 DEF Pairs
  <2>2. CASE k = j - 1
    <3>1. Pairs[j] = [key |-> keyTemp, value |-> valueTemp]
      BY <1>1, <1>3 DEF Pairs
    <3> QED BY <1>3, <1>6, <1>8, <2>1, <2>2, <3>1
  <2>3. CASE k = j
    <3>1. Pairs[j - 1] = [key |-> keys[j - 1], value |-> values[j - 1]]
      BY <1>1, <1>3 DEF Pairs
    <3>2. keys'[j] = keys[j - 1] /\ values'[j] = values[j - 1] /\ j # j - 1
      BY <1>1, <1>3
    <3> QED BY <1>3, <1>6, <1>8, <2>1, <2>3, <3>1, <3>2
  <2>4. CASE k # j /\ k # j - 1
    <3>1. Pairs[k] = [key |-> keys[k], value |-> values[k]]
      BY <1>1, <2>4 DEF Pairs
    <3>2. keys'[k] = keys[k] /\ values'[k] = values[k]
      BY <1>1, <1>3, <2>4
    <3> QED BY <1>6, <1>8, <2>1, <2>4, <3>1, <3>2
  <2> QED BY <2>2, <2>3, <2>4
<1>c. \A k, l \in 1 .. n : k < l /\ l <= i /\ j # k /\ j # l => Before(given, p[k], p[l])
  BY <1>1, <1>2, <1>a DEF Rearranged
<1>d. \A k, l \in 1 .. n : k < l /\ l <= i /\ j - 1 # k /\ j - 1 # l =>
        Before(given, q[k], q[l])
  <2> SUFFICES ASSUME NEW k \in 1 .. n, NEW l \in 1 .. n, k < l, l <= i, j - 1 # k, j - 1 # l
               PROVE  Before(given, q[k], q[l])
    OBVIOUS
  <2>1. CASE k = j
    <3>1. Before(given, p[j - 1], p[l])
      BY <1>3, <1>c, <2>1
    <3>2. q[k] = p[j - 1] /\ q[l] = p[l]
      BY <1>6, <2>1
    <3> QED BY <3>1, <3>2
  <2>2. CASE l = j
    <3>1. k < j - 1 /\ j - 1 <= i
      BY <1>3, <2>2
    <3>2. Before(given, p[k], p[j - 1])
      BY <1>3, <1>c, <3>1
    <3>3. q[l] = p[j - 1] /\ q[k] = p[k]
      BY <1>3, <1>6, <2>2, <3>1
    <3> QED BY <3>2, <3>3
  <2>3. CASE k # j /\ l # j
    BY <1>6, <1>c, <2>3
  <2> QED BY <2>1, <2>2, <2>3
<1>e. \A l \in j .. i : given[q[l]].key > keyTemp
  <2> SUFFICES ASSUME NEW l \in j .. i PROVE given[q[l]].key > keyTemp
    OBVIOUS
  <2>1. CASE l = j
    <3>1. keys[j - 1] = given[p[j - 1]].key
      BY <1>1, <1>2, <1>3, PairsAre
    <3> QED BY <1>1, <1>6, <2>1, <3>1
  <2>2. CASE l # j
    <3>1. l \in j + 1 .. i /\ l \in 1 .. n /\ l # j - 1
      BY <1>3, <2>2
    <3>2. given[p[l]].key > keyTemp
      BY <1>1, <1>2, <3>1 DEF Rearranged
    <3> QED BY <1>6, <2>2, <3>1, <3>2
  <2> QED BY <2>1, <2>2
<1>f. Rearranged(q)'
  <2>1. \A k \in 1 .. n' : Pairs'[k] = given'[q[k]]
    BY <1>1, <1>b
  <2>2. \A k \in 1 .. n' : ~ Visited(k)' => q[k] = k
    <3>1. \A k \in 1 .. n : k > i => p[k] = k
      BY <1>2, <1>3, <1>a DEF Rearranged
    <3>2. \A k \in 1 .. n : k > i => k # j /\ k # j - 1
      BY <1>3
    <3>3. \A k \in 1 .. n : k > i => q[k] = k
      BY <1>6, <3>1, <3>2
    <3>4. \A k \in 1 .. n : ~ (k <= i) => k > i
      BY <1>3
    <3> QED BY <1>1, <1>9, <3>3, <3>4
  <2>3. \A k, l \in 1 .. n' :
          k < l /\ Visited(l)' /\ (pc' = "inner" => j' \notin {k, l}) =>
            Before(given', q[k], q[l])
    BY <1>1, <1>9, <1>d
  <2>4. q[j'] = i' /\ \A l \in j' + 1 .. i' : given'[q[l]].key > keyTemp'
    <3>1. p[j] = i
      BY <1>1, <1>2 DEF Rearranged
    <3>2. j - 1 + 1 = j
      BY <1>3
    <3> QED BY <1>1, <1>6, <1>e, <3>1, <3>2
  <2> QED BY <2>1, <2>2, <2>3, <2>4 DEF Rearranged
<1> QED BY <1>4, <1>7, <1>f DEF IInv

LEMMA InsertKeeps ==
  ASSUME IInv, Insert
  PROVE  IInv'
<1>1. /\ Counters /\ pc = "inner" /\ pc' = "outer" /\ ~ (j > 1 /\ keys[j - 1] > keyTemp)
      /\ keys' = [keys EXCEPT ![j] = keyTemp]
      /\ values' = [values EXCEPT ![j] = valueTemp]
      /\ i' = i + 1 /\ given' = given /\ j' = j
      /\ n' = n
  BY DEF IInv, Insert, MustShift, n
<1>2. PICK p \in Rearrangements : Rearranged(p)
  BY DEF IInv
<1>3. /\ n \in Nat /\ i \in Nat /\ i >= 2 /\ i <= n /\ i \in 1 .. n /\ j \in 1 .. i /\ j \in 1 .. n
      /\ keys \in [1 .. n -> Key] /\ values \in [1 .. n -> Value]
  BY <1>1, GivenPairs DEF Counters
<1>4. given[i] \in Pair /\ keyTemp = given[i].key /\ valueTemp = given[i].value
  BY <1>1, <1>2, <1>3, GivenPairs, PairsAre
<1>5. Counters'
  <2>1. keys' \in [1 .. n -> Key] /\ values' \in [1 .. n -> Value]
    BY <1>1, <1>3, <1>4 DEF Pair
  <2>2. i + 1 \in Nat /\ i + 1 >= 2
    BY <1>3
  <2> QED BY <1>1, <2>1, <2>2 DEF Counters
<1>6. p \in Rearrangements'
  BY <1>1, <1>2 DEF Rearrangements
<1>7. \A k \in 1 .. n : Pairs'[k] = Pairs[k]
  <2> SUFFICES ASSUME NEW k \in 1 .. n PROVE Pairs'[k] = Pairs[k]
    OBVIOUS
  <2>1. Pairs'[k] = [key |-> keys'[k], value |-> values'[k]]
    BY <1>1 DEF Pairs
  <2>2. CASE k = j
    <3>1. keys'[k] = keyTemp /\ values'[k] = valueTemp
      BY <1>1, <1>3, <2>2
    <3> QED BY <1>1, <2>1, <2>2, <3>1 DEF Pairs
  <2>3. CASE k # j
    <3>1. keys'[k] = keys[k] /\ values'[k] = values[k]
      BY <1>1, <1>3, <2>3
    <3> QED BY <1>1, <2>1, <2>3, <3>1 DEF Pairs
  <2> QED BY <2>2, <2>3
<1>8. /\ \A k \in 1 .. n : Visited(k) <=> k <= i
      /\ \A k \in 1 .. n : Visited(k)' <=> k <= i
  BY <1>1, <1>3 DEF Visited
<1>9. \A k, l \in 1 .. n : k < l /\ l <= i /\ j # k /\ j # l => Before(given, p[k], p[l])
  BY <1>1, <1>2, <1>8 DEF Rearranged
<1>a. p[j] = i /\ \A l \in j + 1 .. i : given[p[l]].key > keyTemp
  BY <1>1, <1>2 DEF Rearranged
<1>b. \A k \in 1 .. n : given[p[k]].key \in Nat /\ p[k] \in 1 .. n
  BY <1>2, GivenPairs DEF Rearrangements, IInv
<1>c. \A k \in 1 .. n : k < j => Before(given, p[k], p[j])
  <2> SUFFICES ASSUME NEW k \in 1 .. n, k < j PROVE Before(given, p[k], p[j])
    OBVIOUS
  <2>1. j - 1 \in 1 .. n /\ j > 1 /\ j - 1 # j
    BY <1>3
  <2>2. keys[j - 1] = given[p[j - 1]].key
    BY <1>1, <1>2, <2>1, PairsAre
  <2>3. given[p[j - 1]].key <= given[i].key
    <3>1. given[p[j - 1]].key \in Nat /\ given[i].key \in Nat
      BY <1>1, <1>3, <1>b, <2>1, GivenPairs
    <3> QED BY <1>1, <1>4, <2>1, <2>2, <3>1
  <2>4. given[p[k]].key <= given[p[j - 1]].key
    <3>1. CASE k = j - 1
      BY <1>b, <3>1
    <3>2. CASE k # j - 1
      <4>1. k < j - 1 /\ j - 1 <= i
        BY <1>3, <3>2
      <4>2. Before(given, p[k], p[j - 1])
        BY <1>9, <2>1, <4>1
      <4> QED BY <1>b, <2>1, <4>2 DEF Before
    <3> QED BY <3>1, <3>2
  <2>5. p[k] <= i
    <3>1. k \in 1 .. i
      BY <1>3
    <3>2. p[k] \in 1 .. i
      BY <1>1, <1>2, <3>1, VisitedBelow
    <3> QED BY <1>3, <3>2
  <2>6. given[p[k]].key \in Nat /\ given[p[j - 1]].key \in Nat /\ given[i].key \in Nat
    BY <1>1, <1>3, <1>b, <2>1, GivenPairs
  <2> QED BY <1>a, <2>3, <2>4, <2>5, <2>6 DEF Before
<1>d. \A l \in 1 .. n : j < l /\ l <= i => Before(given, p[j], p[l])
  <2> SUFFICES ASSUME NEW l \in 1 .. n, j < l, l <= i PROVE Before(given, p[j], p[l])
    OBVIOUS
  <2>1. l \in j + 1 .. i
    BY <1>3
  <2>2. given[p[l]].key > given[i].key
    BY <1>4, <1>a, <2>1
  <2>3. given[p[l]].key \in Nat /\ given[i].key \in Nat
    BY <1>1, <1>3, <1>b, GivenPairs
  <2> QED BY <1>a, <2>2, <2>3 DEF Before
<1>e. Rearranged(p)'
  <2>1. \A k \in 1 .. n' : Pairs'[k] = given'[p[k]]
    BY <1>1, <1>2, <1>7 DEF Rearranged
  <2>2. \A k \in 1 .. n' : ~ Visited(k)' => p[k] = k
    BY <1>1, <1>2, <1>8 DEF Rearranged
  <2>3. \A k, l \in 1 .. n : k < l /\ l <= i => Before(given, p[k], p[l])
    BY <1>9, <1>c, <1>d
  <2>4. \A k, l \in 1 .. n' :
          k < l /\ Visited(l)' /\ (pc' = "inner" => j' \notin {k, l}) =>
            Before(given', p[k], p[l])
    BY <1>1, <1>8, <2>3
  <2> QED BY <1>1, <2>1, <2>2, <2>4 DEF Rearranged
<1> QED BY <1>5, <1>6, <1>e DEF IInv

LEMMA Begun ==
  ASSUME Init
  PROVE  IInv
<1>1. PICK size \in 0 .. MAX_WRITE_SIZE : given \in [1 .. size -> Pair]
  BY DEF Init, Pair
<1>2. size \in Nat
  BY SizeAssumption
<1>3. given \in Seq(Pair) /\ Len(given) = size
  BY <1>1, <1>2
<1>4. n = size /\ n \in Nat
  BY <1>2, <1>3 DEF n
<1>5. /\ keys = [k \in 1 .. n |-> given[k].key] /\ values = [k \in 1 .. n |-> given[k].value]
      /\ i = 2 /\ j = 0 /\ pc = "outer"
  BY DEF Init
<1>6. \A k \in 1 .. n : given[k] \in Pair
  BY <1>1, <1>4
<1>7. keys \in [1 .. n -> Key] /\ values \in [1 .. n -> Value]
  BY <1>5, <1>6 DEF Pair
<1>8. Counters
  BY <1>3, <1>5, <1>7 DEF Counters, Pair
<1>9. PICK p : p = [k \in 1 .. n |-> k]
  OBVIOUS
<1>a. p \in Rearrangements
  BY <1>9 DEF Rearrangements
<1>b. \A k \in 1 .. n : Pairs[k] = given[p[k]]
  <2> SUFFICES ASSUME NEW k \in 1 .. n PROVE Pairs[k] = given[k]
    BY <1>9
  <2>1. Pairs[k] = [key |-> keys[k], value |-> values[k]]
    BY <1>5 DEF Pairs
  <2>2. keys[k] = given[k].key /\ values[k] = given[k].value
    BY <1>5
  <2> QED BY <1>6, <2>1, <2>2, SamePair
<1>c. \A k, l \in 1 .. n : ~ (k < l /\ Visited(l))
  BY <1>4, <1>5 DEF Visited
<1>d. Rearranged(p)
  BY <1>5, <1>9, <1>b, <1>c DEF Rearranged
<1> QED BY <1>8, <1>a, <1>d DEF IInv

LEMMA FinishKeeps ==
  ASSUME IInv, Finish
  PROVE  IInv'
<1>1. /\ Counters /\ pc = "outer" /\ pc' = "done" /\ i > n /\ i' = i /\ j' = j
      /\ given' = given /\ keys' = keys /\ values' = values
      /\ keyTemp' = keyTemp /\ valueTemp' = valueTemp /\ n' = n
  BY DEF IInv, Finish, n
<1>2. PICK p \in Rearrangements : Rearranged(p)
  BY DEF IInv
<1>3. Counters' /\ p \in Rearrangements'
  BY <1>1, <1>2 DEF Counters, Rearrangements
<1>4. \A k \in 1 .. n : Pairs'[k] = Pairs[k]
  BY <1>1 DEF Pairs
<1>5. \A k : Visited(k)' <=> Visited(k)
  BY <1>1 DEF Visited
<1>6. Rearranged(p)'
  BY <1>1, <1>2, <1>4, <1>5 DEF Rearranged
<1> QED BY <1>3, <1>6 DEF IInv

LEMMA Kept ==
  ASSUME IInv, [Next]_vars
  PROVE  IInv'
<1>1. CASE UNCHANGED vars
  <2>1. /\ given' = given /\ keys' = keys /\ values' = values /\ keyTemp' = keyTemp
        /\ valueTemp' = valueTemp /\ i' = i /\ j' = j /\ pc' = pc /\ n' = n
    BY <1>1 DEF vars, n
  <2>2. Counters' /\ Rearrangements' = Rearrangements
    BY <2>1 DEF IInv, Counters, Rearrangements
  <2>3. Pairs' = Pairs
    BY <2>1 DEF Pairs
  <2>4. PICK p \in Rearrangements : Rearranged(p)
    BY DEF IInv
  <2>5. Rearranged(p)'
    BY <2>1, <2>3, <2>4 DEF Rearranged, Visited
  <2> QED BY <2>2, <2>4, <2>5 DEF IInv
<1>2. CASE Next
  BY <1>1, <1>2, TakeKeeps, ShiftKeeps, InsertKeeps, FinishKeeps DEF Next, Done
<1> QED BY <1>1, <1>2

LEMMA Invariance ==
  Spec => []IInv
<1>1. Init => IInv
  BY Begun
<1>2. IInv /\ [Next]_vars => IInv'
  BY Kept
<1> QED BY <1>1, <1>2, PTL DEF Spec

-----------------------------------------------------------------------------
(* What the loops compute. *)

\* A list of 1 .. N in ascending order is the list of 1 .. N.
LEMMA AscendingIsIdentity ==
  ASSUME NEW N \in Nat, NEW f \in [1 .. N -> 1 .. N],
         \A k, l \in 1 .. N : k < l => f[k] < f[l]
  PROVE  \A k \in 1 .. N : f[k] = k
<1>1. \A k \in 1 .. N : f[k] >= k
  <2> DEFINE T == {k \in 1 .. N : f[k] < k}
  <2> SUFFICES ASSUME T # {} PROVE FALSE
    OBVIOUS
  <2>1. PICK k \in T : \A l \in T : k <= l
    <3>1. T \in SUBSET Nat
      OBVIOUS
    <3> QED BY <3>1, LeastNumber
  <2>2. k \in 1 .. N /\ f[k] \in 1 .. N /\ f[k] < k
    BY <2>1
  <2>3. k - 1 \in 1 .. N /\ f[k - 1] \in 1 .. N /\ f[k - 1] < f[k]
    BY <2>2
  <2>4. k - 1 \in T
    BY <2>2, <2>3
  <2> QED BY <2>1, <2>2, <2>4
<1>2. \A k \in 1 .. N : f[k] <= k
  <2> DEFINE T == {m \in 1 .. N : f[N + 1 - m] > N + 1 - m}
  <2> SUFFICES ASSUME T # {} PROVE FALSE
    <3>1. \A k \in 1 .. N : ~ (f[k] > k) => f[k] <= k
      OBVIOUS
    <3>2. \A k \in 1 .. N : N + 1 - k \in 1 .. N /\ N + 1 - (N + 1 - k) = k
      OBVIOUS
    <3>3. \A k \in 1 .. N : f[k] > k => N + 1 - k \in T
      BY <3>2
    <3> QED BY <3>1, <3>3
  <2>1. PICK m \in T : \A l \in T : m <= l
    <3>1. T \in SUBSET Nat
      OBVIOUS
    <3> QED BY <3>1, LeastNumber
  <2>2. PICK k : k = N + 1 - m
    OBVIOUS
  <2>3. k \in 1 .. N /\ f[k] \in 1 .. N /\ f[k] > k
    BY <2>1, <2>2
  <2>a. k + 1 \in 1 .. N /\ k < k + 1
    BY <2>3
  <2>4. k + 1 \in 1 .. N /\ f[k + 1] \in 1 .. N /\ f[k] < f[k + 1]
    BY <2>3, <2>a
  <2>5. f[k + 1] > k + 1
    BY <2>3, <2>4
  <2>6. m - 1 \in 1 .. N /\ N + 1 - (m - 1) = k + 1
    BY <2>1, <2>2, <2>4
  <2>7. m - 1 \in T
    BY <2>5, <2>6
  <2>8. m \in Nat
    BY <2>1
  <2> HIDE DEF T
  <2>9. m <= m - 1
    BY <2>1, <2>7
  <2> QED BY <2>8, <2>9
<1> QED BY <1>1, <1>2

\* Two positions are ranked apart.
LEMMA RanksDiffer ==
  ASSUME NEW pairs, Sortable(pairs), NEW k \in DOMAIN pairs, NEW l \in DOMAIN pairs,
         Rank(pairs, k) = Rank(pairs, l)
  PROVE  k = l
<1>1. DOMAIN pairs = 1 .. Len(pairs) /\ Len(pairs) \in Nat
  BY DEF Sortable
<1>2. k \in Nat /\ l \in Nat /\ pairs[k].key \in Nat /\ pairs[l].key \in Nat
  BY <1>1 DEF Sortable
<1>3. Before(pairs, k, l) \/ Before(pairs, l, k)
  BY <1>2 DEF Before
<1>4. Rank(pairs, k) \in Nat
  BY <1>1, RankType
<1> QED BY <1>3, <1>4, RankIncreases

LEMMA GivenSortable ==
  ASSUME Counters
  PROVE  Sortable(given)
<1>1. given \in Seq(Pair) /\ DOMAIN given = 1 .. n /\ n \in Nat
  BY GivenPairs DEF Counters, Pair
<1>2. \A k \in 1 .. n : given[k] \in {given[m] : m \in DOMAIN given}
  BY <1>1
<1>3. given \in Seq({given[m] : m \in DOMAIN given})
  BY <1>1, <1>2 DEF n
<1> QED BY <1>1, <1>3, GivenPairs DEF Sortable

LEMMA SortedAtTheEnd ==
  ASSUME IInv
  PROVE  SortsStably
<1> SUFFICES ASSUME pc = "done" PROVE Pairs = insertionSort(given)
  BY DEF SortsStably
<1>1. Counters /\ Sortable(given)
  BY GivenSortable DEF IInv
<1>2. PICK p \in Rearrangements : Rearranged(p)
  BY DEF IInv
<1>3. n \in Nat /\ DOMAIN given = 1 .. n /\ i > n /\ i \in Nat
  BY <1>1, GivenPairs DEF Counters
<1>4. \A k, l \in 1 .. n : k < l => Before(given, p[k], p[l])
  BY <1>2, <1>3 DEF Rearranged, Visited
<1>5. \A k \in 1 .. n : p[k] \in 1 .. n
  BY <1>2 DEF Rearrangements
<1>6. PICK f : f = [k \in 1 .. n |-> Rank(given, p[k])]
  OBVIOUS
<1>7. f \in [1 .. n -> 1 .. n]
  BY <1>1, <1>3, <1>5, <1>6, RankType
<1>8. \A k, l \in 1 .. n : k < l => f[k] < f[l]
  <2> SUFFICES ASSUME NEW k \in 1 .. n, NEW l \in 1 .. n, k < l PROVE f[k] < f[l]
    OBVIOUS
  <2>1. p[k] # p[l] /\ p[k] \in DOMAIN given /\ p[l] \in DOMAIN given
    BY <1>2, <1>3, <1>5 DEF Rearrangements
  <2>2. Rank(given, p[k]) < Rank(given, p[l])
    BY <1>1, <1>4, <2>1, RankIncreases
  <2> QED BY <1>6, <2>2
<1>9. \A k \in 1 .. n : Rank(given, p[k]) = k
  BY <1>3, <1>6, <1>7, <1>8, AscendingIsIdentity
<1>a. \A k \in 1 .. n : WithRank(given, k) = p[k]
  <2> SUFFICES ASSUME NEW k \in 1 .. n PROVE WithRank(given, k) = p[k]
    OBVIOUS
  <2>1. WithRank(given, k) \in DOMAIN given /\ Rank(given, WithRank(given, k)) = k
    BY <1>3, <1>5, <1>9 DEF WithRank
  <2> QED BY <1>1, <1>3, <1>5, <1>9, <2>1, RanksDiffer
<1>b. \A k \in 1 .. n : Pairs[k] = insertionSort(given)[k]
  BY <1>2, <1>3, <1>a DEF insertionSort, Rearranged
<1> QED BY <1>3, <1>b DEF insertionSort, Pairs

\* As many places hold a pair as were given with it.
LEMMA AsManyAsGiven ==
  ASSUME IInv, NEW v
  PROVE  Cardinality({k \in 1 .. n : Pairs[k] = v}) = Cardinality({k \in 1 .. n : given[k] = v})
<1> DEFINE A == {k \in 1 .. n : Pairs[k] = v}
           B == {k \in 1 .. n : given[k] = v}
<1>1. n \in Nat
  BY GivenPairs DEF IInv
<1>2. PICK p \in Rearrangements : Rearranged(p)
  BY DEF IInv
<1>3. IsFiniteSet(1 .. n)
  BY <1>1, FS_Interval
<1>4. p \in [1 .. n -> 1 .. n] /\ \A k, l \in 1 .. n : p[k] = p[l] => k = l
  BY <1>2 DEF Rearrangements
<1>5. p \in Surjection(1 .. n, 1 .. n)
  <2>1. p \in Injection(1 .. n, 1 .. n)
    BY <1>4, Fun_IsInj
  <2> QED BY <1>3, <2>1, FS_Injection
<1>6. \A m \in 1 .. n : \E k \in 1 .. n : p[k] = m
  BY <1>5, Fun_SurjectionProperties
<1>7. \A k \in 1 .. n : Pairs[k] = given[p[k]]
  BY <1>2 DEF Rearranged
<1>8. PICK b : b = [k \in A |-> p[k]]
  OBVIOUS
<1>9. b \in [A -> B] /\ \A k, l \in A : b[k] = b[l] => k = l
  BY <1>4, <1>7, <1>8
<1>a. \A m \in B : \E k \in A : b[k] = m
  BY <1>6, <1>7, <1>8
<1>b. b \in Bijection(A, B)
  BY <1>9, <1>a, Fun_IsBij
<1>c. IsFiniteSet(A)
  BY <1>3, FS_Subset
<1> HIDE DEF A, B
<1>d. ExistsBijection(A, B)
  BY <1>b DEF ExistsBijection
<1>e. Cardinality(A) = Cardinality(B)
  BY <1>c, <1>d, FS_Bijection
<1> QED BY <1>e DEF A, B

LEMMA OrderedBelow ==
  ASSUME IInv, NEW k \in 1 .. n, NEW l \in 1 .. n,
         k < l, l < i, pc = "inner" => j \notin {k, l}
  PROVE  keys[k] <= keys[l]
<1>1. Counters
  BY DEF IInv
<1>2. PICK p \in Rearrangements : Rearranged(p)
  BY DEF IInv
<1>3. Before(given, p[k], p[l])
  BY <1>2 DEF Rearranged, Visited
<1>4. keys[k] = given[p[k]].key /\ keys[l] = given[p[l]].key
  BY <1>1, <1>2, PairsAre
<1>5. given[p[k]].key \in Nat /\ given[p[l]].key \in Nat
  BY <1>1, <1>2, GivenPairs DEF Rearrangements
<1> QED BY <1>3, <1>4, <1>5 DEF Before

-----------------------------------------------------------------------------

\* insertionSort of main.c:31-52 puts the keys, each with its value, in
\* ascending order and keeps the order of equal keys: its result is the one that
\* KVTable defines and the proofs about KVStore use.
THEOREM LoopsSortStably == Spec => []SortsStably
<1>1. IInv => SortsStably
  BY SortedAtTheEnd
<1> QED BY <1>1, Invariance, PTL

\* At no step of the loops is a pair lost, doubled or torn apart.
THEOREM LoopsLoseNothing == Spec => []NothingLost
<1>1. IInv => NothingLost
  BY AsManyAsGiven, OrderedBelow DEF NothingLost
<1> QED BY <1>1, Invariance, PTL

=============================================================================
