------------------------ MODULE SequentialKVS_proofs ------------------------
(***************************************************************************)
(* The program of exercises 1 and 2 implements AtomicKVS, for any files,   *)
(* commands, keys and values: what the loops of operations.c over the      *)
(* pairs of a command, and over the chains of the table, amount to.        *)
(***************************************************************************)
EXTENDS SequentialKVS, KVTable_proofs, SequenceTheorems

Pair == [key : Key, value : Value \cup {NULL}]

-----------------------------------------------------------------------------
(* The loops over the pairs of a command. *)

\* The pairs that a loop may be given.
Applicable(op, ps) ==
  /\ ps \in Seq(Pair)
  /\ op = "WRITE" => \A j \in DOMAIN ps : ps[j].value \in Value

LEMMA ApplyType ==
  ASSUME NEW op, NEW ht \in Table, NEW p \in Pair, op = "WRITE" => p.value \in Value
  PROVE  Apply(op, ht, p) \in Table
BY WriteType, DeleteType DEF Apply, Pair

\* The effect of one pair.
LEMMA ApplyKeeps ==
  ASSUME NEW op, NEW ht \in Table, NEW p \in Pair, op = "WRITE" => p.value \in Value,
         OnceEach(ht)
  PROVE  /\ OnceEach(Apply(op, ht, p))
         /\ \A k \in Key :
              read_pair(Apply(op, ht, p), k) =
                IF k = p.key THEN IF op = "WRITE" THEN p.value ELSE NULL
                ELSE read_pair(ht, k)
<1> DEFINE s == hash(p.key)
           chain == ht[s]
<1>1. p.key \in Key /\ s \in Slot /\ chain \in Chain /\ WellFormed(chain, s)
  BY HashType DEF Pair, Table, OnceEach, WellFormed
<1>2. DOMAIN ht = Slot
  BY DEF Table
<1>3. CASE op = "WRITE"
  <2> DEFINE new == WriteInChain(chain, p.key, p.value)
  <2>1. Apply(op, ht, p) = [ht EXCEPT ![s] = new]
    BY <1>3 DEF Apply, write_pair
  <2>2. WellFormed(new, s) /\ p.value \in Value
    BY <1>1, <1>3, WriteKeeps
  <2>3. \A k : ValueIn(new, k) = IF k = p.key THEN p.value ELSE ValueIn(chain, k)
    BY <1>1, <2>2, WriteReads
  <2> HIDE DEF new, s
  <2>4. OnceEach(Apply(op, ht, p))
    BY <1>1, <1>2, <2>1, <2>2 DEF OnceEach, WellFormed
  <2>5. ASSUME NEW k \in Key
        PROVE  read_pair(Apply(op, ht, p), k) =
                 IF k = p.key THEN p.value ELSE read_pair(ht, k)
    <3>1. hash(k) \in Slot
      BY HashType
    <3>2. CASE hash(k) = s
      <4>1. Apply(op, ht, p)[hash(k)] = new /\ ht[hash(k)] = chain
        BY <1>1, <1>2, <2>1, <3>2
      <4> QED BY <2>3, <4>1, ReadIsValueIn
    <3>3. CASE hash(k) # s
      <4>1. Apply(op, ht, p)[hash(k)] = ht[hash(k)] /\ k # p.key
        BY <1>2, <2>1, <3>1, <3>3 DEF s
      <4> QED BY <4>1, ReadIsValueIn
    <3> QED BY <3>2, <3>3
  <2> QED BY <1>3, <2>4, <2>5
<1>4. CASE op # "WRITE"
  <2> DEFINE new == DeleteInChain(chain, p.key)
  <2>1. Apply(op, ht, p) = [ht EXCEPT ![s] = new]
    BY <1>4 DEF Apply, delete_pair
  <2>2. WellFormed(new, s)
    BY <1>1, DeleteKeeps
  <2>3. \A k : ValueIn(new, k) = IF k = p.key THEN NULL ELSE ValueIn(chain, k)
    BY <1>1, DeleteReads
  <2> HIDE DEF new, s
  <2>4. OnceEach(Apply(op, ht, p))
    BY <1>1, <1>2, <2>1, <2>2 DEF OnceEach, WellFormed
  <2>5. ASSUME NEW k \in Key
        PROVE  read_pair(Apply(op, ht, p), k) =
                 IF k = p.key THEN NULL ELSE read_pair(ht, k)
    <3>1. hash(k) \in Slot
      BY HashType
    <3>2. CASE hash(k) = s
      <4>1. Apply(op, ht, p)[hash(k)] = new /\ ht[hash(k)] = chain
        BY <1>1, <1>2, <2>1, <3>2
      <4> QED BY <2>3, <4>1, ReadIsValueIn
    <3>3. CASE hash(k) # s
      <4>1. Apply(op, ht, p)[hash(k)] = ht[hash(k)] /\ k # p.key
        BY <1>2, <2>1, <3>1, <3>3 DEF s
      <4> QED BY <4>1, ReadIsValueIn
    <3> QED BY <3>2, <3>3
  <2> QED BY <1>4, <2>4, <2>5
<1> QED BY <1>3, <1>4

\* The recursion over the pairs defines a table after each of them.
LEMMA TablesFound ==
  ASSUME table \in Table, NEW op, NEW ps, Applicable(op, ps)
  PROVE  LET ht == Tables(op, ps) IN
         /\ ht[0] = table
         /\ \A n \in 0 .. Len(ps) : ht[n] \in Table
         /\ \A n \in 1 .. Len(ps) : ht[n] = Apply(op, ht[n - 1], ps[n])
<1> DEFINE N == Len(ps)
           Good(h, n) ==
             /\ h \in [0 .. n -> Table] /\ h[0] = table
             /\ \A m \in 1 .. n : h[m] = Apply(op, h[m - 1], ps[m])
           S == {n \in 0 .. N : \E h : Good(h, n)}
<1>1. N \in Nat /\ \A n \in 1 .. N : ps[n] \in Pair /\ (op = "WRITE" => ps[n].value \in Value)
  BY DEF Applicable
<1>2. 0 \in S
  <2>1. Good([m \in 0 .. 0 |-> table], 0)
    OBVIOUS
  <2>2. \E h : Good(h, 0)
    <3> HIDE DEF Good
    <3> QED BY <2>1
  <2> QED BY <1>1, <2>2
<1>3. ASSUME NEW n \in 0 .. N - 1, n \in S PROVE n + 1 \in S
  <2>1. PICK h : Good(h, n)
    BY <1>3
  <2> DEFINE last == Apply(op, h[n], ps[n + 1])
             g == [m \in 0 .. n + 1 |-> IF m = n + 1 THEN last ELSE h[m]]
  <2>2. n \in 0 .. n /\ n + 1 \in 1 .. N /\ n + 1 \in 0 .. N
    BY <1>1
  <2>3. last \in Table
    <3>1. h[n] \in Table /\ ps[n + 1] \in Pair /\ (op = "WRITE" => ps[n + 1].value \in Value)
      BY <1>1, <2>1, <2>2
    <3> QED BY <3>1, ApplyType
  <2>4. g[n + 1] = last /\ \A m \in 0 .. n : g[m] = h[m]
    <3> HIDE DEF last
    <3> QED BY <1>1
  <2>5. g \in [0 .. n + 1 -> Table]
    <3>1. \A m \in 0 .. n + 1 : m = n + 1 \/ m \in 0 .. n
      BY <1>1
    <3> HIDE DEF last
    <3> QED BY <2>1, <2>3, <3>1
  <2> HIDE DEF g
  <2>6. g[0] = table
    BY <1>1, <2>1, <2>4
  <2>7. ASSUME NEW m \in 1 .. n + 1 PROVE g[m] = Apply(op, g[m - 1], ps[m])
    <3>1. CASE m = n + 1
      <4>1. m - 1 = n /\ g[m - 1] = h[n]
        BY <1>1, <2>4, <3>1
      <4> QED BY <2>4, <3>1, <4>1
    <3>2. CASE m # n + 1
      <4>1. m \in 1 .. n /\ m \in 0 .. n /\ m - 1 \in 0 .. n
        BY <1>1, <3>2
      <4> QED BY <2>1, <2>4, <4>1
    <3> QED BY <3>1, <3>2
  <2>8. Good(g, n + 1)
    BY <2>5, <2>6, <2>7
  <2> QED BY <2>2, <2>8
<1>4. N \in S
  <2> HIDE DEF S, N
  <2>1. \A n \in 0 .. N : n \in S
    BY <1>1, <1>2, <1>3, UpwardsTo
  <2> QED BY <1>1, <2>1
<1>5. PICK h : Good(h, N)
  BY <1>4
<1> DEFINE Body(g) == [n \in 0 .. Len(ps) |->
                         IF n = 0 THEN table ELSE Apply(op, g[n - 1], ps[n])]
<1>6. h = Body(h)
  <2>1. ASSUME NEW n \in 0 .. N
        PROVE  h[n] = IF n = 0 THEN table ELSE Apply(op, h[n - 1], ps[n])
    <3>1. n = 0 \/ n \in 1 .. N
      BY <1>1
    <3> QED BY <1>5, <3>1
  <2> QED BY <1>5, <2>1
<1> DEFINE ht == CHOOSE g : g = Body(g)
<1>7. ht = Body(ht)
  <2> HIDE DEF Body
  <2> QED BY <1>6
<1>8. Tables(op, ps) = ht
  BY DEF Tables
<1> HIDE DEF ht
<1>9. \A n \in 0 .. N : ht[n] = IF n = 0 THEN table ELSE Apply(op, ht[n - 1], ps[n])
  BY <1>7
<1>10. ht[0] = table /\ \A n \in 1 .. N : ht[n] = Apply(op, ht[n - 1], ps[n])
  <2>1. \A n \in 1 .. N : n \in 0 .. N /\ n # 0
    BY <1>1
  <2>2. 0 \in 0 .. N
    BY <1>1
  <2> HIDE DEF N
  <2> QED BY <1>9, <2>1, <2>2
<1>11. \A n \in 0 .. N : ht[n] \in Table
  <2> DEFINE T == {n \in 0 .. N : ht[n] \in Table}
  <2>1. 0 \in T
    BY <1>1, <1>10
  <2>2. ASSUME NEW n \in 0 .. N - 1, n \in T PROVE n + 1 \in T
    <3>1. n + 1 \in 1 .. N /\ n + 1 \in 0 .. N /\ n + 1 - 1 = n
      BY <1>1
    <3>2. ht[n + 1] = Apply(op, ht[n], ps[n + 1])
      BY <1>10, <3>1
    <3>3. Apply(op, ht[n], ps[n + 1]) \in Table
      BY <1>1, <2>2, <3>1, ApplyType
    <3> QED BY <3>1, <3>2, <3>3
  <2> HIDE DEF T, N
  <2>3. \A n \in 0 .. N : n \in T
    BY <1>1, <2>1, <2>2, UpwardsTo
  <2> QED BY <2>3 DEF T
<1> QED BY <1>8, <1>10, <1>11

\* A loop of WRITE leaves the last value of each key it names, a loop of DELETE
\* none, and both leave the other keys.
LEMMA LoopReads ==
  ASSUME table \in Table, OnceEach(table), NEW op, NEW ps, Applicable(op, ps)
  PROVE  \A n \in 0 .. Len(ps) :
           /\ OnceEach(Tables(op, ps)[n])
           /\ \A k \in Key :
                /\ (\A j \in 1 .. n : ps[j].key # k) =>
                     read_pair(Tables(op, ps)[n], k) = read_pair(table, k)
                /\ \A j \in 1 .. n :
                     ps[j].key = k /\ (\A l \in j + 1 .. n : ps[l].key # k) =>
                       read_pair(Tables(op, ps)[n], k) =
                         IF op = "WRITE" THEN ps[j].value ELSE NULL
<1> DEFINE ht == Tables(op, ps)
           N == Len(ps)
           left == [j \in 1 .. N |-> IF op = "WRITE" THEN ps[j].value ELSE NULL]
           Untouched(n, k) == (\A j \in 1 .. n : ps[j].key # k) =>
                                read_pair(ht[n], k) = read_pair(table, k)
           Touched(n, k) == \A j \in 1 .. n :
                              ps[j].key = k /\ (\A l \in j + 1 .. n : ps[l].key # k) =>
                                read_pair(ht[n], k) = left[j]
           Good(n) == OnceEach(ht[n]) /\ \A k \in Key : Untouched(n, k) /\ Touched(n, k)
           S == {n \in 0 .. N : Good(n)}
<1>1. N \in Nat /\ \A n \in 1 .. N : ps[n] \in Pair /\ (op = "WRITE" => ps[n].value \in Value)
  BY DEF Applicable
<1>2. /\ ht[0] = table
      /\ \A n \in 0 .. N : ht[n] \in Table
      /\ \A n \in 1 .. N : ht[n] = Apply(op, ht[n - 1], ps[n])
  BY TablesFound
<1> HIDE DEF ht, N
<1>3. 0 \in S
  <2>1. \A j \in 1 .. 0 : FALSE
    OBVIOUS
  <2>2. Good(0)
    BY <1>2, <2>1
  <2> QED BY <1>1, <2>2
<1>4. ASSUME NEW n \in 0 .. N - 1, n \in S PROVE n + 1 \in S
  <2> DEFINE p == ps[n + 1]
  <2>1. n + 1 \in 1 .. N /\ n + 1 \in 0 .. N /\ n + 1 - 1 = n /\ n \in 0 .. N
    BY <1>1
  <2>2. ht[n + 1] = Apply(op, ht[n], p) /\ ht[n] \in Table
    BY <1>2, <2>1
  <2>3. p \in Pair /\ (op = "WRITE" => p.value \in Value) /\ OnceEach(ht[n])
    BY <1>1, <1>4, <2>1
  <2>4. OnceEach(ht[n + 1])
    BY <2>2, <2>3, ApplyKeeps
  <2>5. \A k \in Key : read_pair(ht[n + 1], k) =
                         IF k = p.key THEN left[n + 1] ELSE read_pair(ht[n], k)
    <3>1. left[n + 1] = IF op = "WRITE" THEN p.value ELSE NULL
      BY <2>1
    <3> HIDE DEF left, p
    <3>2. \A k \in Key : read_pair(Apply(op, ht[n], p), k) =
                           IF k = p.key THEN IF op = "WRITE" THEN p.value ELSE NULL
                           ELSE read_pair(ht[n], k)
      BY <2>2, <2>3, ApplyKeeps
    <3> QED BY <2>2, <3>1, <3>2
  <2>6. ASSUME NEW k \in Key PROVE Untouched(n + 1, k)
    <3> SUFFICES ASSUME \A j \in 1 .. n + 1 : ps[j].key # k
                 PROVE  read_pair(ht[n + 1], k) = read_pair(table, k)
      OBVIOUS
    <3>1. k # p.key /\ \A j \in 1 .. n : ps[j].key # k
      BY <2>1
    <3>2. Untouched(n, k)
      BY <1>4
    <3> QED BY <2>5, <3>1, <3>2
  <2>7. ASSUME NEW k \in Key PROVE Touched(n + 1, k)
    <3> SUFFICES ASSUME NEW j \in 1 .. n + 1, ps[j].key = k,
                        \A l \in j + 1 .. n + 1 : ps[l].key # k
                 PROVE  read_pair(ht[n + 1], k) = left[j]
      OBVIOUS
    <3> HIDE DEF left
    <3>1. CASE j = n + 1
      BY <2>5, <3>1
    <3>2. CASE j # n + 1
      <4>1. j \in 1 .. n /\ n + 1 \in j + 1 .. n + 1
        BY <2>1, <3>2
      <4>2. \A l \in j + 1 .. n : l \in j + 1 .. n + 1
        BY <2>1
      <4>3. k # p.key /\ \A l \in j + 1 .. n : ps[l].key # k
        BY <4>1, <4>2
      <4>4. Touched(n, k)
        BY <1>4
      <4> QED BY <2>5, <4>1, <4>3, <4>4
    <3> QED BY <3>1, <3>2
  <2> QED BY <2>1, <2>4, <2>6, <2>7
<1>5. \A n \in 0 .. N : n \in S
  <2> HIDE DEF S
  <2> QED BY <1>1, <1>3, <1>4, UpwardsTo
<1>6. ASSUME NEW n \in 0 .. N, NEW k \in Key
      PROVE  /\ OnceEach(ht[n])
             /\ (\A j \in 1 .. n : ps[j].key # k) =>
                     read_pair(ht[n], k) = read_pair(table, k)
             /\ \A j \in 1 .. n :
                     ps[j].key = k /\ (\A l \in j + 1 .. n : ps[l].key # k) =>
                       read_pair(ht[n], k) = left[j]
  BY <1>5
<1>7. \A n \in 0 .. N : OnceEach(ht[n])
  BY <1>5
<1>8. \A n \in 0 .. N : \A j \in 1 .. n :
         left[j] = IF op = "WRITE" THEN ps[j].value ELSE NULL
  BY <1>1
<1> HIDE DEF left
<1> QED BY <1>6, <1>7, <1>8 DEF ht, N

-----------------------------------------------------------------------------
(* What DELETE prints. *)

\* The places in ps, up to n, of keys that are not there to delete.
GoneUpTo(ps, n) ==
  {j \in 1 .. n : \/ read_pair(table, ps[j].key) = NULL
                  \/ \E l \in 1 .. j - 1 : ps[l].key = ps[j].key}

\* The entries for those places, in an order.
MissesOf(ps, at) == [j \in DOMAIN at |-> Answer(ps[at[j]].key, NULL)]

\* The recursion over the pairs defines what was printed after each of them.
LEMMA MissesFound ==
  ASSUME NEW ps, Len(ps) \in Nat
  PROVE  LET missed == Misses(ps)
             ht == Tables("DELETE", ps)
         IN
         /\ missed[0] = << >>
         /\ \A n \in 1 .. Len(ps) :
              missed[n] = IF read_pair(ht[n - 1], ps[n].key) = NULL
                          THEN Append(missed[n - 1], Answer(ps[n].key, NULL))
                          ELSE missed[n - 1]
<1> DEFINE N == Len(ps)
           ht == Tables("DELETE", ps)
           Next1(m, n) == IF read_pair(ht[n - 1], ps[n].key) = NULL
                          THEN Append(m, Answer(ps[n].key, NULL)) ELSE m
           Good(h, n) ==
             /\ h = [m \in 0 .. n |-> h[m]] /\ h[0] = << >>
             /\ \A m \in 1 .. n : h[m] = Next1(h[m - 1], m)
           S == {n \in 0 .. N : \E h : Good(h, n)}
<1>1. N \in Nat
  OBVIOUS
<1> HIDE DEF ht, N, Next1
<1>2. 0 \in S
  <2>1. Good([m \in 0 .. 0 |-> << >>], 0)
    OBVIOUS
  <2>2. \E h : Good(h, 0)
    <3> HIDE DEF Good
    <3> QED BY <2>1
  <2> QED BY <1>1, <2>2
<1>3. ASSUME NEW n \in 0 .. N - 1, n \in S PROVE n + 1 \in S
  <2>1. PICK h : Good(h, n)
    BY <1>3
  <2> DEFINE last == Next1(h[n], n + 1)
             g == [m \in 0 .. n + 1 |-> IF m = n + 1 THEN last ELSE h[m]]
  <2>2. n \in 0 .. n /\ n + 1 \in 1 .. N /\ n + 1 \in 0 .. N
    BY <1>1
  <2>3. g[n + 1] = last /\ \A m \in 0 .. n : g[m] = h[m]
    <3> HIDE DEF last
    <3> QED BY <1>1
  <2>4. g = [m \in 0 .. n + 1 |-> g[m]]
    OBVIOUS
  <2> HIDE DEF g
  <2>5. g[0] = << >>
    BY <1>1, <2>1, <2>3
  <2>6. ASSUME NEW m \in 1 .. n + 1 PROVE g[m] = Next1(g[m - 1], m)
    <3>1. CASE m = n + 1
      <4>1. m - 1 = n /\ g[m - 1] = h[n]
        BY <1>1, <2>3, <3>1
      <4> QED BY <2>3, <3>1, <4>1
    <3>2. CASE m # n + 1
      <4>1. m \in 1 .. n /\ m \in 0 .. n /\ m - 1 \in 0 .. n
        BY <1>1, <3>2
      <4> QED BY <2>1, <2>3, <4>1
    <3> QED BY <3>1, <3>2
  <2>7. Good(g, n + 1)
    BY <2>4, <2>5, <2>6
  <2>8. \E h1 : Good(h1, n + 1)
    <3> HIDE DEF Good
    <3> QED BY <2>7
  <2> QED BY <2>2, <2>8
<1>4. N \in S
  <2> HIDE DEF S
  <2>1. \A n \in 0 .. N : n \in S
    BY <1>1, <1>2, <1>3, UpwardsTo
  <2> QED BY <1>1, <2>1
<1>5. PICK h : Good(h, N)
  BY <1>4
<1> DEFINE Body(g) == [n \in 0 .. N |->
                         IF n = 0 THEN << >> ELSE Next1(g[n - 1], n)]
<1>6. h = Body(h)
  <2>1. ASSUME NEW n \in 0 .. N
        PROVE  h[n] = IF n = 0 THEN << >> ELSE Next1(h[n - 1], n)
    <3>1. n = 0 \/ n \in 1 .. N
      BY <1>1
    <3> QED BY <1>5, <3>1
  <2> QED BY <1>5, <2>1
<1> DEFINE missed == CHOOSE g : g = Body(g)
<1>7. missed = Body(missed)
  <2> HIDE DEF Body
  <2> QED BY <1>6
<1>8. Misses(ps) = missed
  BY DEF Misses, N, ht, Next1
<1> HIDE DEF missed
<1>9. \A n \in 0 .. N : missed[n] = IF n = 0 THEN << >> ELSE Next1(missed[n - 1], n)
  BY <1>7
<1>10. missed[0] = << >> /\ \A n \in 1 .. N : missed[n] = Next1(missed[n - 1], n)
  <2>1. \A n \in 1 .. N : n \in 0 .. N /\ n # 0
    BY <1>1
  <2>2. 0 \in 0 .. N
    BY <1>1
  <2> QED BY <1>9, <2>1, <2>2
<1> QED BY <1>8, <1>10 DEF N, ht, Next1

\* A key is missing for a DELETE if it was, or if the command has deleted it.
LEMMA FindsGone ==
  ASSUME table \in Table, OnceEach(table), NEW ps, Applicable("DELETE", ps),
         NEW n \in 1 .. Len(ps)
  PROVE  read_pair(Tables("DELETE", ps)[n - 1], ps[n].key) = NULL <=>
           n \in GoneUpTo(ps, n)
<1> DEFINE N == Len(ps)
           k == ps[n].key
           now == read_pair(Tables("DELETE", ps)[n - 1], k)
           same == {l \in 1 .. n - 1 : ps[l].key = k}
<1>1. N \in Nat /\ n \in 1 .. N /\ n - 1 \in 0 .. N /\ n - 1 \in Nat /\ k \in Key
  <2>1. ps \in Seq(Pair)
    BY DEF Applicable
  <2>2. ps[n] \in Pair
    BY <2>1
  <2> QED BY <2>1, <2>2 DEF Pair
<1>2. /\ (\A j \in 1 .. n - 1 : ps[j].key # k) => now = read_pair(table, k)
      /\ \A j \in 1 .. n - 1 :
           ps[j].key = k /\ (\A l \in j + 1 .. n - 1 : ps[l].key # k) => now = NULL
  <2> DEFINE m == n - 1
  <2>1. \A i \in 0 .. N : \A key \in Key :
          /\ (\A j \in 1 .. i : ps[j].key # key) =>
               read_pair(Tables("DELETE", ps)[i], key) = read_pair(table, key)
          /\ \A j \in 1 .. i :
               ps[j].key = key /\ (\A l \in j + 1 .. i : ps[l].key # key) =>
                 read_pair(Tables("DELETE", ps)[i], key) = NULL
    BY LoopReads
  <2> QED BY <1>1, <2>1
<1> HIDE DEF now, k, N
<1>3. n \in GoneUpTo(ps, n) <=> read_pair(table, k) = NULL \/ same # {}
  BY <1>1 DEF GoneUpTo, k
<1>4. CASE same = {}
  BY <1>2, <1>3, <1>4 DEF now, k
<1>5. CASE same # {}
  <2>1. PICK j \in same : \A l \in same : l <= j
    <3>1. same \in SUBSET (1 .. n - 1)
      OBVIOUS
    <3> HIDE DEF same
    <3> QED BY <1>1, <1>5, <3>1, GreatestNumber
  <2>2. \A l \in j + 1 .. n - 1 : ps[l].key # k
    <3> SUFFICES ASSUME NEW l \in j + 1 .. n - 1, ps[l].key = k PROVE FALSE
      OBVIOUS
    <3>1. l \in same /\ j \in Int /\ l \in Int /\ l > j
      BY <1>1, <2>1
    <3> QED BY <2>1, <3>1
  <2> QED BY <1>2, <1>3, <1>5, <2>1, <2>2 DEF now, k
<1> QED BY <1>4, <1>5

\* at lists the members of S once each.
Lists(at, S) ==
  /\ at \in [1 .. Cardinality(S) -> S]
  /\ \A j, l \in DOMAIN at : at[j] = at[l] => j = l

LEMMA GoneFinite ==
  ASSUME NEW ps, NEW n \in Nat
  PROVE  IsFiniteSet(GoneUpTo(ps, n)) /\ Cardinality(GoneUpTo(ps, n)) \in Nat
<1>1. IsFiniteSet(1 .. n)
  BY FS_Interval
<1>2. IsFiniteSet(GoneUpTo(ps, n))
  BY <1>1, FS_Subset DEF GoneUpTo
<1> QED BY <1>2, FS_CardinalityType

LEMMA GoneNext ==
  ASSUME NEW ps, NEW n \in Nat
  PROVE  GoneUpTo(ps, n + 1) = IF n + 1 \in GoneUpTo(ps, n + 1)
                               THEN GoneUpTo(ps, n) \cup {n + 1} ELSE GoneUpTo(ps, n)
<1>1. \A j : j \in 1 .. n + 1 <=> j = n + 1 \/ j \in 1 .. n
  OBVIOUS
<1>2. \A j \in 1 .. n : j # n + 1
  OBVIOUS
<1> QED BY <1>1, <1>2 DEF GoneUpTo

\* DELETE prints one entry for each of them.
LEMMA MissesAreGone ==
  ASSUME table \in Table, OnceEach(table), NEW ps, Applicable("DELETE", ps)
  PROVE  \E at : /\ Lists(at, GoneUpTo(ps, Len(ps)))
                 /\ Misses(ps)[Len(ps)] = MissesOf(ps, at)
<1> DEFINE N == Len(ps)
           Good(n, at) == /\ Lists(at, GoneUpTo(ps, n))
                          /\ Misses(ps)[n] = MissesOf(ps, at)
           S == {n \in 0 .. N : \E at : Good(n, at)}
<1>1. N \in Nat
  BY DEF Applicable
<1>2. /\ Misses(ps)[0] = << >>
      /\ \A n \in 1 .. N :
           Misses(ps)[n] = IF n \in GoneUpTo(ps, n)
                           THEN Append(Misses(ps)[n - 1], Answer(ps[n].key, NULL))
                           ELSE Misses(ps)[n - 1]
  BY <1>1, FindsGone, MissesFound
<1>a. ASSUME NEW n \in 0 .. N - 1
      PROVE  Misses(ps)[n + 1] = IF n + 1 \in GoneUpTo(ps, n + 1)
                                 THEN Append(Misses(ps)[n], Answer(ps[n + 1].key, NULL))
                                 ELSE Misses(ps)[n]
  <2>1. n + 1 \in 1 .. N /\ n + 1 - 1 = n
    BY <1>1
  <2> HIDE DEF N
  <2> QED BY <1>2, <2>1
<1> HIDE DEF N
<1>3. 0 \in S
  <2>1. GoneUpTo(ps, 0) = {}
    BY DEF GoneUpTo
  <2>2. Cardinality(GoneUpTo(ps, 0)) = 0
    BY <2>1, FS_EmptySet
  <2>3. Lists(<< >>, GoneUpTo(ps, 0))
    BY <2>1, <2>2 DEF Lists
  <2>4. MissesOf(ps, << >>) = << >>
    BY DEF MissesOf
  <2>5. Good(0, << >>)
    BY <1>2, <2>3, <2>4
  <2>6. \E at : Good(0, at)
    <3> HIDE DEF Good
    <3> QED BY <2>5
  <2> QED BY <1>1, <2>6
<1>4. ASSUME NEW n \in 0 .. N - 1, n \in S PROVE n + 1 \in S
  <2>1. PICK at : Good(n, at)
    BY <1>4
  <2> DEFINE G == GoneUpTo(ps, n)
             H == GoneUpTo(ps, n + 1)
             c == Cardinality(G)
  <2>2. n \in Nat /\ n + 1 \in 1 .. N /\ n + 1 \in 0 .. N /\ n + 1 - 1 = n
    BY <1>1
  <2>3. IsFiniteSet(G) /\ c \in Nat /\ n + 1 \notin G
    <3>1. n + 1 \notin G
      BY <2>2 DEF GoneUpTo
    <3> QED BY <2>2, <3>1, GoneFinite
  <2>4. CASE n + 1 \in H
    <3> DEFINE new == [j \in 1 .. c + 1 |-> IF j = c + 1 THEN n + 1 ELSE at[j]]
               e == Answer(ps[n + 1].key, NULL)
    <3>1. H = G \cup {n + 1}
      BY <2>2, <2>4, GoneNext
    <3>2. Cardinality(H) = c + 1
      <4> HIDE DEF G, H
      <4> QED BY <2>3, <3>1, FS_AddElement
    <3>3. at \in [1 .. c -> G] /\ \A j, l \in 1 .. c : at[j] = at[l] => j = l
      BY <2>1 DEF Lists
    <3> HIDE DEF G, H, c
    <3>4. \A j \in 1 .. c + 1 : j = c + 1 \/ (j # c + 1 /\ j \in 1 .. c)
      BY <2>3
    <3>5. new[c + 1] = n + 1 /\ \A j \in 1 .. c : new[j] = at[j]
      BY <2>3
    <3>6. new \in [1 .. c + 1 -> H]
      BY <3>1, <3>3, <3>4
    <3>7. \A j, l \in DOMAIN new : new[j] = new[l] => j = l
      <4> SUFFICES ASSUME NEW j \in 1 .. c + 1, NEW l \in 1 .. c + 1, new[j] = new[l]
                   PROVE  j = l
        OBVIOUS
      <4> HIDE DEF new
      <4> QED BY <2>3, <3>3, <3>4, <3>5
    <3>8. Lists(new, H)
      BY <3>2, <3>6, <3>7 DEF Lists
    <3>9. MissesOf(ps, new) = Append(MissesOf(ps, at), e)
      <4> DEFINE old == MissesOf(ps, at)
      <4>1. old = [j \in 1 .. c |-> Answer(ps[at[j]].key, NULL)]
        BY <3>3 DEF MissesOf
      <4>2. MissesOf(ps, new) = [j \in 1 .. c + 1 |-> Answer(ps[new[j]].key, NULL)]
        BY <3>6 DEF MissesOf
      <4>3. \A j \in 1 .. c : Answer(ps[new[j]].key, NULL) = Answer(ps[at[j]].key, NULL)
        BY <3>5
      <4>4. Answer(ps[new[c + 1]].key, NULL) = e
        BY <3>5
      <4> DEFINE A(j) == Answer(ps[at[j]].key, NULL)
                 B(j) == Answer(ps[new[j]].key, NULL)
                 E == {B(j) : j \in 1 .. c + 1} \cup {A(j) : j \in 1 .. c} \cup {e}
      <4>5. /\ old = [j \in 1 .. c |-> A(j)]
            /\ MissesOf(ps, new) = [j \in 1 .. c + 1 |-> B(j)]
            /\ \A j \in 1 .. c : B(j) = A(j)
            /\ B(c + 1) = e
        BY <4>1, <4>2, <4>3, <4>4
      <4> HIDE DEF A, B, e, new, old
      <4>6. /\ old \in Seq(E) /\ Len(old) = c
            /\ MissesOf(ps, new) \in Seq(E) /\ Len(MissesOf(ps, new)) = c + 1
            /\ e \in E
        <5>1. e \in E /\ (\A j \in 1 .. c : A(j) \in E)
              /\ \A j \in 1 .. c + 1 : B(j) \in E
          OBVIOUS
        <5> HIDE DEF E
        <5>2. old \in Seq(E) /\ Len(old) = c
          BY <2>3, <4>5, <5>1
        <5>3. MissesOf(ps, new) \in Seq(E) /\ Len(MissesOf(ps, new)) = c + 1
          BY <2>3, <4>5, <5>1
        <5> QED BY <5>1, <5>2, <5>3
      <4> HIDE DEF E
      <4>7. /\ Append(old, e) \in Seq(E) /\ Len(Append(old, e)) = c + 1
            /\ \A j \in 1 .. c : Append(old, e)[j] = old[j]
            /\ Append(old, e)[c + 1] = e
        BY <4>6, AppendProperties
      <4>8. \A j \in 1 .. c + 1 : MissesOf(ps, new)[j] = Append(old, e)[j]
        BY <3>4, <4>5, <4>7
      <4>9. MissesOf(ps, new) = Append(old, e)
        BY <4>6, <4>7, <4>8, SeqEqual
      <4> QED BY <4>9 DEF old
    <3>10. Misses(ps)[n + 1] = Append(Misses(ps)[n], e)
      BY <1>a, <2>4 DEF H
    <3>11. Good(n + 1, new)
      <4> HIDE DEF new
      <4> QED BY <2>1, <3>8, <3>9, <3>10 DEF H
    <3>12. \E a : Good(n + 1, a)
      <4> HIDE DEF Good
      <4> QED BY <3>11
    <3> QED BY <2>2, <3>12
  <2>5. CASE n + 1 \notin H
    <3>1. H = G /\ Misses(ps)[n + 1] = Misses(ps)[n]
      BY <1>a, <2>2, <2>5, GoneNext
    <3>2. Good(n + 1, at)
      BY <2>1, <3>1
    <3>3. \E a : Good(n + 1, a)
      <4> HIDE DEF Good
      <4> QED BY <3>2
    <3> QED BY <2>2, <3>3
  <2> QED BY <2>4, <2>5
<1>5. N \in S
  <2> HIDE DEF S
  <2>1. \A n \in 0 .. N : n \in S
    BY <1>1, <1>3, <1>4, UpwardsTo
  <2> QED BY <1>1, <2>1
<1> QED BY <1>5 DEF N

-----------------------------------------------------------------------------
(* The loop of SHOW and of the children over the chains. *)

\* The recursion over the slots concatenates their chains.
LEMMA FlattenFound ==
  ASSUME NEW seqs, Len(seqs) \in Nat \ {0}
  PROVE  \E flat : /\ FlattenSeq(seqs) = flat[Len(seqs)]
                   /\ flat[1] = seqs[1]
                   /\ \A n \in 2 .. Len(seqs) : flat[n] = flat[n - 1] \o seqs[n]
<1> DEFINE N == Len(seqs)
           Good(h, n) ==
             /\ h = [m \in 1 .. n |-> h[m]] /\ h[1] = seqs[1]
             /\ \A m \in 2 .. n : h[m] = h[m - 1] \o seqs[m]
           S == {n \in 0 .. N - 1 : \E h : Good(h, n + 1)}
<1>1. N \in Nat \ {0} /\ N - 1 \in Nat
  OBVIOUS
<1> HIDE DEF N
<1>2. 0 \in S
  <2>1. Good([m \in 1 .. 1 |-> seqs[1]], 0 + 1)
    OBVIOUS
  <2> HIDE DEF Good
  <2>2. \E h : Good(h, 0 + 1)
    BY <2>1
  <2> QED BY <1>1, <2>2
<1>3. ASSUME NEW n \in 0 .. N - 1 - 1, n \in S PROVE n + 1 \in S
  <2>1. PICK h : Good(h, n + 1)
    BY <1>3
  <2> DEFINE q == n + 1 + 1
             last == h[n + 1] \o seqs[q]
             g == [m \in 1 .. q |-> IF m = q THEN last ELSE h[m]]
  <2>2. n \in Nat /\ n + 1 \in 0 .. N - 1 /\ q \in 1 .. N /\ q - 1 = n + 1
    BY <1>1
  <2>3. g[q] = last /\ \A m \in 1 .. n + 1 : g[m] = h[m]
    <3> HIDE DEF last
    <3> QED BY <2>2
  <2>4. g = [m \in 1 .. q |-> g[m]]
    OBVIOUS
  <2> HIDE DEF g
  <2>5. g[1] = seqs[1]
    BY <2>1, <2>2, <2>3
  <2>6. ASSUME NEW m \in 2 .. q PROVE g[m] = g[m - 1] \o seqs[m]
    <3>1. CASE m = q
      <4>1. g[m - 1] = h[n + 1]
        BY <2>2, <2>3, <3>1
      <4> QED BY <2>3, <3>1, <4>1
    <3>2. CASE m # q
      <4>1. m \in 2 .. n + 1 /\ m \in 1 .. n + 1 /\ m - 1 \in 1 .. n + 1
        BY <2>2, <3>2
      <4> QED BY <2>1, <2>3, <4>1
    <3> QED BY <3>1, <3>2
  <2>7. Good(g, n + 1 + 1)
    BY <2>4, <2>5, <2>6
  <2>8. \E h1 : Good(h1, n + 1 + 1)
    <3> HIDE DEF Good
    <3> QED BY <2>7
  <2> QED BY <2>2, <2>8
<1>4. N - 1 \in S
  <2> HIDE DEF S
  <2>1. \A n \in 0 .. N - 1 : n \in S
    BY <1>1, <1>2, <1>3, UpwardsTo
  <2> QED BY <1>1, <2>1
<1>5. PICK h : Good(h, N)
  <2> HIDE DEF Good
  <2>1. \E h : Good(h, N - 1 + 1)
    BY <1>4
  <2>2. N - 1 + 1 = N
    BY <1>1
  <2> QED BY <2>1, <2>2
<1> DEFINE Body(g) == [i \in 1 .. N |->
                         IF i = 1 THEN seqs[i] ELSE g[i - 1] \o seqs[i]]
<1>6. h = Body(h)
  <2>1. ASSUME NEW n \in 1 .. N
        PROVE  h[n] = IF n = 1 THEN seqs[n] ELSE h[n - 1] \o seqs[n]
    <3>1. n = 1 \/ n \in 2 .. N
      BY <1>1
    <3> QED BY <1>5, <3>1
  <2> QED BY <1>5, <2>1
<1> DEFINE flat == CHOOSE g : g = Body(g)
<1>7. flat = Body(flat)
  <2> HIDE DEF Body
  <2> QED BY <1>6
<1>8. FlattenSeq(seqs) = flat[N]
  BY <1>1 DEF FlattenSeq, N
<1> HIDE DEF flat
<1>9. \A n \in 1 .. N : flat[n] = IF n = 1 THEN seqs[n] ELSE flat[n - 1] \o seqs[n]
  BY <1>7
<1>10. flat[1] = seqs[1] /\ \A n \in 2 .. N : flat[n] = flat[n - 1] \o seqs[n]
  <2>1. \A n \in 2 .. N : n \in 1 .. N /\ n # 1
    BY <1>1
  <2>2. 1 \in 1 .. N
    BY <1>1
  <2> QED BY <1>9, <2>1, <2>2
<1> QED BY <1>8, <1>10 DEF N

\* nodes are those of the first n chains, each once.
NodesOf(nodes, ht, n) ==
  /\ nodes \in Seq(Node)
  /\ \A m \in DOMAIN nodes :
       /\ hash(nodes[m].key) \in 0 .. n - 1
       /\ read_pair(ht, nodes[m].key) = nodes[m].value
  /\ \A l, m \in DOMAIN nodes : nodes[l].key = nodes[m].key => l = m
  /\ \A k \in Key : hash(k) \in 0 .. n - 1 /\ read_pair(ht, k) # NULL =>
       \E m \in DOMAIN nodes : nodes[m].key = k

\* One chain is the nodes of one slot.
LEMMA ChainNodes ==
  ASSUME NEW ht \in Table, OnceEach(ht), NEW s \in Slot
  PROVE  /\ ht[s] \in Seq(Node)
         /\ \A m \in DOMAIN ht[s] :
              /\ hash(ht[s][m].key) = s
              /\ read_pair(ht, ht[s][m].key) = ht[s][m].value
         /\ \A l, m \in DOMAIN ht[s] : ht[s][l].key = ht[s][m].key => l = m
         /\ \A k \in Key : hash(k) = s /\ read_pair(ht, k) # NULL =>
              \E m \in DOMAIN ht[s] : ht[s][m].key = k
<1>1. ht[s] \in Chain /\ WellFormed(ht[s], s)
  BY DEF Table, OnceEach, WellFormed
<1>2. \A m \in DOMAIN ht[s] : hash(ht[s][m].key) = s
  BY <1>1 DEF WellFormed
<1>3. \A m \in DOMAIN ht[s] : read_pair(ht, ht[s][m].key) = ht[s][m].value
  BY <1>1, <1>2, NodeFound, ReadIsValueIn
<1>4. \A l, m \in DOMAIN ht[s] : ht[s][l].key = ht[s][m].key => l = m
  BY <1>1 DEF WellFormed
<1>5. \A k \in Key : hash(k) = s /\ read_pair(ht, k) # NULL =>
              \E m \in DOMAIN ht[s] : ht[s][m].key = k
  BY DEF read_pair, InChain
<1> QED BY <1>1, <1>2, <1>3, <1>4, <1>5 DEF Chain

LEMMA NodesMore ==
  ASSUME NEW ht \in Table, OnceEach(ht), NEW n \in Slot, NEW nodes,
         NodesOf(nodes, ht, n)
  PROVE  NodesOf(nodes \o ht[n], ht, n + 1)
<1> DEFINE chain == ht[n]
           all == nodes \o chain
           L == Len(nodes)
           C == Len(chain)
<1>1. /\ chain \in Seq(Node)
      /\ \A m \in DOMAIN chain :
           hash(chain[m].key) = n /\ read_pair(ht, chain[m].key) = chain[m].value
      /\ \A l, m \in DOMAIN chain : chain[l].key = chain[m].key => l = m
      /\ \A k \in Key : hash(k) = n /\ read_pair(ht, k) # NULL =>
           \E m \in DOMAIN chain : chain[m].key = k
  BY ChainNodes
<1>2. nodes \in Seq(Node) /\ L \in Nat /\ C \in Nat /\ n \in Nat
      /\ DOMAIN nodes = 1 .. L /\ DOMAIN chain = 1 .. C
  BY <1>1 DEF NodesOf, Slot
<1> HIDE DEF chain
<1>3. /\ all \in Seq(Node) /\ Len(all) = L + C /\ DOMAIN all = 1 .. L + C
      /\ \A m \in 1 .. L + C : all[m] = IF m <= L THEN nodes[m] ELSE chain[m - L]
  BY <1>1, <1>2, ConcatProperties
<1> HIDE DEF all
<1>4. \A m \in 1 .. L + C :
        \/ m \in 1 .. L /\ all[m] = nodes[m]
        \/ m - L \in 1 .. C /\ m = L + (m - L) /\ m > L /\ all[m] = chain[m - L]
  BY <1>2, <1>3
<1> HIDE DEF L, C
<1>5. ASSUME NEW m \in DOMAIN all
      PROVE  /\ hash(all[m].key) \in 0 .. (n + 1) - 1
             /\ read_pair(ht, all[m].key) = all[m].value
  <2>1. CASE m \in 1 .. L /\ all[m] = nodes[m]
    <3>1. hash(all[m].key) \in 0 .. n - 1
      BY <1>2, <2>1 DEF NodesOf
    <3> QED BY <1>2, <2>1, <3>1 DEF NodesOf
  <2>2. CASE m - L \in 1 .. C /\ all[m] = chain[m - L]
    BY <1>1, <1>2, <2>2
  <2> QED BY <1>3, <1>4, <2>1, <2>2
<1>6. ASSUME NEW l \in DOMAIN all, NEW m \in DOMAIN all, all[l].key = all[m].key
      PROVE  l = m
  <2>1. CASE l \in 1 .. L /\ m \in 1 .. L /\ all[l] = nodes[l] /\ all[m] = nodes[m]
    BY <1>2, <1>6, <2>1 DEF NodesOf
  <2>2. ASSUME NEW x \in 1 .. L + C, NEW y \in 1 .. L + C, x \in 1 .. L, all[x] = nodes[x],
               y - L \in 1 .. C, all[y] = chain[y - L], all[x].key = all[y].key
        PROVE  FALSE
    <3>1. hash(nodes[x].key) \in 0 .. n - 1
      BY <1>2, <2>2 DEF NodesOf
    <3>2. hash(chain[y - L].key) = n
      BY <1>1, <1>2, <2>2
    <3> QED BY <1>2, <2>2, <3>1, <3>2
  <2>3. CASE /\ l - L \in 1 .. C /\ m - L \in 1 .. C
             /\ l = L + (l - L) /\ m = L + (m - L)
             /\ all[l] = chain[l - L] /\ all[m] = chain[m - L]
    <3>1. l - L = m - L
      BY <1>1, <1>2, <1>6, <2>3
    <3> QED BY <2>3, <3>1
  <2> QED BY <1>3, <1>4, <1>6, <2>1, <2>2, <2>3
<1>7. ASSUME NEW k \in Key, hash(k) \in 0 .. (n + 1) - 1, read_pair(ht, k) # NULL
      PROVE  \E m \in DOMAIN all : all[m].key = k
  <2>1. CASE hash(k) = n
    <3>1. PICK m \in 1 .. C : chain[m].key = k
      BY <1>1, <1>2, <1>7, <2>1
    <3> DEFINE q == L + m
    <3>2. q \in 1 .. L + C /\ q - L = m /\ ~(q <= L)
      BY <1>2
    <3> HIDE DEF q
    <3>3. all[q] = IF q <= L THEN nodes[q] ELSE chain[q - L]
      BY <1>3, <3>2
    <3> QED BY <1>3, <3>1, <3>2, <3>3
  <2>2. CASE hash(k) # n
    <3>1. hash(k) \in 0 .. n - 1
      BY <1>2, <1>7, <2>2
    <3>2. PICK m \in 1 .. L : nodes[m].key = k
      BY <1>2, <1>7, <3>1 DEF NodesOf
    <3>3. m \in 1 .. L + C /\ m <= L
      BY <1>2
    <3> QED BY <1>3, <3>2, <3>3
  <2> QED BY <2>1, <2>2
<1>8. NodesOf(all, ht, n + 1)
  <2>1. \A m \in DOMAIN all : /\ hash(all[m].key) \in 0 .. (n + 1) - 1
                              /\ read_pair(ht, all[m].key) = all[m].value
    BY <1>5
  <2>2. \A l, m \in DOMAIN all : all[l].key = all[m].key => l = m
    BY <1>6
  <2>3. \A k \in Key : hash(k) \in 0 .. (n + 1) - 1 /\ read_pair(ht, k) # NULL =>
                       \E m \in DOMAIN all : all[m].key = k
    BY <1>7
  <2>4. all \in Seq(Node)
    BY <1>3
  <2> QED BY <2>1, <2>2, <2>3, <2>4, Zenon DEF NodesOf
<1> QED BY <1>8 DEF all, chain

\* SHOW passes every pair of the table once.
LEMMA NodesFound ==
  ASSUME NEW ht \in Table, OnceEach(ht)
  PROVE  NodesOf(Nodes(ht), ht, TABLE_SIZE)
<1> DEFINE N == TABLE_SIZE
           seqs == [n \in 1 .. N |-> ht[n - 1]]
<1>1. N \in Nat \ {0} /\ Slot = 0 .. N - 1
  BY TableAssumption DEF Slot
<1>2. \A n \in 1 .. N : n - 1 \in Slot /\ seqs[n] = ht[n - 1]
  BY <1>1
<1>3. Len(seqs) = N
  <2>1. \A n \in 1 .. N : ht[n - 1] \in Chain
    BY <1>2 DEF Table
  <2>2. seqs \in Seq(Chain)
    BY <1>1, <2>1
  <2>3. DOMAIN seqs = 1 .. N
    OBVIOUS
  <2> HIDE DEF seqs
  <2> QED BY <1>1, <2>2, <2>3
<1> HIDE DEF seqs, N
<1>4. PICK flat : /\ FlattenSeq(seqs) = flat[N]
                  /\ flat[1] = seqs[1]
                  /\ \A n \in 2 .. N : flat[n] = flat[n - 1] \o seqs[n]
  BY <1>1, <1>3, FlattenFound
<1> DEFINE S == {n \in 0 .. N - 1 : NodesOf(flat[n + 1], ht, n + 1)}
<1>5. 0 \in S
  <2>0. 0 \in Slot /\ 1 \in 1 .. N /\ 1 - 1 = 0 /\ 0 .. 1 - 1 = {0}
    BY <1>1
  <2>1. 0 \in Slot /\ flat[1] = ht[0] /\ 0 .. 1 - 1 = {0}
    BY <1>2, <1>4, <2>0
  <2>2. NodesOf(flat[1], ht, 1)
    BY <2>1, ChainNodes DEF NodesOf
  <2> QED BY <1>1, <2>2
<1>6. ASSUME NEW n \in 0 .. N - 1 - 1, n \in S PROVE n + 1 \in S
  <2>1. /\ n + 1 \in Slot /\ n + 1 + 1 \in 2 .. N /\ n + 1 + 1 - 1 = n + 1
        /\ n + 1 + 1 \in 1 .. N /\ n + 1 \in 0 .. N - 1
    BY <1>1
  <2>2. flat[n + 1 + 1] = flat[n + 1] \o ht[n + 1]
    <3> DEFINE q == n + 1 + 1
    <3>1. q \in 2 .. N /\ q \in 1 .. N /\ q - 1 = n + 1
      BY <2>1
    <3> HIDE DEF q
    <3>2. flat[q] = flat[q - 1] \o seqs[q] /\ seqs[q] = ht[q - 1]
      BY <1>2, <1>4, <3>1
    <3> QED BY <3>1, <3>2 DEF q
  <2>3. NodesOf(flat[n + 1] \o ht[n + 1], ht, n + 1 + 1)
    BY <1>6, <2>1, NodesMore
  <2> QED BY <2>1, <2>2, <2>3
<1>7. \A n \in 0 .. N - 1 : n \in S
  <2> HIDE DEF S
  <2>1. N - 1 \in Nat
    BY <1>1
  <2> QED BY <1>5, <1>6, <2>1, UpwardsTo
<1>8. NodesOf(flat[N], ht, N)
  <2>1. N - 1 \in 0 .. N - 1 /\ N - 1 + 1 = N
    BY <1>1
  <2> QED BY <1>7, <2>1
<1> QED BY <1>4, <1>8 DEF Nodes, seqs, N

\* The contents of a backup are the keys that are there, with their values.
LEMMA ContentsFound ==
  ASSUME NEW ht \in Table, OnceEach(ht)
  PROVE  Contents(ht) = {<<k, read_pair(ht, k)>> :
                           k \in {l \in Key : read_pair(ht, l) # NULL}}
<1> DEFINE nodes == Nodes(ht)
<1>1. NodesOf(nodes, ht, TABLE_SIZE)
  BY NodesFound
<1>2. Contents(ht) = {<<node.key, node.value>> : node \in Range(nodes)}
  BY DEF Contents
<1> HIDE DEF nodes
<1>3. Range(nodes) = {nodes[m] : m \in DOMAIN nodes}
  BY DEF Range
<1>4. \A m \in DOMAIN nodes : /\ nodes[m].key \in Key /\ nodes[m].value # NULL
                              /\ read_pair(ht, nodes[m].key) = nodes[m].value
  <2>1. \A m \in DOMAIN nodes : nodes[m] \in Node
    BY <1>1 DEF NodesOf
  <2>2. \A node \in Node : node.key \in Key /\ node.value # NULL
    BY TableAssumption DEF Node
  <2> QED BY <1>1, <2>1, <2>2 DEF NodesOf
<1>5. \A k \in Key : read_pair(ht, k) # NULL => \E m \in DOMAIN nodes : nodes[m].key = k
  BY <1>1, HashType DEF NodesOf, Slot
<1> QED BY <1>2, <1>3, <1>4, <1>5

-----------------------------------------------------------------------------
(* The invariant. *)

\* The command that the process has read is one of its job file.
LEMMA CommandRead ==
  ASSUME IInv, NEW op, Reads(op)
  PROVE  /\ file \in File /\ file # NoFile
         /\ offset[file] \in Nat /\ offset[file] < Len(files[file])
         /\ files[file][offset[file] + 1].op = op
         /\ offset' = [offset EXCEPT ![file] = @ + 1]
         /\ UNCHANGED <<files, entries, main, file>>
         /\ Applicable(op, pairs)
<1> DEFINE f == file
           n == offset[file] + 1
<1>1. /\ f \in File /\ f # NoFile /\ offset[f] \in Nat /\ files[f] \in Seq(Cmd)
      /\ offset[f] < Len(files[f])
      /\ offset' = [offset EXCEPT ![f] = @ + 1]
      /\ UNCHANGED <<files, entries, main, file>>
      /\ files[f][n].op = op
  BY DEF Reads, IInv, TypeOK, scan
<1>2. n \in DOMAIN files[f]
  BY <1>1
<1>3. files[f][n] \in Cmd
  BY <1>1, <1>2
<1>4. pairs = files[f][n].pairs
  BY DEF pairs
<1>5. files \in JobSets
  BY DEF IInv
<1> HIDE DEF n, f
<1>6. pairs \in Seq(Pair)
  BY <1>3, <1>4 DEF Cmd, Pair
<1>7. op = "WRITE" => \A j \in DOMAIN pairs : pairs[j].value \in Value
  BY <1>1, <1>2, <1>4, <1>5, SequentialAssumption
<1> QED BY <1>1, <1>6, <1>7 DEF Applicable, f, n

\* What a loop over the pairs leaves is a table with each key once.
LEMMA LoopKeeps ==
  ASSUME table \in Table, OnceEach(table), NEW op, NEW ps, Applicable(op, ps)
  PROVE  Tables(op, ps)[Len(ps)] \in Table /\ OnceEach(Tables(op, ps)[Len(ps)])
<1>1. Len(ps) \in 0 .. Len(ps)
  BY DEF Applicable
<1> QED BY <1>1, TablesFound, LoopReads

\* The command reads one more place of its own file only.
LEMMA OffsetType ==
  ASSUME IInv, NEW op, Reads(op)
  PROVE  offset' \in [File -> Nat]
<1>1. offset \in [File -> Nat]
  BY DEF IInv, TypeOK
<1> QED BY <1>1, CommandRead

\* The answers of a command become entries.
LEMMA PrintsType ==
  ASSUME IInv, NEW op, Reads(op), NEW answers, NEW n \in Nat, DOMAIN answers = 1 .. n,
         \A j \in 1 .. n : answers[j].key \in Key /\ answers[j].value \in Value \cup {NULL},
         Prints(answers)
  PROVE  out' \in [File -> Seq(Entry)]
<1> DEFINE more == [j \in DOMAIN answers |-> [at |-> offset[file] + 1,
                                              key |-> answers[j].key,
                                              value |-> answers[j].value]]
<1>1. file \in File /\ offset[file] + 1 \in Nat
  BY CommandRead
<1>2. more \in Seq(Entry)
  <2>1. \A j \in 1 .. n : [at |-> offset[file] + 1, key |-> answers[j].key,
                           value |-> answers[j].value] \in Entry
    BY <1>1 DEF Entry
  <2> QED BY <2>1
<1>3. out' = [out EXCEPT ![file] = @ \o more]
  BY DEF Prints
<1> HIDE DEF more
<1>4. out \in [File -> Seq(Entry)]
  BY DEF IInv, TypeOK
<1>5. out[file] \o more \in Seq(Entry)
  BY <1>1, <1>2, <1>4, ConcatProperties
<1> QED BY <1>3, <1>4, <1>5

LEMMA ReadPrints ==
  ASSUME IInv, kvs_read
  PROVE  out' \in [File -> Seq(Entry)]
<1> DEFINE answers == [j \in DOMAIN pairs |-> Answer(pairs[j].key, read_pair(table, pairs[j].key))]
<1>1. Reads("READ") /\ Prints(answers)
  BY DEF kvs_read
<1>2. pairs \in Seq(Pair) /\ table \in Table
  BY <1>1, CommandRead DEF Applicable, IInv, TypeOK
<1>3. Len(pairs) \in Nat /\ DOMAIN answers = 1 .. Len(pairs)
  BY <1>2
<1>4. ASSUME NEW j \in 1 .. Len(pairs)
      PROVE  answers[j].key \in Key /\ answers[j].value \in Value \cup {NULL}
  <2>1. pairs[j].key \in Key
    <3>1. pairs[j] \in Pair
      BY <1>2
    <3> QED BY <3>1 DEF Pair
  <2>2. answers[j] = Answer(pairs[j].key, read_pair(table, pairs[j].key))
    BY <1>3
  <2>3. read_pair(table, pairs[j].key) \in Value \cup {NULL}
    BY <1>2, <2>1, ReadType
  <2> HIDE DEF answers
  <2> QED BY <2>1, <2>2, <2>3 DEF Answer
<1> HIDE DEF answers
<1> QED BY <1>1, <1>3, <1>4, PrintsType

LEMMA DeletePrints ==
  ASSUME IInv, kvs_delete
  PROVE  out' \in [File -> Seq(Entry)]
<1> DEFINE answers == Misses(pairs)[Len(pairs)]
           gone == GoneUpTo(pairs, Len(pairs))
           n == Cardinality(gone)
<1>1. Reads("DELETE") /\ Prints(answers)
  BY DEF kvs_delete
<1>2. Applicable("DELETE", pairs) /\ table \in Table /\ OnceEach(table)
  BY <1>1, CommandRead DEF IInv, TypeOK, ChainsWellFormed
<1>3. pairs \in Seq(Pair) /\ Len(pairs) \in Nat /\ n \in Nat
  BY <1>2, GoneFinite DEF Applicable
<1>4. PICK at : Lists(at, gone) /\ answers = MissesOf(pairs, at)
  BY <1>2, MissesAreGone
<1> HIDE DEF answers
<1>5. at \in [1 .. n -> gone]
  BY <1>4 DEF Lists
<1>6. DOMAIN answers = 1 .. n
  BY <1>4, <1>5 DEF MissesOf
<1>7. ASSUME NEW j \in 1 .. n
      PROVE  answers[j].key \in Key /\ answers[j].value \in Value \cup {NULL}
  <2>1. answers[j] = Answer(pairs[at[j]].key, NULL)
    BY <1>4, <1>5 DEF MissesOf
  <2>2. at[j] \in 1 .. Len(pairs)
    <3>1. at[j] \in gone
      BY <1>5
    <3> QED BY <3>1 DEF GoneUpTo
  <2>3. pairs[at[j]].key \in Key
    <3>1. pairs[at[j]] \in Pair
      BY <1>3, <2>2
    <3> QED BY <3>1 DEF Pair
  <2> QED BY <2>1, <2>3 DEF Answer
<1> HIDE DEF n
<1> QED BY <1>1, <1>3, <1>6, <1>7, PrintsType

LEMMA ShowPrints ==
  ASSUME IInv, kvs_show
  PROVE  out' \in [File -> Seq(Entry)]
<1> DEFINE answers == Nodes(table)
<1>1. Reads("SHOW") /\ Prints(answers)
  BY DEF kvs_show
<1>2. answers \in Seq(Node)
  BY NodesFound DEF NodesOf, IInv, TypeOK, ChainsWellFormed
<1> HIDE DEF answers
<1>3. Len(answers) \in Nat /\ DOMAIN answers = 1 .. Len(answers)
  BY <1>2
<1>4. ASSUME NEW j \in 1 .. Len(answers)
      PROVE  answers[j].key \in Key /\ answers[j].value \in Value \cup {NULL}
  <2>1. answers[j] \in Node
    BY <1>2
  <2> QED BY <2>1 DEF Node
<1> QED BY <1>1, <1>3, <1>4, PrintsType

\* A backup is a set of keys with their values.
LEMMA ContentsType ==
  ASSUME NEW ht \in Table, OnceEach(ht)
  PROVE  Contents(ht) \subseteq Key \X Value
<1> DEFINE Here == {l \in Key : read_pair(ht, l) # NULL}
<1>1. Contents(ht) = {<<k, read_pair(ht, k)>> : k \in Here}
  BY ContentsFound
<1>2. \A k \in Here : k \in Key /\ read_pair(ht, k) \in Value
  BY ReadType
<1> HIDE DEF Here
<1> QED BY <1>1, <1>2

LEMMA InitInvariant == Init => IInv
<1> SUFFICES ASSUME Init PROVE IInv
  OBVIOUS
<1>1. TypeOK
  BY CreateType, SequentialAssumption DEF Init, TypeOK
<1>2. ChainsWellFormed
  BY DEF Init, ChainsWellFormed, OnceEach, create_hash_table
<1>3. Counted
  <2>1. file = NoFile /\ entries = File /\ \A f \in entries : f # file /\ offset[f] = 0
    BY SequentialAssumption DEF Init
  <2> QED BY <2>1 DEF Counted
<1> QED BY <1>1, <1>2, <1>3 DEF Init, IInv

LEMMA TypeStep == IInv /\ [Next]_vars => TypeOK'
<1> SUFFICES ASSUME IInv, [Next]_vars PROVE TypeOK'
  OBVIOUS
<1>t. TypeOK
  BY DEF IInv
<1>c. ASSUME NEW op, Reads(op),
             table' \in Table, out' \in [File -> Seq(Entry)], num_backups' \in Nat,
             running' \subseteq [file : File, n : Nat, snapshot : Table],
             backups' = backups
      PROVE  TypeOK'
  BY <1>t, <1>c, OffsetType, CommandRead DEF TypeOK
<1>1. ASSUME NEW f \in File, NextEntry(f) PROVE TypeOK'
  BY <1>t, <1>1 DEF NextEntry, TypeOK
<1>2. CASE kvs_write
  <2>1. Reads("WRITE") /\ table' = Tables("WRITE", pairs)[Len(pairs)]
        /\ UNCHANGED <<out, num_backups, running, backups>>
    BY <1>2 DEF kvs_write
  <2>2. table' \in Table
    BY <1>t, <2>1, CommandRead, LoopKeeps DEF IInv, TypeOK, ChainsWellFormed
  <2> QED BY <1>t, <1>c, <2>1, <2>2 DEF TypeOK
<1>3. CASE kvs_read
  <2>1. Reads("READ") /\ UNCHANGED <<table, num_backups, running, backups>>
    BY <1>3 DEF kvs_read
  <2>2. out' \in [File -> Seq(Entry)]
    BY <1>3, ReadPrints
  <2> QED BY <1>t, <1>c, <2>1, <2>2 DEF TypeOK
<1>4. CASE kvs_delete
  <2>1. Reads("DELETE") /\ table' = Tables("DELETE", pairs)[Len(pairs)]
        /\ UNCHANGED <<num_backups, running, backups>>
    BY <1>4 DEF kvs_delete
  <2>2. out' \in [File -> Seq(Entry)]
    BY <1>4, DeletePrints
  <2>3. table' \in Table
    BY <1>t, <2>1, CommandRead, LoopKeeps DEF IInv, TypeOK, ChainsWellFormed
  <2> QED BY <1>t, <1>c, <2>1, <2>2, <2>3 DEF TypeOK
<1>5. CASE kvs_show
  <2>1. Reads("SHOW") /\ UNCHANGED <<table, num_backups, running, backups>>
    BY <1>5 DEF kvs_show
  <2>2. out' \in [File -> Seq(Entry)]
    BY <1>5, ShowPrints
  <2> QED BY <1>t, <1>c, <2>1, <2>2 DEF TypeOK
<1>6. CASE Skip
  <2>1. PICK op : Reads(op)
    BY <1>6 DEF Skip
  <2> QED BY <1>t, <1>c, <1>6, <2>1 DEF Skip, TypeOK
<1>7. CASE Fork
  <2> DEFINE child == [file |-> file, n |-> num_backups', snapshot |-> table]
  <2>1. Reads("BACKUP") /\ num_backups' = num_backups + 1
        /\ running' = running \cup {child} /\ UNCHANGED <<table, out, backups>>
    BY <1>7 DEF Fork
  <2>2. child \in [file : File, n : Nat, snapshot : Table]
    BY <1>t, <2>1, CommandRead DEF TypeOK
  <2> HIDE DEF child
  <2>3. running' \subseteq [file : File, n : Nat, snapshot : Table]
    BY <1>t, <2>1, <2>2 DEF TypeOK
  <2> QED BY <1>t, <1>c, <2>1, <2>3 DEF TypeOK
<1>8. CASE ForkFails
  <2>1. Reads("BACKUP") /\ num_backups' = num_backups + 1
        /\ UNCHANGED <<table, out, running, backups>>
    BY <1>8 DEF ForkFails
  <2>2. /\ table' \in Table /\ out' \in [File -> Seq(Entry)] /\ num_backups' \in Nat
        /\ running' \subseteq [file : File, n : Nat, snapshot : Table]
    BY <1>t, <2>1 DEF TypeOK
  <2> QED BY <1>c, <2>1, <2>2
<1>9. CASE EndOfFile
  BY <1>t, <1>9 DEF EndOfFile, TypeOK, scan
<1>10. CASE Terminate
  BY <1>t, <1>10 DEF Terminate, TypeOK
<1>11. ASSUME NEW c \in running, kvs_backup(c) PROVE TypeOK'
  <2> DEFINE b == BackupOf(c)
  <2>1. /\ running' = running \ {c} /\ backups' = backups \cup {b}
        /\ UNCHANGED <<table, files, entries, main, file, offset, out, num_backups>>
    BY <1>11 DEF kvs_backup, scan
  <2>2. /\ c.file \in File /\ c.n \in Nat /\ c.snapshot \in Table
        /\ OnceEach(c.snapshot)
    BY <1>t DEF TypeOK, IInv, ChainsWellFormed
  <2>3. b \in [file : File, n : Nat, contents : SUBSET (Key \X Value)]
    BY <2>2, ContentsType DEF BackupOf
  <2> HIDE DEF b
  <2> QED BY <1>t, <2>1, <2>3 DEF TypeOK
<1>12. CASE Ended \/ UNCHANGED vars
  BY <1>t, <1>12 DEF Ended, vars, scan, TypeOK
<1> QED BY <1>1, <1>2, <1>3, <1>4, <1>5, <1>6, <1>7, <1>8, <1>9, <1>10, <1>11, <1>12
        DEF Next, Process, Child

\* No step but WRITE and DELETE changes the table; a child gets a copy of it.
LEMMA ChainsStep == IInv /\ [Next]_vars => ChainsWellFormed'
<1> SUFFICES ASSUME IInv, [Next]_vars PROVE ChainsWellFormed'
  OBVIOUS
<1>c. table \in Table /\ OnceEach(table) /\ \A c \in running : OnceEach(c.snapshot)
  BY DEF IInv, TypeOK, ChainsWellFormed
<1>1. CASE kvs_write \/ kvs_delete
  <2>1. PICK op : Reads(op) /\ table' = Tables(op, pairs)[Len(pairs)]
                  /\ running' = running
    BY <1>1 DEF kvs_write, kvs_delete
  <2>2. OnceEach(table')
    BY <1>c, <2>1, CommandRead, LoopKeeps
  <2> QED BY <1>c, <2>1, <2>2 DEF ChainsWellFormed
<1>2. CASE Fork
  <2> DEFINE child == [file |-> file, n |-> num_backups', snapshot |-> table]
  <2>1. running' = running \cup {child} /\ table' = table
    BY <1>2 DEF Fork
  <2>2. OnceEach(child.snapshot)
    BY <1>c
  <2> HIDE DEF child
  <2> QED BY <1>c, <2>1, <2>2 DEF ChainsWellFormed
<1>3. ASSUME table' = table, running' \subseteq running PROVE ChainsWellFormed'
  BY <1>c, <1>3 DEF ChainsWellFormed
<1>4. ASSUME NEW c \in running, kvs_backup(c) PROVE ChainsWellFormed'
  BY <1>3, <1>4 DEF kvs_backup
<1>5. CASE \/ \E f \in File : NextEntry(f)
           \/ kvs_read \/ kvs_show \/ Skip \/ ForkFails \/ EndOfFile
           \/ Terminate \/ Ended \/ UNCHANGED vars
  BY <1>3, <1>5 DEF NextEntry, kvs_read, kvs_show, Skip, ForkFails, EndOfFile,
     Terminate, Ended, vars
<1> QED BY <1>1, <1>2, <1>4, <1>5 DEF Next, Process, Child

\* Reading one more command counts it if it is a BACKUP.
LEMMA OneMoreBackup ==
  ASSUME NEW f, NEW n \in Nat
  PROVE  BackupsUpTo(f, n + 1) =
           BackupsUpTo(f, n) + (IF files[f][n + 1].op = "BACKUP" THEN 1 ELSE 0)
<1> DEFINE B(m) == {j \in 1 .. m : files[f][j].op = "BACKUP"}
           op == files[f][n + 1].op
<1>1. IsFiniteSet(B(n)) /\ n + 1 \notin B(n) /\ Cardinality(B(n)) \in Nat
  <2>1. IsFiniteSet(1 .. n)
    BY FS_Interval
  <2>2. IsFiniteSet(B(n))
    BY <2>1, FS_Subset
  <2>3. n + 1 \notin B(n)
    OBVIOUS
  <2> QED BY <2>2, <2>3, FS_CardinalityType
<1>2. \A j : j \in 1 .. n + 1 <=> j = n + 1 \/ j \in 1 .. n
  OBVIOUS
<1>3. B(n + 1) = IF op = "BACKUP" THEN B(n) \cup {n + 1} ELSE B(n)
  BY <1>2
<1>4. Cardinality(B(n + 1)) = Cardinality(B(n)) + (IF op = "BACKUP" THEN 1 ELSE 0)
  <2> HIDE DEF B, op
  <2>1. Cardinality(B(n) \cup {n + 1}) = Cardinality(B(n)) + 1
    BY <1>1, FS_AddElement
  <2> QED BY <1>1, <1>3, <2>1
<1> QED BY <1>4 DEF BackupsUpTo

LEMMA CountedStep == IInv /\ [Next]_vars => Counted'
<1> SUFFICES ASSUME IInv, [Next]_vars PROVE Counted'
  OBVIOUS
<1>c. /\ file # NoFile => num_backups = BackupsUpTo(file, offset[file])
      /\ \A f \in entries : f # file /\ offset[f] = 0
      /\ entries \subseteq File /\ offset \in [File -> Nat]
      /\ NoFile \notin File
  BY SequentialAssumption DEF IInv, TypeOK, Counted
<1>0. ASSUME NEW f PROVE BackupsUpTo(f, 0) = 0
  <2>1. {j \in 1 .. 0 : files[f][j].op = "BACKUP"} = {}
    OBVIOUS
  <2> QED BY <2>1, FS_EmptySet DEF BackupsUpTo
<1>1. ASSUME NEW op, Reads(op),
             num_backups' = num_backups + (IF op = "BACKUP" THEN 1 ELSE 0)
      PROVE  Counted'
  <2>1. /\ file \in File /\ file # NoFile /\ files[file][offset[file] + 1].op = op
        /\ file' = file /\ files' = files /\ entries' = entries
        /\ offset' = [offset EXCEPT ![file] = offset[file] + 1]
        /\ offset[file] \in Nat
    BY <1>1, CommandRead
  <2>2. num_backups' = BackupsUpTo(file, offset[file] + 1)
    BY <1>1, <1>c, <2>1, OneMoreBackup
  <2>3. offset'[file] = offset[file] + 1
    BY <1>c, <2>1
  <2>4. num_backups' = BackupsUpTo(file, offset[file])'
    BY <2>1, <2>2, <2>3 DEF BackupsUpTo
  <2>5. \A f \in entries' : f # file' /\ offset'[f] = 0
    BY <1>c, <2>1
  <2> QED BY <2>4, <2>5 DEF Counted
<1>2. ASSUME NEW op, Reads(op), op # "BACKUP", num_backups' = num_backups
      PROVE  Counted'
  <2>1. num_backups' = num_backups + (IF op = "BACKUP" THEN 1 ELSE 0)
    BY <1>2 DEF IInv, TypeOK
  <2> QED BY <1>1, <1>2, <2>1
<1>3. CASE kvs_write \/ kvs_read \/ kvs_delete \/ kvs_show \/ Skip
  <2>1. \E op : Reads(op) /\ op # "BACKUP" /\ num_backups' = num_backups
    BY <1>3 DEF kvs_write, kvs_read, kvs_delete, kvs_show, Skip
  <2> QED BY <1>2, <2>1
<1>4. CASE Fork \/ ForkFails
  <2>1. Reads("BACKUP") /\ num_backups' = num_backups + 1
    BY <1>4 DEF Fork, ForkFails
  <2> QED BY <1>1, <2>1
<1>5. ASSUME NEW f \in File, NextEntry(f) PROVE Counted'
  <2>1. /\ f \in entries /\ entries' = entries \ {f} /\ file' = f /\ num_backups' = 0
        /\ offset' = offset /\ files' = files
    BY <1>5 DEF NextEntry
  <2>2. offset'[f] = 0
    BY <1>c, <2>1
  <2>3. BackupsUpTo(f, 0) = 0
    BY <1>0
  <2>5. num_backups' = BackupsUpTo(file, offset[file])'
    BY <2>1, <2>2, <2>3 DEF BackupsUpTo
  <2> QED BY <1>c, <2>1, <2>5 DEF Counted
<1>6. CASE EndOfFile
  BY <1>c, <1>6 DEF EndOfFile, Counted, scan
<1>7. ASSUME entries' = entries, UNCHANGED <<files, file, offset, num_backups>>
      PROVE  Counted'
  BY <1>c, <1>7 DEF Counted, BackupsUpTo
<1>8. CASE Terminate \/ Child \/ Ended \/ UNCHANGED vars
  BY <1>7, <1>8 DEF Terminate, Child, kvs_backup, Ended, vars, scan
<1> QED BY <1>3, <1>4, <1>5, <1>6, <1>8 DEF Next, Process

LEMMA FilesStep == IInv /\ [Next]_vars => files' \in JobSets
<1> SUFFICES ASSUME IInv, [Next]_vars PROVE files' = files
  BY DEF IInv
<1>1. ASSUME NEW op, Reads(op) PROVE files' = files
  BY <1>1, CommandRead
<1>2. CASE kvs_write \/ kvs_read \/ kvs_delete \/ kvs_show \/ Skip \/ Fork \/ ForkFails
  BY <1>1, <1>2 DEF kvs_write, kvs_read, kvs_delete, kvs_show, Skip, Fork, ForkFails
<1>3. CASE \/ (\E f \in File : NextEntry(f)) \/ EndOfFile \/ Terminate
           \/ Child \/ Ended \/ UNCHANGED vars
  BY <1>3 DEF NextEntry, EndOfFile, Terminate, Child, kvs_backup, Ended, vars
<1> QED BY <1>2, <1>3 DEF Next, Process

THEOREM Invariant == Spec => []IInv
<1>1. IInv /\ [Next]_vars => IInv'
  BY TypeStep, ChainsStep, CountedStep, FilesStep DEF IInv
<1> QED BY InitInvariant, <1>1, PTL DEF Spec

\* Every variable keeps its type: the loops over the pairs and over the chains
\* make tables and entries, for any files, commands, keys and values.
THEOREM TypeCorrect == Spec => []TypeOK
<1>1. IInv => TypeOK
  BY DEF IInv
<1> QED BY <1>1, Invariant, PTL

-----------------------------------------------------------------------------
(* Each step is one of AtomicKVS, or changes nothing of it. *)

LEMMA SameCardinality == ASSUME NEW S PROVE Abstract!Cardinality(S) = Cardinality(S)
BY DEF Abstract!Cardinality, Cardinality

LEMMA StoreReads == \A k \in Key : store[k] = read_pair(table, k)
BY DEF store

LEMMA TakesIt ==
  ASSUME IInv, NEW op, Reads(op)
  PROVE  Abstract!Takes(file, op) /\ Abstract!Pairs(file) = pairs
BY CommandRead DEF Abstract!Takes, Abstract!Pairs, pairs

\* The abstract state depends on the table, the output and the backups.
LEMMA Stutters ==
  ASSUME table' = table, UNCHANGED <<files, offset, out>>, AllBackups' = AllBackups
  PROVE  UNCHANGED Abstract!vars
<1>1. store' = store
  BY DEF store
<1> QED BY <1>1 DEF Abstract!vars

LEMMA BackupsKept ==
  ASSUME backups' = backups, running' = running
  PROVE  AllBackups' = AllBackups
BY DEF AllBackups, BackupOf

\* Going to another file, or to an end, is no command.
LEMMA ScanStutters ==
  ASSUME \/ \E f \in File : NextEntry(f)
         \/ EndOfFile \/ Terminate \/ Ended \/ UNCHANGED vars
  PROVE  UNCHANGED Abstract!vars
<1>1. UNCHANGED <<table, files, offset, out, running, backups>>
  BY DEF NextEntry, EndOfFile, Terminate, Ended, vars
<1> QED BY <1>1, Stutters, BackupsKept

\* A child writes the file that its fork has settled.
LEMMA ChildStutters ==
  ASSUME NEW c \in running, kvs_backup(c)
  PROVE  UNCHANGED Abstract!vars
<1>1. /\ backups' = backups \cup {BackupOf(c)} /\ running' = running \ {c}
      /\ UNCHANGED <<table, files, offset, out>>
  BY DEF kvs_backup
<1>2. AllBackups' = backups' \cup {BackupOf(d) : d \in running'}
  BY DEF AllBackups, BackupOf
<1>3. {BackupOf(d) : d \in running} = {BackupOf(c)} \cup {BackupOf(d) : d \in running \ {c}}
  OBVIOUS
<1>4. AllBackups' = AllBackups
  BY <1>1, <1>2, <1>3 DEF AllBackups
<1> QED BY <1>1, <1>4, Stutters

\* The last pair that names a key gives its value.
LEMMA WriteIsAtomic ==
  ASSUME IInv, kvs_write
  PROVE  Abstract!Write(file)
<1> DEFINE ps == pairs
           N == Len(ps)
<1>1. /\ Reads("WRITE") /\ table' = Tables("WRITE", ps)[N]
      /\ UNCHANGED <<out, running, backups>>
  BY DEF kvs_write
<1>2. /\ Applicable("WRITE", ps) /\ table \in Table /\ OnceEach(table)
  BY <1>1, CommandRead DEF IInv, TypeOK, ChainsWellFormed
<1>3. ps \in Seq(Pair) /\ N \in Nat /\ DOMAIN ps = 1 .. N /\ N \in 0 .. N
  BY <1>2 DEF Applicable
<1>4. ASSUME NEW k \in Key
      PROVE  /\ (\A j \in 1 .. N : ps[j].key # k) => read_pair(table', k) = read_pair(table, k)
             /\ \A j \in 1 .. N :
                  ps[j].key = k /\ (\A l \in j + 1 .. N : ps[l].key # k) =>
                    read_pair(table', k) = ps[j].value
  <2>1. \A i \in 0 .. N : \A key \in Key :
          /\ (\A j \in 1 .. i : ps[j].key # key) =>
               read_pair(Tables("WRITE", ps)[i], key) = read_pair(table, key)
          /\ \A j \in 1 .. i :
               ps[j].key = key /\ (\A l \in j + 1 .. i : ps[l].key # key) =>
                 read_pair(Tables("WRITE", ps)[i], key) = ps[j].value
    <3> HIDE DEF ps
    <3> QED BY <1>2, LoopReads
  <2> HIDE DEF ps, N
  <2> QED BY <1>1, <1>3, <2>1
<1> HIDE DEF ps, N
<1>5. ASSUME NEW k \in Key
      PROVE  read_pair(table', k) = IF \E j \in DOMAIN ps : ps[j].key = k
                                    THEN Abstract!Written(ps, k) ELSE store[k]
  <2> DEFINE At == {j \in DOMAIN ps : ps[j].key = k}
  <2>1. CASE At = {}
    BY <1>3, <1>4, <2>1, StoreReads
  <2>2. CASE At # {}
    <3>1. At \in SUBSET (1 .. N)
      BY <1>3
    <3>2. PICK j \in At : \A l \in At : l <= j
      <4> HIDE DEF At
      <4> QED BY <1>3, <2>2, <3>1, GreatestNumber
    <3>3. (CHOOSE m \in At : \A l \in At : l <= m) = j
      <4> HIDE DEF At
      <4> QED BY <1>3, <3>1, <3>2, LastAt
    <3>4. Abstract!Written(ps, k) = ps[j].value
      BY <3>3 DEF Abstract!Written
    <3>5. \A l \in j + 1 .. N : ps[l].key # k
      <4> SUFFICES ASSUME NEW l \in j + 1 .. N, ps[l].key = k PROVE FALSE
        OBVIOUS
      <4>1. l \in At /\ j \in Int /\ l > j
        BY <1>3, <3>1
      <4> QED BY <3>1, <3>2, <4>1
    <3>6. read_pair(table', k) = ps[j].value
      BY <1>3, <1>4, <3>2, <3>5
    <3>7. \E m \in DOMAIN ps : ps[m].key = k
      BY <2>2
    <3> QED BY <3>4, <3>6, <3>7
  <2> QED BY <2>1, <2>2
<1>6. store' = [k \in Key |-> read_pair(table', k)]
  BY DEF store
<1>7. store' = [k \in Key |-> IF \E j \in DOMAIN ps : ps[j].key = k
                              THEN Abstract!Written(ps, k) ELSE store[k]]
  BY <1>5, <1>6
<1>8. Abstract!Takes(file, "WRITE") /\ Abstract!Pairs(file) = ps
  BY <1>1, TakesIt DEF ps
<1>9. AllBackups' = AllBackups
  BY <1>1, BackupsKept
<1> QED BY <1>1, <1>7, <1>8, <1>9 DEF Abstract!Write

\* The answers come in the order of the pairs.
LEMMA ReadIsAtomic ==
  ASSUME IInv, kvs_read
  PROVE  Abstract!Read(file)
<1> DEFINE ps == pairs
           N == Len(ps)
           f == file
           answers == [j \in DOMAIN ps |-> Abstract!Answer(f, ps[j].key, store[ps[j].key])]
           id == [j \in 1 .. N |-> j]
<1>1. /\ Reads("READ")
      /\ Prints([j \in DOMAIN ps |-> Answer(ps[j].key, read_pair(table, ps[j].key))])
      /\ UNCHANGED <<table, running, backups>>
  BY DEF kvs_read
<1>2. ps \in Seq(Pair)
  BY <1>1, CommandRead DEF Applicable
<1>3. N \in Nat /\ DOMAIN ps = 1 .. N /\ \A j \in 1 .. N : ps[j].key \in Key
  <2>1. \A j \in 1 .. N : ps[j] \in Pair
    BY <1>2
  <2> QED BY <1>2, <2>1 DEF Pair
<1>4. out' = [out EXCEPT ![f] = @ \o answers]
  <2> DEFINE given == [j \in DOMAIN ps |-> Answer(ps[j].key, read_pair(table, ps[j].key))]
             more == [j \in DOMAIN given |-> [at |-> offset[f] + 1, key |-> given[j].key,
                                              value |-> given[j].value]]
  <2>1. out' = [out EXCEPT ![f] = @ \o more]
    BY <1>1 DEF Prints
  <2>2. \A j \in 1 .. N : more[j] = answers[j]
    <3> SUFFICES ASSUME NEW j \in 1 .. N PROVE more[j] = answers[j]
      OBVIOUS
    <3>1. given[j] = Answer(ps[j].key, store[ps[j].key])
      BY <1>3, StoreReads
    <3>2. more[j] = [at |-> offset[f] + 1, key |-> given[j].key, value |-> given[j].value]
      BY <1>3
    <3>3. answers[j] = Abstract!Answer(f, ps[j].key, store[ps[j].key])
      BY <1>3
    <3> HIDE DEF given, more, answers, f
    <3> QED BY <3>1, <3>2, <3>3 DEF Answer, Abstract!Answer
  <2>3. more = answers
    <3>1. DOMAIN more = 1 .. N /\ DOMAIN answers = 1 .. N
      BY <1>3
    <3>2. more = [j \in 1 .. N |-> more[j]] /\ answers = [j \in 1 .. N |-> answers[j]]
      BY <3>1
    <3> HIDE DEF more, answers
    <3> QED BY <2>2, <3>2
  <2> HIDE DEF more, answers
  <2> QED BY <2>1, <2>3
<1>5. answers \in Abstract!Arrangements(answers)
  <2>1. Len(answers) = N
    BY <1>3
  <2>2. id \in Abstract!Permutations(N)
    BY <1>3 DEF Abstract!Permutations
  <2>3. answers = [j \in DOMAIN answers |-> answers[id[j]]]
    BY <1>3
  <2> HIDE DEF answers, id
  <2> QED BY <2>1, <2>2, <2>3 DEF Abstract!Arrangements
<1>6. Abstract!Prints(f, answers)
  <2> HIDE DEF answers
  <2> QED BY <1>4, <1>5 DEF Abstract!Prints
<1>7. Abstract!Takes(f, "READ") /\ Abstract!Pairs(f) = ps
  BY <1>1, TakesIt
<1>8. store' = store /\ AllBackups' = AllBackups
  BY <1>1, BackupsKept DEF store
<1> QED BY <1>6, <1>7, <1>8 DEF Abstract!Read

\* Every place of a missing key is reported once.
LEMMA DeleteIsAtomic ==
  ASSUME IInv, kvs_delete
  PROVE  Abstract!Delete(file)
<1> DEFINE ps == pairs
           N == Len(ps)
           f == file
           gone == GoneUpTo(ps, N)
<1>1. /\ Reads("DELETE") /\ table' = Tables("DELETE", ps)[N]
      /\ Prints(Misses(ps)[N])
      /\ UNCHANGED <<running, backups>>
  BY DEF kvs_delete
<1>2. Applicable("DELETE", ps) /\ table \in Table /\ OnceEach(table)
  BY <1>1, CommandRead DEF IInv, TypeOK, ChainsWellFormed
<1>3. /\ ps \in Seq(Pair) /\ N \in Nat /\ DOMAIN ps = 1 .. N /\ N \in 0 .. N
      /\ \A j \in 1 .. N : ps[j].key \in Key
  <2>1. ps \in Seq(Pair)
    BY <1>2 DEF Applicable
  <2>2. \A j \in 1 .. N : ps[j] \in Pair
    BY <2>1
  <2>3. \A j \in 1 .. N : ps[j].key \in Key
    <3> HIDE DEF ps
    <3> QED BY <2>2 DEF Pair
  <2> QED BY <2>1, <2>3
<1>4. PICK at : Lists(at, gone) /\ Misses(ps)[N] = MissesOf(ps, at)
  <2> HIDE DEF ps
  <2> QED BY <1>2, MissesAreGone
<1>5. Abstract!Takes(f, "DELETE") /\ Abstract!Pairs(f) = ps
  BY <1>1, TakesIt
<1>6. ASSUME NEW k \in Key
      PROVE  read_pair(table', k) = IF \E j \in DOMAIN ps : ps[j].key = k
                                    THEN NULL ELSE store[k]
  <2> HIDE DEF ps
  <2>1. \A i \in 0 .. N : \A key \in Key :
          /\ (\A j \in 1 .. i : ps[j].key # key) =>
               read_pair(Tables("DELETE", ps)[i], key) = read_pair(table, key)
          /\ \A j \in 1 .. i :
               ps[j].key = key /\ (\A l \in j + 1 .. i : ps[l].key # key) =>
                 read_pair(Tables("DELETE", ps)[i], key) = NULL
    BY <1>2, LoopReads
  <2> HIDE DEF N
  <2>2. /\ (\A j \in 1 .. N : ps[j].key # k) => read_pair(table', k) = read_pair(table, k)
        /\ \A j \in 1 .. N :
             ps[j].key = k /\ (\A l \in j + 1 .. N : ps[l].key # k) =>
               read_pair(table', k) = NULL
    BY <1>1, <1>3, <2>1
  <2> DEFINE At == {j \in DOMAIN ps : ps[j].key = k}
  <2>3. CASE At = {}
    BY <1>3, <2>2, <2>3, StoreReads
  <2>4. CASE At # {}
    <3>1. At \in SUBSET (1 .. N)
      BY <1>3
    <3>2. PICK j \in At : \A l \in At : l <= j
      <4> HIDE DEF At
      <4> QED BY <1>3, <2>4, <3>1, GreatestNumber
    <3>3. \A l \in j + 1 .. N : ps[l].key # k
      <4> SUFFICES ASSUME NEW l \in j + 1 .. N, ps[l].key = k PROVE FALSE
        OBVIOUS
      <4>1. l \in At /\ j \in Int /\ l > j
        BY <1>3, <3>1
      <4> QED BY <3>1, <3>2, <4>1
    <3> QED BY <1>3, <2>2, <3>2, <3>3
  <2> QED BY <2>3, <2>4
<1>7. store' = [k \in Key |-> IF \E j \in DOMAIN ps : ps[j].key = k THEN NULL ELSE store[k]]
  <2>1. store' = [k \in Key |-> read_pair(table', k)]
    BY DEF store
  <2> HIDE DEF ps
  <2> QED BY <1>6, <2>1
<1>8. AllBackups' = AllBackups
  BY <1>1, BackupsKept
<1>9. {j \in DOMAIN ps : Abstract!Missing(ps, j)} = gone
  <2> HIDE DEF ps
  <2>1. \A j \in 1 .. N : store[ps[j].key] = read_pair(table, ps[j].key)
    BY <1>3, StoreReads
  <2> HIDE DEF N
  <2> QED BY <1>3, <2>1 DEF Abstract!Missing, GoneUpTo
<1>10. at \in [1 .. Abstract!Cardinality(gone) -> gone]
       /\ \A j, l \in DOMAIN at : at[j] = at[l] => j = l
  BY <1>4, SameCardinality DEF Lists
<1>11. out' = [out EXCEPT ![f] = @ \o [j \in DOMAIN at |->
                                         Abstract!Answer(f, ps[at[j]].key, NULL)]]
  <2> DEFINE given == MissesOf(ps, at)
             more == [j \in DOMAIN given |-> [at |-> offset[f] + 1, key |-> given[j].key,
                                              value |-> given[j].value]]
             answers == [j \in DOMAIN at |-> Abstract!Answer(f, ps[at[j]].key, NULL)]
  <2>1. out' = [out EXCEPT ![f] = @ \o more]
    BY <1>1, <1>4 DEF Prints
  <2>2. DOMAIN given = DOMAIN at
        /\ \A j \in DOMAIN at : given[j] = Answer(ps[at[j]].key, NULL)
    BY DEF MissesOf
  <2>3. \A j \in DOMAIN at : more[j] = answers[j]
    <3> SUFFICES ASSUME NEW j \in DOMAIN at PROVE more[j] = answers[j]
      OBVIOUS
    <3> HIDE DEF given, ps, f
    <3>1. given[j].key = ps[at[j]].key /\ given[j].value = NULL
      BY <2>2 DEF Answer
    <3> QED BY <2>2, <3>1 DEF Abstract!Answer
  <2>4. more = answers
    <3>1. DOMAIN more = DOMAIN at
      BY <2>2
    <3>2. more = [j \in DOMAIN at |-> more[j]] /\ answers = [j \in DOMAIN at |-> answers[j]]
      BY <3>1
    <3> HIDE DEF more, answers
    <3> QED BY <2>3, <3>2
  <2> HIDE DEF more, answers
  <2> QED BY <2>1, <2>4 DEF answers
<1> HIDE DEF ps, gone
<1> QED BY <1>5, <1>7, <1>8, <1>9, <1>10, <1>11 DEF Abstract!Delete

\* SHOW prints the store, each key once.
LEMMA ShowIsAtomic ==
  ASSUME IInv, kvs_show
  PROVE  Abstract!Show(file)
<1> DEFINE f == file
           nodes == Nodes(table)
           N == Len(nodes)
           Present == {k \in Key : store[k] # NULL}
           at == [j \in 1 .. N |-> nodes[j].key]
<1>1. Reads("SHOW") /\ Prints(nodes) /\ UNCHANGED <<table, running, backups>>
  BY DEF kvs_show
<1>2. NodesOf(nodes, table, TABLE_SIZE)
  BY NodesFound DEF IInv, TypeOK, ChainsWellFormed
<1> HIDE DEF nodes
<1>3. /\ nodes \in Seq(Node) /\ N \in Nat /\ DOMAIN nodes = 1 .. N
      /\ \A j \in 1 .. N : nodes[j] \in Node
  BY <1>2 DEF NodesOf
<1>4. \A j \in 1 .. N : /\ nodes[j].key \in Present
                        /\ store[nodes[j].key] = nodes[j].value
  <2>1. \A node \in Node : node.key \in Key /\ node.value # NULL
    BY TableAssumption DEF Node
  <2>2. \A j \in 1 .. N : read_pair(table, nodes[j].key) = nodes[j].value
    BY <1>2, <1>3 DEF NodesOf
  <2> QED BY <1>3, <2>1, <2>2, StoreReads
<1>5. \A j, l \in 1 .. N : nodes[j].key = nodes[l].key => j = l
  BY <1>2, <1>3 DEF NodesOf
<1>6. \A k \in Present : \E j \in 1 .. N : nodes[j].key = k
  BY <1>2, <1>3, HashType, StoreReads DEF NodesOf, Slot
<1> HIDE DEF N, Present
<1>7. at \in [1 .. N -> Present] /\ DOMAIN at = 1 .. N
      /\ (\A j, l \in 1 .. N : at[j] = at[l] => j = l)
      /\ \A k \in Present : \E j \in 1 .. N : at[j] = k
  BY <1>4, <1>5, <1>6
<1>8. Abstract!Cardinality(Present) = N
  <2> DEFINE I == 1 .. N
  <2>1. IsFiniteSet(I) /\ Cardinality(I) = N
    BY <1>3, FS_Interval
  <2> HIDE DEF I, at
  <2>2. at \in [I -> Present] /\ (\A j, l \in I : at[j] = at[l] => j = l)
        /\ \A k \in Present : \E j \in I : at[j] = k
    BY <1>7 DEF I
  <2>3. Cardinality(Present) = Cardinality(I)
    BY <2>1, <2>2, SameNumber
  <2> QED BY <2>1, <2>3, SameCardinality
<1>9. Abstract!Present = Present
  BY DEF Abstract!Present, Present
<1>10. out' = [out EXCEPT ![f] = @ \o [j \in DOMAIN at |->
                                         Abstract!Answer(f, at[j], store[at[j]])]]
  <2> DEFINE more == [j \in DOMAIN nodes |-> [at |-> offset[f] + 1, key |-> nodes[j].key,
                                              value |-> nodes[j].value]]
             answers == [j \in DOMAIN at |-> Abstract!Answer(f, at[j], store[at[j]])]
  <2>1. out' = [out EXCEPT ![f] = @ \o more]
    BY <1>1 DEF Prints
  <2>2. \A j \in 1 .. N : at[j] = nodes[j].key /\ store[at[j]] = nodes[j].value
    BY <1>4
  <2> HIDE DEF at
  <2>3. more = answers
    BY <1>3, <1>7, <2>2 DEF Abstract!Answer
  <2> HIDE DEF more, answers
  <2> QED BY <2>1, <2>3 DEF answers
<1>11. Abstract!Takes(f, "SHOW")
  BY <1>1, TakesIt
<1>12. store' = store /\ AllBackups' = AllBackups
  BY <1>1, BackupsKept DEF store
<1>13. at \in [1 .. Abstract!Cardinality(Abstract!Present) -> Abstract!Present]
       /\ \A j, l \in DOMAIN at : at[j] = at[l] => j = l
  BY <1>7, <1>8, <1>9
<1> HIDE DEF at
<1> QED BY <1>10, <1>11, <1>12, <1>13 DEF Abstract!Show

\* The n-th backup of the file is settled when its child is forked.
LEMMA BackupIsAtomic ==
  ASSUME IInv, Fork \/ ForkFails
  PROVE  Abstract!Backup(file)
<1> DEFINE f == file
           before == {j \in 1 .. offset[f] + 1 : files[f][j].op = "BACKUP"}
           n == Cardinality(before)
           Present == {k \in Key : store[k] # NULL}
           contents == {<<k, store[k]>> : k \in Present}
           bck == [file |-> f, n |-> n, contents |-> contents]
           child == [file |-> f, n |-> num_backups + 1, snapshot |-> table]
<1>1. Reads("BACKUP") /\ UNCHANGED <<table, out, backups>>
  BY DEF Fork, ForkFails
<1>2. /\ f \in File /\ f # NoFile /\ offset[f] \in Nat
      /\ files[f][offset[f] + 1].op = "BACKUP"
  BY <1>1, CommandRead
<1>3. n = num_backups + 1
  <2>1. num_backups = BackupsUpTo(f, offset[f])
    BY <1>2 DEF IInv, Counted
  <2>2. BackupsUpTo(f, offset[f] + 1) = BackupsUpTo(f, offset[f]) + 1
    <3> HIDE DEF f
    <3> QED BY <1>2, OneMoreBackup
  <2> QED BY <2>1, <2>2 DEF BackupsUpTo
<1>4. contents = Contents(table)
  <2>1. Contents(table) = {<<k, read_pair(table, k)>> :
                             k \in {l \in Key : read_pair(table, l) # NULL}}
    BY ContentsFound DEF IInv, TypeOK, ChainsWellFormed
  <2> QED BY <2>1, StoreReads
<1>5. BackupOf(child) = bck
  BY <1>3, <1>4 DEF BackupOf
<1> HIDE DEF n, contents
<1>6. \/ AllBackups' = AllBackups \cup {bck}
      \/ ForkMayFail /\ AllBackups' = AllBackups
  <2>1. CASE Fork
    <3>1. running' = running \cup {child}
      BY <2>1 DEF Fork
    <3>2. AllBackups' = backups \cup {BackupOf(c) : c \in running'}
      BY <1>1 DEF AllBackups, BackupOf
    <3> HIDE DEF child, bck
    <3>3. {BackupOf(c) : c \in running'} = {BackupOf(c) : c \in running} \cup {BackupOf(child)}
      BY <3>1
    <3> QED BY <1>5, <3>2, <3>3 DEF AllBackups
  <2>2. CASE ForkFails
    <3>1. ForkMayFail /\ running' = running
      BY <2>2 DEF ForkFails
    <3> QED BY <1>1, <3>1, BackupsKept
  <2> QED BY <2>1, <2>2
<1>7. Abstract!Takes(f, "BACKUP")
  BY <1>1, TakesIt
<1>8. Abstract!Cardinality(before) = n /\ Abstract!Present = Present
  BY SameCardinality DEF Abstract!Present, n
<1>9. store' = store
  BY <1>1 DEF store
<1>10. UNCHANGED <<store, out>>
  BY <1>1, <1>9
<1> QED BY <1>6, <1>7, <1>8, <1>10 DEF Abstract!Backup, contents

LEMMA SkipIsAtomic ==
  ASSUME IInv, Skip
  PROVE  Abstract!Skip(file)
<1>1. PICK op \in {"WAIT", "INVALID"} : Reads(op)
  BY DEF Skip
<1>2. UNCHANGED <<table, out, running, backups>>
  BY DEF Skip
<1>3. store' = store /\ AllBackups' = AllBackups
  BY <1>2, BackupsKept DEF store
<1>4. Abstract!Takes(file, op)
  BY <1>1, TakesIt
<1> QED BY <1>2, <1>3, <1>4 DEF Abstract!Skip

LEMMA InitIsAtomic == Init => Abstract!Init
<1> SUFFICES ASSUME Init PROVE Abstract!Init
  OBVIOUS
<1>1. \A k \in Key : read_pair(table, k) = NULL
  BY HashType DEF Init, create_hash_table, read_pair, InChain
<1>2. store = [k \in Key |-> NULL]
  BY <1>1 DEF store
<1>3. AllBackups = {}
  BY DEF Init, AllBackups
<1> QED BY <1>2, <1>3 DEF Init, Abstract!Init

(***************************************************************************)
(* Every run of the program is one of AtomicKVS, whose commands work on a  *)
(* map from keys to values: the last pair of a WRITE wins, a DELETE        *)
(* reports the places of the keys it did not find, those it has just       *)
(* deleted among them, SHOW prints each pair once, and a backup has the    *)
(* store of its command.  So for any files, commands, keys and values.     *)
(***************************************************************************)
THEOREM ProgramIsAtomic == Spec => RefinesAtomic
<1>1. ASSUME IInv, [Next]_vars PROVE [Abstract!Next]_Abstract!vars
  <2>1. ASSUME file \in File,
               \/ Abstract!Write(file) \/ Abstract!Read(file) \/ Abstract!Delete(file)
               \/ Abstract!Show(file) \/ Abstract!Backup(file) \/ Abstract!Skip(file)
        PROVE  Abstract!Next
    BY <2>1 DEF Abstract!Next
  <2>2. ASSUME NEW op, Reads(op) PROVE file \in File
    BY <1>1, <2>2, CommandRead
  <2>3. CASE kvs_write \/ kvs_read \/ kvs_delete \/ kvs_show \/ Fork \/ ForkFails \/ Skip
    <3>1. file \in File
      BY <2>2, <2>3 DEF kvs_write, kvs_read, kvs_delete, kvs_show, Fork, ForkFails, Skip
    <3> QED BY <1>1, <2>1, <2>3, <3>1, WriteIsAtomic, ReadIsAtomic, DeleteIsAtomic,
               ShowIsAtomic, BackupIsAtomic, SkipIsAtomic
  <2>4. CASE Child
    BY <2>4, ChildStutters DEF Child
  <2>5. CASE \/ \E f \in File : NextEntry(f)
             \/ EndOfFile \/ Terminate \/ Ended \/ UNCHANGED vars
    BY <2>5, ScanStutters
  <2> QED BY <1>1, <2>3, <2>4, <2>5 DEF Next, Process
<1> QED BY <1>1, InitIsAtomic, Invariant, PTL DEF Spec, RefinesAtomic, Abstract!Spec

=============================================================================
