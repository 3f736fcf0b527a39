------------------------------ MODULE MCSession ------------------------------
(* Instances of Session for TLC: keys "a", "b" and, to have two lengths, "ab". *)
EXTENDS Session

CONSTANTS c1, c2, m1, m2

OneLength  == {<<97>>, <<98>>}
TwoLengths == {<<97>>, <<97, 98>>}

Subscribe(k)   == [op |-> SUBSCRIBE, key |-> k]
Unsubscribe(k) == [op |-> UNSUBSCRIBE, key |-> k]
Disconnecting  == [op |-> DISCONNECT, key |-> << >>]

\* One client sends without waiting, and may name a long key before a short one;
\* the input of the other does not end in DISCONNECT.
TwoInputs ==
  [c \in Client |->
     IF c = c1
     THEN {<<Subscribe(k), Unsubscribe(<<97>>), Disconnecting>> : k \in TwoLengths}
     ELSE {<<Subscribe(<<97>>)>>}]

OneInput == [c \in Client |-> {<<Subscribe(<<97>>), Disconnecting>>}]

\* malloc gave memory that is still zero.
Zeroed == {[n \in Entries |-> 0]}

Dirty == Zeroed \cup {[n \in Entries |-> IF n = 1 THEN 4 ELSE 0]}

==============================================================================
