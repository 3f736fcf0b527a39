------------------------- MODULE RegistrationQueue -------------------------
(***************************************************************************)
(* What host_FIFO and the session managers promise each other: a bounded   *)
(* queue.  The first characters on the registration FIFO are read into a   *)
(* new entry, when there is room for one, and each entry goes to one       *)
(* manager, in order; the others stay.                                     *)
(***************************************************************************)
EXTENDS Naturals, Sequences

CONSTANTS
  Client, Manager, MAX_SESSION_COUNT,
  Message   \* Message[c], the characters that client c writes

VARIABLES
  offered,  \* the characters on the registration FIFO
  queue,    \* the entries that no manager has taken, each what one read got
  taken     \* the last entry that each manager took

vars == <<offered, queue, taken>>

Init ==
  /\ offered = << >>
  /\ queue = << >>
  /\ taken = [m \in Manager |-> << >>]

Offer(c) ==
  /\ offered' = offered \o Message[c]
  /\ UNCHANGED <<queue, taken>>

Accept ==
  /\ offered # << >>
  /\ Len(queue) < MAX_SESSION_COUNT
  /\ \E n \in 1 .. Len(offered) :
       /\ queue' = Append(queue, SubSeq(offered, 1, n))
       /\ offered' = SubSeq(offered, n + 1, Len(offered))
  /\ UNCHANGED taken

Take(m) ==
  /\ queue # << >>
  /\ taken' = [taken EXCEPT ![m] = Head(queue)]
  /\ queue' = Tail(queue)
  /\ UNCHANGED offered

Next ==
  \/ \E c \in Client : Offer(c)
  \/ Accept
  \/ \E m \in Manager : Take(m)

Spec == Init /\ [][Next]_vars

=============================================================================
