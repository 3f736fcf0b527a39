--------------------------- MODULE MCRegistration ---------------------------
(***************************************************************************)
(* Instances of Registration for TLC.  Ids of one character make           *)
(* registrations of 34: "1|/tmp/req1|/tmp/resp1|/tmp/notif1", 23 of them   *)
(* before the third name.  In the small instance two short registrations   *)
(* fit together with room for the third name, a short one and the long one *)
(* without, as four of 34 do in the code, and all three exceed a read, as  *)
(* eight of 34 do.                                                         *)
(***************************************************************************)
EXTENDS Registration

CONSTANTS c1, c2, c3, m1, m2

CodeLengths == [c \in Client |-> 34]
CodeNotifAt == [c \in Client |-> 23]

\* The long one is cut by snprintf, to 5.
SmallLengths == [c \in Client |-> IF c = c3 THEN 7 ELSE 3]
SmallNotifAt == [c \in Client |-> 2]

=============================================================================
