-------------------------- MODULE MCSequentialKVS --------------------------
(***************************************************************************)
(* Instances of SequentialKVS for TLC: two job files, in either order, with *)
(* every command of up to three pairs among the first of one of them.      *)
(***************************************************************************)
EXTENDS SequentialKVS, TLC

CONSTANTS f1, f2, v1, v2

\* Keys "a", "ab" and "b"; the first two share a chain.
a1 == 97 * CHAR_BASE
a2 == 97 * CHAR_BASE + 1
b1 == 98 * CHAR_BASE

MCFile  == {f1, f2}
MCKey   == {a1, a2, b1}
MCValue == {v1, v2}

write(ps) == [op |-> "WRITE", pairs |-> ps]
on(op, keys) ==
  [op |-> op, pairs |-> [j \in DOMAIN keys |-> [key |-> keys[j], value |-> NULL]]]

show   == on("SHOW", << >>)
backup == on("BACKUP", << >>)
wait   == on("WAIT", << >>)

Some(S, n) == UNION {[1 .. m -> S] : m \in 1 .. n}

AnyCommand ==
  {write(ps) : ps \in Some([key : MCKey, value : MCValue], 2)}
  \cup {on(op, ks) : op \in {"READ", "DELETE"}, ks \in Some(MCKey, 3)}

MCJobSets ==
  {(f1 :> <<write(<<[key |-> a1, value |-> v1], [key |-> a2, value |-> v2]>>),
            backup, c, show, on("INVALID", << >>), backup, on("READ", <<b1, a1>>)>>)
   @@ (f2 :> <<wait, backup, on("DELETE", <<a2>>), show>>) : c \in AnyCommand}

=============================================================================
