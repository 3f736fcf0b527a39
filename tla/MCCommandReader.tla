-------------------------- MODULE MCCommandReader --------------------------
(***************************************************************************)
(* Instances of CommandReader for TLC: texts of up to three lines, each a  *)
(* line that is as it should be or one that is wrong in a different place. *)
(***************************************************************************)
EXTENDS CommandReader, TLC

Is(line, cmd_, args_, delay) ==
  Chars(line) :> [cmd |-> cmd_, args |-> [n \in DOMAIN args_ |-> Chars(args_[n])],
                  delay |-> delay]
None == << >>

ServerMeaning ==
  Is("WRITE [(a,x)]\n", "WRITE ", <<"a", "x">>, 0)
  @@ Is("WRITE [(a,x)(b,y)]\n", "WRITE ", <<"a", "x", "b", "y">>, 0)
  @@ Is("READ [a]\n", "READ ", <<"a">>, 0)
  @@ Is("DELETE [ab,b]\n", "DELETE ", <<"ab", "b">>, 0)
  @@ Is("WAIT 12\n", "WAIT ", None, 12)
  @@ Is("WAIT 9 1\n", "WAIT ", None, 9)
  @@ Is("SHOW\n", "SHOW", None, 0)
  @@ Is("SHOW", "SHOW", None, 0)
  @@ Is("BACKUP\n", "BACKUP", None, 0)
  @@ Is("HELP\n", "HELP", None, 0)
  @@ Is("#R\n", "EMPTY", None, 0)
  @@ Is("\n", "EMPTY", None, 0)
  @@ Is("X\n", "INVALID", None, 0)
  @@ Is("SHOWS\n", "INVALID", None, 0)
  @@ Is("WAIT x\n", "INVALID", None, 0)
  @@ Is("READ a\n", "INVALID", None, 0)
  @@ Is("READ [abc]\n", "INVALID", None, 0)
  @@ Is("READ [a,b,c]\n", "INVALID", None, 0)
  @@ Is("READ [a]", "INVALID", None, 0)
  @@ Is("WRITE [(a,x),(b,y)]\n", "INVALID", None, 0)

ServerWrong ==
  {"SHO\n", "W\n", "WRITE [(a)]\n", "READ [a\n", "READ [a)]\n", "WAIT 100\n", "WAIT 1", "READ ",
   "WRITE [(a,x)(b,y)(a,y)]\n"}

ClientMeaning ==
  Is("SUBSCRIBE [a]\n", "SUBSCRIBE ", <<"a">>, 0)
  @@ Is("UNSUBSCRIBE [ab]\n", "UNSUBSCRIBE ", <<"ab">>, 0)
  @@ Is("DELAY 12\n", "DELAY ", None, 12)
  @@ Is("DISCONNECT\n", "DISCONNECT", None, 0)
  @@ Is("DISCONNECT", "DISCONNECT", None, 0)
  @@ Is("DISCONNECTED\n", "INVALID", None, 0)
  @@ Is("#\n", "EMPTY", None, 0)
  @@ Is("\n", "EMPTY", None, 0)
  @@ Is("X\n", "INVALID", None, 0)
  @@ Is("SUBSCRIBE [a,b]\n", "INVALID", None, 0)

ClientWrong == {"S\n", "D\n", "DELAY 9 X\n", "DELAY 100\n", "SUBSCRIBE [a\n"}

\* Any two lines, then one that shows where the reading stands.
Texts(lines, last) ==
  lines \cup {l \o m : l, m \in lines} \cup {l \o m \o n : l, m \in lines, n \in last}

ServerLines == DOMAIN ServerMeaning \cup {Chars(w) : w \in ServerWrong}
ClientLines == DOMAIN ClientMeaning \cup {Chars(w) : w \in ClientWrong}

MCServerTexts == Texts(ServerLines, {Chars("SHOW\n"), Chars("READ [a]\n")})
MCClientTexts == Texts(ClientLines, {Chars("DISCONNECT\n")})
MCChar        == UNION {Range(l) : l \in ServerLines \cup ClientLines}

\* Two lines, the first with a pair that has no value.
MCPairTexts == {Chars("WRITE [(a)]\nSHOW\n")}
MCNoTexts   == {}

Reading == at \notin {"next", "done"}

Lines == INSTANCE CommandLines WITH
  Meaning <- [server |-> ServerMeaning, client |-> ClientMeaning],
  read    <- IF Reading THEN from ELSE offset,
  results <- IF at \in {"cleanup", "cleanup twice"} THEN Front(results) ELSE results

\* A line that is as it should be is read alone and done as it says, wherever in
\* a text it stands and whatever was read before it (server/main.c:79-189,
\* client/main.c:74-134).
RefinesLines == Lines!Spec

=============================================================================
