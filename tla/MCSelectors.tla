---------------------------- MODULE MCSelectors ----------------------------
(* A guest's users, units and processes, and selector strings, for checking *)
(* Selectors.                                                              *)
EXTENDS Selectors

\* Users 1 and 2 are known, "ghost" is not; service a runs in a unit, and a child
\* cgroup of it is named like a unit without suffix.
Values == {"", "a", "b", "ghost", "/bin/a", "a.service",
           "/sys/a.service", "/sys/a.service/b", "/user", "user"}
Ids    == [v \in Values |-> CASE v = "a" -> 1 [] v = "b" -> 2 [] OTHER -> None]
Names  == [v \in Values |-> CASE v = "/sys/a.service" -> "a.service"
                              [] v = "/sys/a.service/b" -> "b"
                              [] v = "/user" -> "user" [] OTHER -> v]
Suffixless == [v \in Values |-> IF v = "a.service" THEN "a" ELSE v]
Services   == {"/sys/a.service", "/sys/a.service/b"}

P(u, g, x, lines) == [uid |-> u, gid |-> g, exe |-> x, cgroup |-> lines]
Processes == {
  P(1, 1, "/bin/a", <<"/user", "/sys/a.service">>),
  P(1, 2, "/bin/a", <<"/sys/a.service/b", "/sys/a.service">>),
  P(1, 1, None, <<"/user">>),
  P(2, 2, "/bin/a", <<>>)}

F(k, v) == [key |-> k, value |-> v]
User(v) == F("user", v)
Group(v) == F("group", v)
Bin   == F("bin", "/bin/a")
Blank == [key |-> "blank"]
Bad   == [key |-> "bad"]

\* Strings to compete for a process: every tier, alone and with others.
Tables == {
  <<>>, <<User("a")>>, <<User("ghost")>>, <<User("a"), Group("a")>>,
  <<Bin, User("a"), Group("a")>>, <<Group("b"), User("b"), User("a"), Bin>>,
  <<F("unitname", "a")>>, <<F("unitname", "a.service"), User("a")>>,
  <<F("unitname", "")>>, <<F("unitname", "b")>>,
  <<F("unitpath", "/sys/a.service"), Group("a")>>, <<Bin, User("a")>>}

\* Every string of at most three of these parts, and some of four, for the parser.
Parts == {User("a"), User("b"), Group("a"), Bin, F("unitname", "a"), Blank, Bad}
ShortStrings ==
  UNION {[1..n -> Parts] : n \in 0..3}
    \cup {<<Bin, User("b"), Group("a"), User("a")>>, <<Group("a"), Blank, User("a"), Bin>>,
          <<Blank, Bin, F("unitname", "a"), Group("a")>>, <<User("a"), Group("a"), Bin, Bad>>}

\* Two workloads that compete, or one with a short string beside one that no
\* process satisfies.
Files == [Workload -> Tables]
           \cup {[w \in Workload |-> IF w = x THEN string ELSE <<User("ghost")>>] :
                   string \in ShortStrings, x \in {CHOOSE w \in Workload : TRUE}}
=============================================================================
