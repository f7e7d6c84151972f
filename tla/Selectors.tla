----------------------------- MODULE Selectors -----------------------------
(***************************************************************************)
(* From a selector string in the host's configuration to the workload a    *)
(* guest process is attested as: parse_selector on the host, the reads of  *)
(* the peer's ids, executable and cgroup, between which the pid may pass   *)
(* to another process, and match_workload, which goes through the table in *)
(* the order of a HashMap, that is, in any order.                          *)
(***************************************************************************)
EXTENDS Integers, FiniteSets, SequencesExt

CONSTANTS
  Workload,   \* names in the handshake's table
  Value,      \* values of selector parts: users, groups, paths, unit names
  Id,         \* numeric uids and gids
  None,       \* a selector field that is not set, an unknown user, no unit
  Empty,      \* the empty string
  Uid, Gid,   \* the guest's user and group databases, by name
  LastName,   \* the last component of a cgroup path
  Stripped,   \* a name without its suffix ".service", if it has one
  Service,    \* cgroup paths that contain ".service"
  File,       \* selector strings by workload, each a sequence of parts
  Process     \* processes that may connect

Key     == {"user", "group", "bin", "unitpath", "unitname"}
Unix    == {"user", "group", "bin"}
Systemd == {"unitpath", "unitname"}

\* A part between two commas. One that is blank is skipped; one without three
\* fields, or with a key not in Key, is an error: also unix:uid, which the comment
\* on IdentityPolicy.selector (config.rs) has in its example.
Part     == [key : Key, value : Value] \cup {[key |-> "blank"], [key |-> "bad"]}
Selector == [Key -> Value \cup {None}]
NoFields == [k \in Key |-> None]

\* What the agent reads of a peer: its ids, /proc/pid/exe and /proc/pid/cgroup,
\* each line of which is given by its path.
IsProcess(p) ==
  /\ p.uid \in Id
  /\ p.gid \in Id
  /\ p.exe \in Value \cup {None}
  /\ p.cgroup \in Seq(Value)

ASSUME SelectorsAssumption ==
  /\ None \notin Value /\ None \notin Id
  /\ None \notin Process /\ None \notin Selector
  /\ None \notin Workload
  /\ (Workload \cup {None}) \cap {"exe", "cgroup", "pending", "refused"} = {}
  /\ Empty \in Value
  /\ Uid \in [Value -> Id \cup {None}]
  /\ Gid \in [Value -> Id \cup {None}]
  /\ LastName \in [Value -> Value]
  /\ Stripped \in [Value -> Value]
  /\ Service \subseteq Value
  /\ \A f \in File : f \in [Workload -> Seq(Part)]
  /\ \A p \in Process : IsProcess(p)

VARIABLES
  strings,      \* selector string of each workload in the configuration file
  peer,         \* the process that connects
  holder,       \* the process that has its pid now, None if there is none
  holders,      \* the processes that have had it since the connection
  seen,         \* what the agent has read of the peer
  todo,         \* workloads the loop of match_workload has not visited
  candidates,   \* scored matches, in the order of the visits
  chosen        \* the result of match_workload, "pending" until there is one; what
                \* is to be read before it, "exe" or "cgroup"; "refused" if
                \* from_file does not accept the file

pid     == <<peer, holder, holders>>
reading == <<pid, seen>>
vars    == <<strings, reading, todo, candidates, chosen>>

-----------------------------------------------------------------------------
(* parse_selector: the fields of the string, or None for an error.         *)

ParsePart(fields, part) ==
  CASE fields = None \/ part.key = "bad" -> None
    [] fields # None /\ part.key = "blank" -> fields
    [] fields # None /\ part.key \in Key   -> [fields EXCEPT ![part.key] = part.value]

\* The loop over the parts.
ParseParts(string) ==
  LET after[n \in 0..Len(string)] ==
        IF n = 0 THEN NoFields ELSE ParsePart(after[n - 1], string[n])
  IN  after[Len(string)]

ParseSelectorUnchecked(string) == ParseParts(string)   \* mutant: no rule about bin
ParseSelector(string) ==
  LET fields == ParseParts(string)
  IN  IF /\ fields # None
         /\ fields["bin"] # None
         /\ fields["user"] = None \/ fields["group"] = None
      THEN None ELSE fields

-----------------------------------------------------------------------------
(* handle_workload_conn: the unit of a process.                            *)

IsServicePath(path) == path \in Service

\* The first cgroup line under a service, and the last component of its path.
UnitPath(p) ==
  LET n == SelectInSeq(p.cgroup, IsServicePath) IN IF n = 0 THEN None ELSE p.cgroup[n]
UnitName(p) == IF UnitPath(p) = None THEN None ELSE LastName[UnitPath(p)]

-----------------------------------------------------------------------------
(* match_workload.                                                         *)

\* The value of selector field k matches process p.
FieldMatches(k, value, p) ==
  CASE k = "user"     -> Uid[value] = p.uid
    [] k = "group"    -> Gid[value] = p.gid
    [] k = "bin"      -> value = p.exe
    [] k = "unitpath" -> value = UnitPath(p)
    [] k = "unitname" -> LET name == IF UnitName(p) = None THEN Empty ELSE UnitName(p)
                         IN  value \in {name, Stripped[name]}

IsSet(selector, keys) == \E k \in keys : selector[k] # None

MatchesSome(selector, p) ==   \* mutant: one field is enough
  IsSet(selector, Key) =>
    \E k \in Key : selector[k] # None /\ FieldMatches(k, selector[k], p)
Matches(selector, p) ==
  \A k \in Key : selector[k] # None => FieldMatches(k, selector[k], p)

\* The score of a selector that matches: systemd, bin, user and group count.
FlatWeight  == <<1, 1, 1, 1>>       \* mutant: everything counts the same
SteepWeight == <<1000, 10, 1, 1>>   \* mutant: a weight with a zero too many
Weight      == <<100, 10, 1, 1>>
Score(selector) ==
  LET points(keys, n) == IF IsSet(selector, keys) THEN Weight[n] ELSE 0
  IN  points(Systemd, 1) + points({"bin"}, 2) + points({"user"}, 3) + points({"group"}, 4)

-----------------------------------------------------------------------------
TypeOK ==
  /\ strings \in File
  /\ peer \in Process
  /\ holder \in holders \cup {None}
  /\ holders \subseteq Process
  /\ IsProcess(seen)
  /\ todo \subseteq Workload
  /\ candidates \in Seq([score : 0..112, name : Workload])
  /\ chosen \in Workload \cup {"exe", "cgroup", "pending", "refused", None}

\* peer_cred gives the ids the kernel recorded when p connected.
PeerCred(p) == [uid |-> p.uid, gid |-> p.gid, exe |-> None, cgroup |-> <<>>]

Init ==
  /\ strings \in File
  /\ peer \in Process
  /\ holder = peer
  /\ holders = {peer}
  /\ seen = PeerCred(peer)
  /\ todo = Workload
  /\ candidates = <<>>
  /\ chosen = IF \E w \in Workload : ParseSelector(strings[w]) = None
              THEN "refused" ELSE "exe"

-----------------------------------------------------------------------------
(* handle_workload_conn reads /proc for the pid of peer_cred. An error is   *)
(* no error: the field stays unset.                                        *)

ReadExeWithIds ==   \* mutant: the ids are taken from /proc too
  /\ chosen = "exe"
  /\ seen' = IF holder = None THEN seen ELSE [holder EXCEPT !.cgroup = <<>>]
  /\ chosen' = "cgroup"
  /\ UNCHANGED <<strings, pid, todo, candidates>>
ReadExe ==
  /\ chosen = "exe"
  /\ seen' = IF holder = None THEN seen ELSE [seen EXCEPT !.exe = holder.exe]
  /\ chosen' = "cgroup"
  /\ UNCHANGED <<strings, pid, todo, candidates>>

ReadCgroup ==
  /\ chosen = "cgroup"
  /\ seen' = IF holder = None THEN seen ELSE [seen EXCEPT !.cgroup = holder.cgroup]
  /\ chosen' = "pending"
  /\ UNCHANGED <<strings, pid, todo, candidates>>

\* The process exits; later another gets its pid. (One that replaces its program
\* is another process too.)
PidChanges ==
  /\ chosen \in {"exe", "cgroup"}
  /\ holder' \in IF holder = None THEN Process \ holders ELSE {None}
  /\ holders' = holders \cup ({holder'} \ {None})
  /\ UNCHANGED <<strings, peer, seen, todo, candidates, chosen>>

-----------------------------------------------------------------------------
\* One turn of the loop.
Visit(w) ==
  /\ chosen = "pending"
  /\ w \in todo
  /\ todo' = todo \ {w}
  /\ LET selector == ParseSelector(strings[w])
     IN  candidates' = IF Matches(selector, seen)
                       THEN Append(candidates, [score |-> Score(selector), name |-> w])
                       ELSE candidates
  /\ UNCHANGED <<strings, reading, chosen>>

\* sort_by on descending scores is stable, so the first of the best comes first.
Choose ==
  /\ todo = {}
  /\ chosen = "pending"
  /\ LET IsBest(c) == \A n \in DOMAIN candidates : candidates[n].score <= c.score
         first     == SelectInSeq(candidates, IsBest)
     IN  chosen' = IF candidates = <<>> THEN None ELSE candidates[first].name
  /\ UNCHANGED <<strings, reading, todo, candidates>>

\* The next connection goes through the same table, in an order of its own.
NextConnection ==
  /\ chosen \in Workload \cup {None}
  /\ peer' \in Process
  /\ holder' = peer'
  /\ holders' = {peer'}
  /\ seen' = PeerCred(peer')
  /\ todo' = Workload
  /\ candidates' = <<>>
  /\ chosen' = "exe"
  /\ UNCHANGED strings

\* systemd starts the server again, and it refuses the same file again.
RefusedAgain ==
  /\ chosen = "refused"
  /\ UNCHANGED vars

Next ==
  \/ ReadExe \/ ReadCgroup \/ PidChanges
  \/ \E w \in Workload : Visit(w)
  \/ Choose \/ NextConnection \/ RefusedAgain

Spec == Init /\ [][Next]_vars

-----------------------------------------------------------------------------
(* Properties: what the configuration says, read without the parser.       *)

\* The last value a selector string gives a key, None if it gives none.
Given(string, k) ==
  LET at == {n \in DOMAIN string : string[n].key = k}
  IN  IF at = {} THEN None
      ELSE string[CHOOSE n \in at : \A m \in at : m <= n].value

Satisfies(w, p) ==
  \A k \in Key : Given(strings[w], k) # None => FieldMatches(k, Given(strings[w], k), p)

\* match_workload's comment gives the priorities: systemd, then the binary, then
\* uid and gid. The tiers of a string, to be compared from the left.
Tiers(string) ==
  LET has(keys) == Cardinality({k \in keys : Given(string, k) # None})
  IN  <<IF has(Systemd) > 0 THEN 1 ELSE 0, has({"bin"}), has({"user", "group"})>>

Above(s, t) ==
  \E n \in 1..3 : s[n] > t[n] /\ \A m \in 1..(n - 1) : s[m] = t[m]

\* A process is attested as a workload only if all its selector string asks for
\* holds of what was read of it, and as none only if no string is satisfied: no
\* part is lost between the host's parser, the wire and the agent's loop.
ChosenSatisfies ==
  /\ chosen \in Workload => Satisfies(chosen, seen)
  /\ chosen = None => \A w \in Workload : ~Satisfies(w, seen)

\* Of the workloads a process satisfies the most specific one is chosen, in any
\* order of the HashMap: sums of weights never cross a tier, so only strings with
\* equal tiers are left to the order.
ChosenIsMostSpecific ==
  chosen \in Workload =>
    \A w \in Workload :
      Satisfies(w, seen) => ~Above(Tiers(strings[w]), Tiers(strings[chosen]))

\* Although ids, executable and cgroup are read at three times, what a workload asks
\* for of the user and the group holds of the very process that connected, and what
\* it asks for of the executable and the unit of one that had its pid since, or of
\* a process that is gone and so has neither (only an empty unit name asks that):
\* all of it holds of the peer if that has kept its pid.
AttestsThePeer ==
  chosen \in Workload =>
    LET holds(keys, p) ==
          \A k \in keys : Given(strings[chosen], k) # None =>
                          FieldMatches(k, Given(strings[chosen], k), p)
    IN  /\ holds({"user", "group"}, peer)
        /\ \E p \in holders : holds({"bin"}, p)
        /\ \E p \in holders \cup {PeerCred(peer)} : holds(Systemd, p)
        /\ holder = peer => holds(Key, peer)

\* parse_selector reads a string as its last value for each key; from_file refuses
\* a file exactly for a bad part or a binary without user and group, in whatever
\* order the parts come. Which keys there are is taken from the code.
ParserAgrees ==
  /\ chosen = "refused" <=>
       \E w \in Workload :
         \/ \E n \in DOMAIN strings[w] : strings[w][n].key = "bad"
         \/ /\ Given(strings[w], "bin") # None
            /\ None \in {Given(strings[w], "user"), Given(strings[w], "group")}
  /\ chosen # "refused" =>
       \A w \in Workload : \A k \in Key :
         ParseSelector(strings[w])[k] = Given(strings[w], k)
=============================================================================
