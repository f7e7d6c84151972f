-------------------------- MODULE SelectorsProofs --------------------------
(***************************************************************************)
(* Proofs about Selectors, for any selector strings, any number of         *)
(* workloads and processes: that the parser reads a string as its last     *)
(* value for each key, and that the loop over the table chooses a most     *)
(* specific workload that the process satisfies.                           *)
(***************************************************************************)
EXTENDS Selectors, Induction, FiniteSetTheorems, TLAPS

-----------------------------------------------------------------------------
(***************************************************************************)
(* parse_selector.                                                         *)
(***************************************************************************)

\* The fields after each turn of parse_selector's loop over a string.
IsLoop(g, string, m) ==
  g = [n \in 0..m |-> IF n = 0 THEN NoFields ELSE ParsePart(g[n - 1], string[n])]

\* Parts with a key of Key have a value, and the others have none of its keys.
LEMMA PartKeys ==
  ASSUME NEW part \in Part
  PROVE  \/ part.key \in Key /\ part.value \in Value
         \/ part.key \in {"blank", "bad"} /\ part.key \notin Key
BY DEF Part, Key

\* One turn of the loop has fields or the error as its result.
LEMMA ParsePartType ==
  ASSUME NEW part \in Part, NEW f \in Selector \cup {None}
  PROVE  ParsePart(f, part) \in Selector \cup {None}
<1>1. CASE f = None \/ part.key = "bad"
  BY <1>1 DEF ParsePart, Key
<1>2. CASE f # None /\ part.key = "blank"
  BY <1>2 DEF ParsePart, Key
<1>3. CASE f # None /\ part.key \in Key
  <2>1. part.key # "bad" /\ part.key # "blank" /\ part.value \in Value
    BY <1>3 DEF Part, Key
  <2>2. ParsePart(f, part) = [f EXCEPT ![part.key] = part.value]
    BY <1>3, <2>1 DEF ParsePart
  <2> QED BY <1>3, <2>1, <2>2 DEF Selector
<1> QED BY <1>1, <1>2, <1>3, PartKeys

\* The loop's recursion is well defined.
LEMMA LoopExists ==
  ASSUME NEW string \in Seq(Part)
  PROVE  \E g : IsLoop(g, string, Len(string))
<1> DEFINE S    == Selector \cup {None}
           N    == Len(string)
           step == [n \in 1..N |-> [f \in S |-> ParsePart(f, string[n])]]
<1>1. N \in Nat /\ NoFields \in S
  BY DEF NoFields, Selector
<1>2. step \in [1..N -> [S -> S]]
  <2>1. ASSUME NEW n \in 1..N, NEW f \in S PROVE ParsePart(f, string[n]) \in S
    BY ParsePartType
  <2> HIDE DEF S
  <2> QED BY <2>1
<1> HIDE DEF S, N
<1>3. PICK g \in [0..N -> S] : g[0] = NoFields /\ \A n \in 1..N : g[n] = step[n][g[n - 1]]
  <2> HIDE DEF step
  <2>1. \E g : Solves(g, S, NoFields, N, step)
    BY <1>1, <1>2, Recursion
  <2> QED BY <2>1 DEF Solves
<1>4. \A n \in 0..N : g[n] = IF n = 0 THEN NoFields ELSE ParsePart(g[n - 1], string[n])
  BY <1>1, <1>3
<1>5. IsLoop(g, string, N)
  BY <1>4 DEF IsLoop
<1> QED BY <1>5 DEF N

\* ParseParts is what the loop ends with.
LEMMA ParsePartsIsLoop ==
  ASSUME NEW string \in Seq(Part)
  PROVE  \E g : IsLoop(g, string, Len(string)) /\ ParseParts(string) = g[Len(string)]
<1> DEFINE g == CHOOSE g : g = [n \in 0..Len(string) |->
                  IF n = 0 THEN NoFields ELSE ParsePart(g[n - 1], string[n])]
<1>1. IsLoop(g, string, Len(string))
  BY LoopExists DEF IsLoop
<1>2. ParseParts(string) = g[Len(string)]
  BY DEF ParseParts
<1> HIDE DEF g
<1> QED BY <1>1, <1>2

\* The fields f hold, for key k, the last value among the first m parts.
LastValue(f, string, m, k) ==
  \/ f[k] = None /\ \A n \in 1..m : string[n].key # k
  \/ \E n \in 1..m : /\ string[n].key = k
                     /\ f[k] = string[n].value
                     /\ \A j \in (n + 1)..m : string[j].key # k

\* The fields after the first m parts: none after a bad one, otherwise the last
\* value of every key.
Agrees(f, string, m) ==
  \/ f = None /\ \E n \in 1..m : string[n].key = "bad"
  \/ /\ f \in Selector
     /\ \A n \in 1..m : string[n].key # "bad"
     /\ \A k \in Key : LastValue(f, string, m, k)

\* A part with another key changes nothing for k.
LEMMA LastValueSkips ==
  ASSUME NEW string, NEW m \in Nat, NEW k, NEW f, NEW g, g[k] = f[k],
         LastValue(f, string, m, k), string[m + 1].key # k
  PROVE  LastValue(g, string, m + 1, k)
<1>1. CASE f[k] = None /\ \A n \in 1..m : string[n].key # k
  <2>1. \A n \in 1..(m + 1) : string[n].key # k
    BY <1>1
  <2> QED BY <1>1, <2>1 DEF LastValue
<1>2. CASE \E n \in 1..m : /\ string[n].key = k
                           /\ f[k] = string[n].value
                           /\ \A j \in (n + 1)..m : string[j].key # k
  <2>1. PICK n \in 1..m : /\ string[n].key = k
                          /\ f[k] = string[n].value
                          /\ \A j \in (n + 1)..m : string[j].key # k
    BY <1>2
  <2>2. \A j \in (n + 1)..(m + 1) : string[j].key # k
    BY <2>1
  <2> QED BY <2>1, <2>2 DEF LastValue
<1> QED BY <1>1, <1>2 DEF LastValue

\* One turn of the loop.
LEMMA ParsePartAgrees ==
  ASSUME NEW string \in Seq(Part), NEW m \in Nat, m + 1 <= Len(string),
         NEW f, Agrees(f, string, m)
  PROVE  Agrees(ParsePart(f, string[m + 1]), string, m + 1)
<1> DEFINE part == string[m + 1]
           new  == ParsePart(f, part)
<1>1. part \in Part
  OBVIOUS
<1>0. /\ m + 1 \in 1..(m + 1)
      /\ \A n \in 1..m : n \in 1..(m + 1)
      /\ \A n \in 1..(m + 1) : n \in 1..m \/ n = m + 1
  OBVIOUS
<1>2. CASE f = None \/ part.key = "bad"
  <2>1. new = None
    BY <1>2 DEF ParsePart, Key
  <2>2. f = None => \E n \in 1..m : string[n].key = "bad"
    BY SelectorsAssumption DEF Agrees
  <2>3. \E n \in 1..(m + 1) : string[n].key = "bad"
    BY <1>0, <1>2, <2>2
  <2> QED BY <2>1, <2>3 DEF Agrees
<1>3. CASE f # None /\ part.key = "blank"
  <2>1. new = f
    BY <1>3 DEF ParsePart, Key
  <2>2. f \in Selector /\ \A n \in 1..m : string[n].key # "bad"
    BY <1>3 DEF Agrees
  <2>3. ASSUME NEW k \in Key PROVE LastValue(f, string, m + 1, k)
    <3>1. k # "blank"
      BY DEF Key
    <3>2. LastValue(f, string, m, k)
      BY <1>3 DEF Agrees
    <3> QED BY <1>3, <3>1, <3>2, LastValueSkips
  <2> QED BY <1>0, <1>3, <2>1, <2>2, <2>3 DEF Agrees
<1>4. CASE f # None /\ part.key \in Key
  <2>1. part.key # "bad" /\ part.key # "blank" /\ part.value \in Value
    BY <1>1, <1>4 DEF Part, Key
  <2>2. f \in Selector /\ \A n \in 1..(m + 1) : string[n].key # "bad"
    BY <1>0, <1>4, <2>1 DEF Agrees
  <2>3. new = [f EXCEPT ![part.key] = part.value]
    BY <1>4, <2>1 DEF ParsePart
  <2>4. new \in Selector
    BY <1>4, <2>1, <2>2, <2>3 DEF Selector
  <2>5. ASSUME NEW k \in Key PROVE LastValue(new, string, m + 1, k)
    <3>1. CASE k = part.key
      <4>1. new[k] = part.value
        BY <2>2, <2>3, <3>1 DEF Selector
      <4>2. m + 1 \in 1..(m + 1) /\ \A j \in (m + 2)..(m + 1) : string[j].key # k
        OBVIOUS
      <4> HIDE DEF new
      <4> QED BY <3>1, <4>1, <4>2 DEF LastValue
    <3>2. CASE k # part.key
      <4>1. new[k] = f[k]
        BY <2>2, <2>3, <3>2 DEF Selector
      <4>2. LastValue(f, string, m, k)
        BY <1>4 DEF Agrees
      <4> QED BY <1>0, <3>2, <4>1, <4>2, LastValueSkips
    <3> QED BY <3>1, <3>2
  <2> QED BY <2>2, <2>4, <2>5 DEF Agrees
<1> QED BY <1>1, <1>2, <1>3, <1>4, PartKeys

\* The whole loop.
LEMMA ParsePartsAgrees ==
  ASSUME NEW string \in Seq(Part)
  PROVE  Agrees(ParseParts(string), string, Len(string))
<1>1. Len(string) \in Nat
  OBVIOUS
<1>2. PICK g : IsLoop(g, string, Len(string)) /\ ParseParts(string) = g[Len(string)]
  BY ParsePartsIsLoop
<1> DEFINE T == {m \in Nat : m <= Len(string) => Agrees(g[m], string, m)}
<1>3. 0 \in T
  <2>1. g[0] = NoFields
    BY <1>1, <1>2 DEF IsLoop
  <2>2. NoFields \in Selector /\ \A k \in Key : NoFields[k] = None
    BY DEF NoFields, Selector
  <2> QED BY <2>1, <2>2 DEF Agrees, LastValue
<1>4. ASSUME NEW m \in Nat, m \in T PROVE m + 1 \in T
  <2> SUFFICES ASSUME m + 1 <= Len(string) PROVE Agrees(g[m + 1], string, m + 1)
    OBVIOUS
  <2>1. m + 1 \in 0..Len(string) /\ m + 1 # 0 /\ (m + 1) - 1 = m
    BY <1>1
  <2>2. g[m + 1] = ParsePart(g[m], string[m + 1])
    BY <1>2, <2>1 DEF IsLoop
  <2>3. Agrees(g[m], string, m)
    BY <1>1, <1>4
  <2> QED BY <2>2, <2>3, ParsePartAgrees
<1> HIDE DEF T
<1>5. Len(string) \in T
  BY <1>1, <1>3, <1>4, SetInduction
<1> QED BY <1>1, <1>2, <1>5 DEF T

\* The last value of a key is what Given reads off the string.
LEMMA LastValueIsGiven ==
  ASSUME NEW string \in Seq(Part), NEW f, NEW k, LastValue(f, string, Len(string), k)
  PROVE  f[k] = Given(string, k)
<1> DEFINE at == {n \in DOMAIN string : string[n].key = k}
<1>1. DOMAIN string = 1..Len(string) /\ Len(string) \in Nat
  OBVIOUS
<1>2. CASE f[k] = None /\ \A n \in 1..Len(string) : string[n].key # k
  <2>1. at = {}
    BY <1>1, <1>2
  <2> QED BY <1>2, <2>1 DEF Given
<1>3. CASE \E n \in 1..Len(string) : /\ string[n].key = k
                                     /\ f[k] = string[n].value
                                     /\ \A j \in (n + 1)..Len(string) : string[j].key # k
  <2>1. PICK n \in 1..Len(string) : /\ string[n].key = k
                                    /\ f[k] = string[n].value
                                    /\ \A j \in (n + 1)..Len(string) : string[j].key # k
    BY <1>3
  <2>2. n \in at /\ \A j \in at : j <= n
    BY <1>1, <2>1
  <2>3. \A x \in at : (\A j \in at : j <= x) => x = n
    BY <1>1, <2>2
  <2>4. (CHOOSE x \in at : \A j \in at : j <= x) = n
    BY <2>2, <2>3
  <2> QED BY <2>1, <2>2, <2>4 DEF Given
<1> QED BY <1>2, <1>3 DEF LastValue

\* What from_file refuses a string for, read off the string.
Refusable(string) ==
  \/ \E n \in DOMAIN string : string[n].key = "bad"
  \/ /\ Given(string, "bin") # None
     /\ None \in {Given(string, "user"), Given(string, "group")}

\* parse_selector refuses a string exactly for a bad part or a binary without user
\* and group, and otherwise returns the last value of each key.
LEMMA ParseSelectorAgrees ==
  ASSUME NEW string \in Seq(Part)
  PROVE  /\ ParseSelector(string) = None <=> Refusable(string)
         /\ ParseSelector(string) # None =>
              /\ ParseSelector(string) \in Selector
              /\ \A k \in Key : ParseSelector(string)[k] = Given(string, k)
<1> DEFINE f == ParseParts(string)
<1>1. Agrees(f, string, Len(string))
  BY ParsePartsAgrees
<1>2. DOMAIN string = 1..Len(string)
  OBVIOUS
<1> HIDE DEF f
<1>3. CASE f = None
  <2>1. \E n \in DOMAIN string : string[n].key = "bad"
    BY <1>1, <1>2, <1>3, SelectorsAssumption DEF Agrees
  <2>2. ParseSelector(string) = None
    BY <1>3 DEF ParseSelector, f
  <2> QED BY <2>1, <2>2 DEF Refusable
<1>4. CASE f # None
  <2>1. f \in Selector /\ \A n \in DOMAIN string : string[n].key # "bad"
    BY <1>1, <1>2, <1>4 DEF Agrees
  <2>2. \A k \in Key : f[k] = Given(string, k)
    BY <1>1, <1>4, LastValueIsGiven DEF Agrees
  <2>3. "bin" \in Key /\ "user" \in Key /\ "group" \in Key
    BY DEF Key
  <2>4. ParseSelector(string) =
          IF f["bin"] # None /\ (f["user"] = None \/ f["group"] = None) THEN None ELSE f
    BY <1>4 DEF ParseSelector, f
  <2>5. Refusable(string) <=>
          f["bin"] # None /\ (f["user"] = None \/ f["group"] = None)
    BY <2>1, <2>2, <2>3 DEF Refusable
  <2> QED BY <1>4, <2>1, <2>2, <2>4, <2>5
<1> QED BY <1>3, <1>4
-----------------------------------------------------------------------------
(***************************************************************************)
(* Scores and fields.                                                      *)
(***************************************************************************)

\* The number of set fields in a set of one key.
LEMMA CountOne ==
  ASSUME NEW f, NEW a
  PROVE  Cardinality({k \in {a} : f[k] # None}) = IF f[a] # None THEN 1 ELSE 0
<1>1. CASE f[a] # None
  <2>1. {k \in {a} : f[k] # None} = {a}
    BY <1>1
  <2> QED BY <1>1, <2>1, FS_Singleton
<1>2. CASE f[a] = None
  <2>1. {k \in {a} : f[k] # None} = {}
    BY <1>2
  <2> QED BY <1>2, <2>1, FS_EmptySet
<1> QED BY <1>1, <1>2

\* The number of set fields in a set of two keys.
LEMMA CountTwo ==
  ASSUME NEW f, NEW a, NEW b, a # b
  PROVE  Cardinality({k \in {a, b} : f[k] # None}) =
           (IF f[a] # None THEN 1 ELSE 0) + (IF f[b] # None THEN 1 ELSE 0)
<1> DEFINE A == {k \in {a} : f[k] # None}
           B == {k \in {a, b} : f[k] # None}
<1>1. IsFiniteSet(A) /\ Cardinality(A) = (IF f[a] # None THEN 1 ELSE 0)
  <2>1. A \subseteq {a} /\ IsFiniteSet({a})
    BY FS_Singleton
  <2> QED BY <2>1, CountOne, FS_Subset
<1>2. CASE f[b] # None
  <2>1. B = A \cup {b} /\ b \notin A
    BY <1>2
  <2>2. Cardinality(B) = Cardinality(A) + 1
    BY <1>1, <2>1, FS_AddElement
  <2> QED BY <1>1, <1>2, <2>2
<1>3. CASE f[b] = None
  <2>1. B = A
    BY <1>3
  <2> QED BY <1>1, <1>3, <2>1
<1> QED BY <1>2, <1>3

\* The sum of match_workload is a number whose digits are the tiers: the weight of
\* a tier is above all that the lower ones can add up to.
LEMMA ScoreOfTiers ==
  ASSUME NEW f, NEW string, \A k \in Key : f[k] = Given(string, k)
  PROVE  \E a \in 0..1, b \in 0..1, c \in 0..2 :
           Tiers(string) = <<a, b, c>> /\ Score(f) = 100 * a + 10 * b + c
<1> DEFINE one(k)     == IF f[k] # None THEN 1 ELSE 0
           count(keys) == Cardinality({k \in keys : Given(string, k) # None})
           sys        == IF IsSet(f, Systemd) THEN 1 ELSE 0
<1>1. \A keys \in SUBSET Key : {k \in keys : Given(string, k) # None}
                               = {k \in keys : f[k] # None}
  OBVIOUS
<1>2. count({"bin"}) = one("bin")
  <2>1. {"bin"} \in SUBSET Key
    BY DEF Key
  <2> QED BY <1>1, <2>1, CountOne
<1>3. count({"user", "group"}) = one("user") + one("group")
  <2>1. {"user", "group"} \in SUBSET Key /\ "user" # "group"
    BY DEF Key
  <2>2. Cardinality({k \in {"user", "group"} : f[k] # None}) = one("user") + one("group")
    BY <2>1, CountTwo
  <2> QED BY <1>1, <2>1, <2>2
<1>4. (IF count(Systemd) > 0 THEN 1 ELSE 0) = sys
  <2>1. Systemd \in SUBSET Key /\ "unitpath" # "unitname"
    BY DEF Key, Systemd
  <2>2. Cardinality({k \in {"unitpath", "unitname"} : f[k] # None})
          = one("unitpath") + one("unitname")
    BY <2>1, CountTwo
  <2>3. count(Systemd) = one("unitpath") + one("unitname")
    BY <1>1, <2>1, <2>2 DEF Systemd
  <2> HIDE DEF count
  <2> QED BY <2>3 DEF IsSet, Systemd
<1>5. Tiers(string) = <<sys, one("bin"), one("user") + one("group")>>
  BY <1>2, <1>3, <1>4 DEF Tiers
<1>6. Score(f) = 100 * sys + 10 * one("bin") + (one("user") + one("group"))
  BY DEF Score, IsSet, Weight
<1>7. sys \in 0..1 /\ one("bin") \in 0..1 /\ one("user") + one("group") \in 0..2
  OBVIOUS
<1> HIDE DEF one, sys
<1> QED BY <1>5, <1>6, <1>7

\* So a string above another in the order of the tiers has the higher score.
LEMMA AboveScoresMore ==
  ASSUME NEW f, NEW string, \A k \in Key : f[k] = Given(string, k),
         NEW g, NEW other, \A k \in Key : g[k] = Given(other, k),
         Above(Tiers(string), Tiers(other))
  PROVE  Score(f) > Score(g)
<1>1. PICK a \in 0..1, b \in 0..1, c \in 0..2 :
        Tiers(string) = <<a, b, c>> /\ Score(f) = 100 * a + 10 * b + c
  BY ScoreOfTiers
<1>2. PICK x \in 0..1, y \in 0..1, z \in 0..2 :
        Tiers(other) = <<x, y, z>> /\ Score(g) = 100 * x + 10 * y + z
  BY ScoreOfTiers
<1>3. \/ a > x
      \/ a = x /\ b > y
      \/ a = x /\ b = y /\ c > z
  BY <1>1, <1>2 DEF Above
<1> QED BY <1>1, <1>2, <1>3

\* A score fits the type of the candidates.
LEMMA ScoreType ==
  ASSUME NEW f
  PROVE  Score(f) \in 0..112
BY DEF Score, Weight

\* The ids decide about user and group, the executable about the binary, and the
\* cgroup about the unit.
LEMMA FieldReads ==
  ASSUME NEW value, NEW p, NEW q
  PROVE  /\ p.uid = q.uid => FieldMatches("user", value, p) = FieldMatches("user", value, q)
         /\ p.gid = q.gid => FieldMatches("group", value, p) = FieldMatches("group", value, q)
         /\ p.exe = q.exe => FieldMatches("bin", value, p) = FieldMatches("bin", value, q)
         /\ p.cgroup = q.cgroup => \A k \in Systemd :
              FieldMatches(k, value, p) = FieldMatches(k, value, q)
<1>1. p.cgroup = q.cgroup => UnitPath(p) = UnitPath(q) /\ UnitName(p) = UnitName(q)
  BY DEF UnitPath, UnitName, SelectInSeq
<1> QED BY <1>1 DEF FieldMatches, Systemd
-----------------------------------------------------------------------------
(***************************************************************************)
(* The inductive invariant: the file is refused for a string that does not *)
(* parse; what was read of a peer was read of holders of its pid, and of   *)
(* the peer while it kept it; the candidates are the visited workloads     *)
(* that match, with their scores; the chosen one is a best of them.        *)
(***************************************************************************)
Parsed(w) == ParseSelector(strings[w])

Candidate == [score : 0..112, name : Workload]

Refusal == chosen = "refused" <=> \E w \in Workload : Parsed(w) = None

Seen == [uid : Id, gid : Id, exe : Value \cup {None}, cgroup : Seq(Value)]

ReadOfHolders ==
  /\ seen \in Seen
  /\ peer \in holders
  /\ seen.uid = peer.uid /\ seen.gid = peer.gid
  /\ seen.exe = None \/ \E p \in holders : seen.exe = p.exe
  /\ seen.cgroup = <<>> \/ \E p \in holders : seen.cgroup = p.cgroup
  /\ holder = peer =>
       /\ chosen \notin {"refused", "exe"} => seen.exe = peer.exe
       /\ chosen \notin {"refused", "exe", "cgroup"} => seen.cgroup = peer.cgroup

NotStarted == chosen \in {"refused", "exe", "cgroup"} => todo = Workload /\ candidates = <<>>

Scored ==
  /\ \A n \in DOMAIN candidates :
       /\ candidates[n].name \notin todo
       /\ Matches(Parsed(candidates[n].name), seen)
       /\ candidates[n].score = Score(Parsed(candidates[n].name))
  /\ \A w \in Workload \ todo :
       Matches(Parsed(w), seen) => \E n \in DOMAIN candidates : candidates[n].name = w

Best ==
  /\ chosen \in Workload =>
       /\ todo = {}
       /\ \E n \in DOMAIN candidates :
            /\ candidates[n].name = chosen
            /\ \A m \in DOMAIN candidates : candidates[m].score <= candidates[n].score
  /\ chosen = None => todo = {} /\ candidates = <<>>

IInv == TypeOK /\ Refusal /\ ReadOfHolders /\ NotStarted /\ Scored /\ Best

\* A peer's credentials, before anything of /proc is read.
LEMMA PeerCredType ==
  ASSUME NEW p \in Process
  PROVE  /\ PeerCred(p) \in Seen
         /\ IsProcess(PeerCred(p))
         /\ PeerCred(p).uid = p.uid /\ PeerCred(p).gid = p.gid
         /\ PeerCred(p).exe = None /\ PeerCred(p).cgroup = <<>>
BY SelectorsAssumption DEF PeerCred, Seen, IsProcess

\* The results of match_workload differ from the markers of the phases before.
LEMMA Markers ==
  /\ None \notin Workload
  /\ \A w \in Workload \cup {None} :
       w # "exe" /\ w # "cgroup" /\ w # "pending" /\ w # "refused"
BY SelectorsAssumption

\* Init establishes the invariant.
LEMMA InitIInv == Init => IInv
<1> SUFFICES ASSUME Init PROVE IInv
  OBVIOUS
<1> USE DEF Init
<1>1. TypeOK
  <2>1. IsProcess(seen)
    BY PeerCredType
  <2>2. <<>> \in Seq([score : 0..112, name : Workload])
    OBVIOUS
  <2> QED BY <2>1, <2>2 DEF TypeOK
<1>2. Refusal
  BY DEF Refusal, Parsed
<1>3. ReadOfHolders
  BY PeerCredType DEF ReadOfHolders
<1>4. NotStarted /\ Scored
  BY DEF NotStarted, Scored
<1>5. Best
  BY Markers DEF Best
<1> QED BY <1>1, <1>2, <1>3, <1>4, <1>5 DEF IInv

-----------------------------------------------------------------------------
\* Reading /proc: a field of seen becomes that of the pid's holder.
LEMMA ReadStep ==
  ASSUME IInv, ReadExe \/ ReadCgroup
  PROVE  IInv'
<1> USE DEF ReadExe, ReadCgroup, pid
<1>1. seen \in Seen /\ chosen \in {"exe", "cgroup"} /\ chosen' \in {"cgroup", "pending"}
  BY DEF IInv, ReadOfHolders
<1>2. holder # None => holder \in holders /\ holder \in Process
                       /\ holder.exe \in Value \cup {None} /\ holder.cgroup \in Seq(Value)
  BY SelectorsAssumption DEF IInv, TypeOK, IsProcess
<1>3. seen' \in Seen /\ seen'.uid = seen.uid /\ seen'.gid = seen.gid
  BY <1>1, <1>2 DEF Seen
<1>4. TypeOK'
  BY <1>1, <1>3 DEF IInv, TypeOK, IsProcess, Seen
<1>5. Refusal'
  BY <1>1 DEF IInv, Refusal, Parsed
<1>6. ReadOfHolders'
  <2>1. CASE ReadExe
    <3>1. holder # None => seen'.exe = holder.exe /\ seen'.cgroup = seen.cgroup
      BY <1>1, <2>1 DEF Seen
    <3>2. peer # None
      BY SelectorsAssumption DEF IInv, TypeOK
    <3> QED BY <1>2, <1>3, <2>1, <3>1, <3>2 DEF IInv, ReadOfHolders
  <2>2. CASE ReadCgroup
    <3>1. holder # None => seen'.cgroup = holder.cgroup /\ seen'.exe = seen.exe
      BY <1>1, <2>2 DEF Seen
    <3>2. peer # None
      BY SelectorsAssumption DEF IInv, TypeOK
    <3> QED BY <1>2, <1>3, <2>2, <3>1, <3>2 DEF IInv, ReadOfHolders
  <2> QED BY <2>1, <2>2
<1>7. NotStarted' /\ Scored'
  BY <1>1 DEF IInv, NotStarted, Scored
<1>8. Best'
  BY <1>1, Markers DEF Best
<1> QED BY <1>4, <1>5, <1>6, <1>7, <1>8 DEF IInv

\* The pid passes on, but never back to the peer.
LEMMA PidStep ==
  ASSUME IInv, PidChanges
  PROVE  IInv'
<1> USE DEF PidChanges
<1>1. holder' # peer
  BY SelectorsAssumption DEF IInv, TypeOK, ReadOfHolders
<1>2. TypeOK'
  BY DEF IInv, TypeOK
<1>3. Refusal' /\ NotStarted'
  BY DEF IInv, Refusal, Parsed, NotStarted
<1>4. ReadOfHolders'
  <2>1. holders \subseteq holders' /\ peer' = peer /\ seen' = seen
    OBVIOUS
  <2>2. seen.exe = None \/ \E p \in holders' : seen.exe = p.exe
    BY <2>1 DEF IInv, ReadOfHolders
  <2>3. seen.cgroup = <<>> \/ \E p \in holders' : seen.cgroup = p.cgroup
    BY <2>1 DEF IInv, ReadOfHolders
  <2> QED BY <1>1, <2>1, <2>2, <2>3 DEF IInv, ReadOfHolders
<1>5. Scored' /\ Best'
  BY DEF IInv, Scored, Parsed, Best
<1> QED BY <1>2, <1>3, <1>4, <1>5 DEF IInv

\* One turn of the loop.
LEMMA VisitStep ==
  ASSUME IInv, NEW w \in Workload, Visit(w)
  PROVE  IInv'
<1> USE DEF Visit, reading, pid
<1> DEFINE new == [score |-> Score(Parsed(w)), name |-> w]
<1>1. candidates \in Seq(Candidate)
  BY DEF IInv, TypeOK, Candidate
<1>2. new \in Candidate
  BY ScoreType DEF Candidate
<1>3. \/ /\ Matches(Parsed(w), seen)
         /\ candidates' = Append(candidates, new)
      \/ ~Matches(Parsed(w), seen) /\ candidates' = candidates
  BY DEF Parsed
<1> HIDE DEF new
<1>4. candidates' \in Seq(Candidate)
  BY <1>1, <1>2, <1>3
<1>5. TypeOK'
  BY <1>4 DEF IInv, TypeOK, IsProcess, Candidate
<1>6. Refusal' /\ ReadOfHolders'
  BY DEF IInv, Refusal, Parsed, ReadOfHolders
<1>7. NotStarted' /\ Best'
  BY Markers DEF NotStarted, Best
<1>8. Scored'
  <2>1. \A x : Parsed(x)' = Parsed(x)
    BY DEF Parsed
  <2>2. CASE candidates' = candidates /\ ~Matches(Parsed(w), seen)
    BY <2>1, <2>2 DEF IInv, Scored
  <2>3. CASE candidates' = Append(candidates, new) /\ Matches(Parsed(w), seen)
    <3>1. /\ DOMAIN candidates' = DOMAIN candidates \cup {Len(candidates) + 1}
          /\ candidates'[Len(candidates) + 1] = new
          /\ \A n \in DOMAIN candidates : candidates'[n] = candidates[n]
      BY <1>1, <2>3
    <3>2. new.name = w /\ new.score = Score(Parsed(w))
      BY DEF new
    <3>3. ASSUME NEW n \in DOMAIN candidates'
          PROVE  /\ candidates'[n].name \notin todo'
                 /\ Matches(Parsed(candidates'[n].name), seen)
                 /\ candidates'[n].score = Score(Parsed(candidates'[n].name))
      BY <2>3, <3>1, <3>2 DEF IInv, Scored
    <3>4. ASSUME NEW x \in Workload \ todo', Matches(Parsed(x), seen)
          PROVE  \E n \in DOMAIN candidates' : candidates'[n].name = x
      BY <3>1, <3>2, <3>4 DEF IInv, Scored
    <3> QED BY <2>1, <3>3, <3>4 DEF Scored, Parsed
  <2> QED BY <1>3, <2>2, <2>3
<1> QED BY <1>5, <1>6, <1>7, <1>8 DEF IInv

\* The fields of a candidate.
LEMMA CandidateFields == \A c \in Candidate : c.score \in 0..112 /\ c.name \in Workload
BY DEF Candidate

\* The first of the best is there, and is one of the best.
LEMMA ChooseIsBest ==
  ASSUME NEW s \in Seq(Candidate), s # <<>>
  PROVE  LET IsBest(c) == \A n \in DOMAIN s : s[n].score <= c.score
         IN  /\ SelectInSeq(s, IsBest) \in DOMAIN s
             /\ IsBest(s[SelectInSeq(s, IsBest)])
<1> DEFINE IsBest(c) == \A n \in DOMAIN s : s[n].score <= c.score
           gaps == {g \in Nat : \E n \in DOMAIN s : g = 112 - s[n].score}
           I    == {i \in 1..Len(s) : IsBest(s[i])}
<1>0. DOMAIN s = 1..Len(s) /\ 1 \in DOMAIN s /\ \A n \in DOMAIN s : s[n] \in Candidate
  OBVIOUS
<1>1. \A n \in DOMAIN s : s[n].score \in 0..112
  BY <1>0, CandidateFields
<1>2. /\ \A n \in DOMAIN s : 112 - s[n].score \in gaps
      /\ gaps # {}
  <2>1. \A x \in 0..112 : 112 - x \in Nat
    OBVIOUS
  <2>2. ASSUME NEW n \in DOMAIN s PROVE 112 - s[n].score \in gaps
    <3>1. 112 - s[n].score \in Nat
      BY <1>1, <2>1
    <3> QED BY <3>1
  <2> QED BY <1>0, <2>2
<1>3. PICK g \in gaps : \A y \in gaps : g <= y
  <2>1. gaps \subseteq Nat
    OBVIOUS
  <2> HIDE DEF gaps
  <2> QED BY <1>2, <2>1, Least
<1>4. PICK n \in DOMAIN s : g = 112 - s[n].score
  OBVIOUS
<1>5. IsBest(s[n])
  <2> SUFFICES ASSUME NEW m \in DOMAIN s PROVE s[m].score <= s[n].score
    OBVIOUS
  <2> HIDE DEF gaps
  <2>1. 112 - s[n].score <= 112 - s[m].score
    BY <1>2, <1>3, <1>4
  <2>2. \A a, b \in 0..112 : 112 - a <= 112 - b => b <= a
    OBVIOUS
  <2> QED BY <1>1, <2>1, <2>2
<1>6. I # {} /\ I \subseteq Nat
  BY <1>0, <1>5
<1>7. Min(I) \in I
  <2> HIDE DEF I
  <2>1. PICK x \in I : \A y \in I : x <= y
    BY <1>6, Least
  <2> QED BY <2>1 DEF Min
<1>8. SelectInSeq(s, IsBest) = Min(I)
  BY <1>6 DEF SelectInSeq
<1> QED BY <1>0, <1>7, <1>8

\* The sort and the choice of its first element.
LEMMA ChooseStep ==
  ASSUME IInv, Choose
  PROVE  IInv'
<1> USE DEF Choose, reading, pid
<1> DEFINE IsBest(c) == \A n \in DOMAIN candidates : candidates[n].score <= c.score
           first     == SelectInSeq(candidates, IsBest)
<1>1. candidates \in Seq(Candidate)
  BY DEF IInv, TypeOK, Candidate
<1>2. chosen' = IF candidates = <<>> THEN None ELSE candidates[first].name
  OBVIOUS
<1>3. candidates # <<>> => first \in DOMAIN candidates /\ IsBest(candidates[first])
  BY <1>1, ChooseIsBest
<1> HIDE DEF first
<1>4. chosen' = None \/ chosen' \in Workload
  BY <1>1, <1>2, <1>3, CandidateFields
<1>5. chosen' \notin {"refused", "exe", "cgroup"} /\ chosen = "pending"
  BY <1>4, Markers
<1>6. TypeOK'
  BY <1>4 DEF IInv, TypeOK, IsProcess
<1>7. Refusal' /\ ReadOfHolders'
  BY <1>5 DEF IInv, Refusal, Parsed, ReadOfHolders
<1>8. NotStarted' /\ Scored'
  BY <1>5 DEF IInv, NotStarted, Scored, Parsed
<1>9. Best'
  <2>1. CASE candidates = <<>>
    BY <1>2, <2>1, Markers DEF Best
  <2>2. CASE candidates # <<>>
    <3>1. candidates[first].name \in Workload
      BY <1>1, <1>3, <2>2, CandidateFields
    <3>2. chosen' # None
      BY <1>2, <2>2, <3>1, Markers
    <3> QED BY <1>2, <1>3, <2>2, <3>2 DEF Best
  <2> QED BY <2>1, <2>2
<1> QED BY <1>6, <1>7, <1>8, <1>9 DEF IInv

\* Every step preserves the invariant.
LEMMA NextIInv == IInv /\ [Next]_vars => IInv'
<1> SUFFICES ASSUME IInv, [Next]_vars PROVE IInv'
  OBVIOUS
<1>1. CASE ReadExe \/ ReadCgroup
  BY <1>1, ReadStep
<1>2. CASE PidChanges
  BY <1>2, PidStep
<1>3. ASSUME NEW w \in Workload, Visit(w) PROVE IInv'
  BY <1>3, VisitStep
<1>4. CASE Choose
  BY <1>4, ChooseStep
<1>5. CASE NextConnection
  <2> USE DEF NextConnection
  <2>1. TypeOK'
    BY <1>5, PeerCredType DEF IInv, TypeOK
  <2>2. chosen # "refused" /\ chosen' = "exe"
    BY <1>5, Markers
  <2>3. Refusal'
    BY <1>5, <2>2 DEF IInv, Refusal, Parsed
  <2>4. ReadOfHolders'
    BY <1>5, PeerCredType DEF ReadOfHolders
  <2>5. NotStarted' /\ Scored'
    BY <1>5 DEF NotStarted, Scored
  <2>6. Best'
    BY <2>2, Markers DEF Best
  <2> QED BY <2>1, <2>3, <2>4, <2>5, <2>6 DEF IInv
<1>6. CASE UNCHANGED vars
  BY <1>6 DEF vars, reading, pid, IInv, TypeOK, IsProcess, Refusal, Parsed, ReadOfHolders,
              NotStarted, Scored, Best
<1> QED BY <1>1, <1>2, <1>3, <1>4, <1>5, <1>6 DEF Next, RefusedAgain

\* The invariant holds in every reachable state.
LEMMA Invariance == Spec => []IInv
BY InitIInv, NextIInv, PTL DEF Spec
-----------------------------------------------------------------------------
(***************************************************************************)
(* The theorems.                                                           *)
(***************************************************************************)

\* What of a file that was not refused the loop works with is what the strings say.
LEMMA ParsedIsGiven ==
  ASSUME IInv, chosen # "refused", NEW w \in Workload
  PROVE  /\ \A k \in Key : Parsed(w)[k] = Given(strings[w], k)
         /\ Matches(Parsed(w), seen) <=> Satisfies(w, seen)
<1>1. strings[w] \in Seq(Part)
  BY SelectorsAssumption DEF IInv, TypeOK
<1>2. Parsed(w) # None
  BY DEF IInv, Refusal
<1>3. \A k \in Key : Parsed(w)[k] = Given(strings[w], k)
  BY <1>1, <1>2, ParseSelectorAgrees DEF Parsed
<1> QED BY <1>3 DEF Matches, Satisfies

\* The result of the loop: a workload that what was read satisfies, with the best
\* score of all that it satisfies.
LEMMA ChosenIsCandidate ==
  ASSUME IInv, chosen \in Workload
  PROVE  /\ Satisfies(chosen, seen)
         /\ \A w \in Workload : Satisfies(w, seen) => Score(Parsed(w)) <= Score(Parsed(chosen))
<1>1. chosen # "refused"
  BY Markers
<1>2. PICK n \in DOMAIN candidates :
        /\ candidates[n].name = chosen
        /\ \A m \in DOMAIN candidates : candidates[m].score <= candidates[n].score
  BY DEF IInv, Best
<1>3. Matches(Parsed(chosen), seen) /\ candidates[n].score = Score(Parsed(chosen))
  BY <1>2 DEF IInv, Scored
<1>4. ASSUME NEW w \in Workload, Satisfies(w, seen)
      PROVE  Score(Parsed(w)) <= Score(Parsed(chosen))
  <2>1. Matches(Parsed(w), seen) /\ w \notin todo
    BY <1>1, <1>4, ParsedIsGiven DEF IInv, Best
  <2>2. PICK m \in DOMAIN candidates : candidates[m].name = w
    BY <2>1 DEF IInv, Scored
  <2>3. candidates[m].score = Score(Parsed(w))
    BY <2>2 DEF IInv, Scored
  <2> QED BY <1>2, <1>3, <2>3
<1> QED BY <1>1, <1>3, <1>4, ParsedIsGiven

\* The variables of the attestation keep their types: what is read of a peer is a
\* process's, and no sum of weights is above 112.
THEOREM TypeCorrect == Spec => []TypeOK
<1>1. IInv => TypeOK
  BY DEF IInv
<1> QED BY <1>1, Invariance, PTL

\* For strings of any length and parts in any order, parse_selector reads the last
\* value of each key, and from_file refuses exactly a bad part or a binary without
\* user and group.
THEOREM ParserIsRight == Spec => []ParserAgrees
<1>1. IInv => ParserAgrees
  <2> SUFFICES ASSUME IInv PROVE ParserAgrees
    OBVIOUS
  <2>1. \A w \in Workload : strings[w] \in Seq(Part)
    BY SelectorsAssumption DEF IInv, TypeOK
  <2>2. chosen = "refused" <=> \E w \in Workload : Refusable(strings[w])
    BY <2>1, ParseSelectorAgrees DEF IInv, Refusal, Parsed
  <2>3. chosen # "refused" =>
          \A w \in Workload : \A k \in Key : Parsed(w)[k] = Given(strings[w], k)
    BY ParsedIsGiven
  <2> QED BY <2>2, <2>3 DEF ParserAgrees, Refusable, Parsed
<1> QED BY <1>1, Invariance, PTL

\* From the string in the host's file to the result of match_workload nothing is
\* lost: a process is attested as a workload whose whole string it satisfies, and
\* as none only if it satisfies no string, in any order of the HashMap.
THEOREM ChosenIsSatisfied == Spec => []ChosenSatisfies
<1>1. IInv => ChosenSatisfies
  <2> SUFFICES ASSUME IInv PROVE ChosenSatisfies
    OBVIOUS
  <2>1. ASSUME chosen = None, NEW w \in Workload PROVE ~Satisfies(w, seen)
    <3>1. chosen # "refused" /\ todo = {} /\ DOMAIN candidates = {}
      BY <2>1, Markers DEF IInv, Best
    <3>2. ~Matches(Parsed(w), seen)
      BY <3>1 DEF IInv, Scored
    <3> QED BY <3>1, <3>2, ParsedIsGiven
  <2> QED BY <2>1, ChosenIsCandidate DEF ChosenSatisfies
<1> QED BY <1>1, Invariance, PTL

\* Whatever the number of workloads and the order of the visits, no workload the
\* process satisfies is more specific than the chosen one.
THEOREM MostSpecificIsChosen == Spec => []ChosenIsMostSpecific
<1>1. IInv => ChosenIsMostSpecific
  <2> SUFFICES ASSUME IInv, chosen \in Workload, NEW w \in Workload, Satisfies(w, seen),
                      Above(Tiers(strings[w]), Tiers(strings[chosen]))
               PROVE  FALSE
    BY DEF ChosenIsMostSpecific
  <2>1. chosen # "refused"
    BY Markers
  <2>2. Score(Parsed(w)) > Score(Parsed(chosen))
    BY <2>1, ParsedIsGiven, AboveScoresMore
  <2>3. Score(Parsed(w)) <= Score(Parsed(chosen))
    BY ChosenIsCandidate
  <2>4. Score(Parsed(w)) \in 0..112 /\ Score(Parsed(chosen)) \in 0..112
    BY ScoreType
  <2> QED BY <2>2, <2>3, <2>4
<1> QED BY <1>1, Invariance, PTL

\* However often the pid passes on between the reads, the user and group a workload
\* asks for are those of the process that connected, its executable and unit those
\* of a process that had the pid since, and all of it the peer's if it kept the pid.
THEOREM PeerIsAttested == Spec => []AttestsThePeer
<1>1. IInv => AttestsThePeer
  <2> SUFFICES ASSUME IInv, chosen \in Workload PROVE AttestsThePeer
    BY DEF AttestsThePeer
  <2> DEFINE given(k) == Given(strings[chosen], k)
             holds(keys, p) == \A k \in keys : given(k) # None => FieldMatches(k, given(k), p)
  <2>1. holds(Key, seen)
    BY ChosenIsCandidate DEF Satisfies
  <2>2. "user" \in Key /\ "group" \in Key /\ "bin" \in Key /\ Systemd \subseteq Key
        /\ Key = {"user", "group", "bin"} \cup Systemd
    BY DEF Key, Systemd
  <2>3. chosen \notin {"refused", "exe", "cgroup"}
    BY Markers
  <2>4. seen.uid = peer.uid /\ seen.gid = peer.gid /\ peer \in holders
    BY DEF IInv, ReadOfHolders
  <2>5. holds({"user", "group"}, peer)
    BY <2>1, <2>2, <2>4, FieldReads
  <2>6. \E p \in holders : holds({"bin"}, p)
    <3>1. CASE given("bin") = None
      BY <2>4, <3>1
    <3>2. CASE given("bin") # None
      <4>1. given("bin") = seen.exe
        BY <2>1, <2>2, <3>2 DEF FieldMatches
      <4>2. PICK p \in holders : seen.exe = p.exe
        BY <3>2, <4>1 DEF IInv, ReadOfHolders
      <4>3. holds({"bin"}, p)
        BY <2>1, <2>2, <4>2, FieldReads
      <4> QED BY <4>3
    <3> QED BY <3>1, <3>2
  <2>7. \E p \in holders \cup {PeerCred(peer)} : holds(Systemd, p)
    <3>1. \E p \in holders \cup {PeerCred(peer)} : seen.cgroup = p.cgroup
      BY PeerCredType DEF IInv, ReadOfHolders, TypeOK
    <3>2. PICK p \in holders \cup {PeerCred(peer)} : seen.cgroup = p.cgroup
      BY <3>1
    <3>3. holds(Systemd, p)
      BY <2>1, <2>2, <3>2, FieldReads
    <3> QED BY <3>3
  <2>8. ASSUME holder = peer PROVE holds(Key, peer)
    <3>1. seen.exe = peer.exe /\ seen.cgroup = peer.cgroup
      BY <2>3, <2>8 DEF IInv, ReadOfHolders
    <3>2. holds(Systemd, peer) /\ holds({"bin"}, peer)
      BY <2>1, <2>2, <3>1, FieldReads
    <3> QED BY <2>2, <2>5, <3>2
  <2> QED BY <2>5, <2>6, <2>7, <2>8 DEF AttestsThePeer
<1> QED BY <1>1, Invariance, PTL
=============================================================================
