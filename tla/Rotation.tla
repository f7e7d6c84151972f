------------------------------ MODULE Rotation ------------------------------
(***************************************************************************)
(* Time: the life of a workload's certificate from the host's signature    *)
(* through the agent's cache and the rotation loop of the workload library *)
(* (Rust and Go) to its replacement, while the host's CA may be generated  *)
(* anew, the agent restart, fetches fail and the guest sleep.              *)
(*                                                                         *)
(* Three clocks disagree: a certificate ages by the wall clock from its    *)
(* signature, the agent measures a cache entry by the guest's monotonic    *)
(* clock from its insertion, and the loop sleeps a time its caller chose.  *)
(* Only ages and timers are kept; a Tick moves them all.                   *)
(***************************************************************************)
EXTENDS Integers

CONSTANTS
  Client,       \* WorkloadClient values of one identity
  Loop,         \* their rotation loops
  Owner,        \* the client of each loop
  None,         \* no credentials
  Ttl,          \* lifetime of a certificate
  Interval,     \* what start_rotation_loop sleeps
  Delay,        \* longest time a fetch takes from its start to the store
  MaxFailures,  \* failures of one loop in a row
  MaxSuspend,   \* time the guest is suspended
  MaxRegen      \* how often the host's CA is generated anew

Half == Ttl \div 2

ASSUME RotationAssumption ==
  /\ Owner \in [Loop -> Client]
  /\ {Ttl, Interval, Delay, MaxFailures, MaxSuspend, MaxRegen} \subseteq Nat
  /\ Interval > 0
  /\ Ttl > 1

\* The caller's interval is short enough for the lifetime the host configured: a
\* credential that is handed out last before its half is still good when the loop
\* has failed as often as it may. No code compares the two.
ASSUME IntervalSuits ==
  Half - 1 + 2 * Delay + (MaxFailures + 1) * (Interval + Delay) + MaxSuspend <= Ttl

VARIABLES
  ca,          \* generation of the CA the server signs with
  entry,       \* the agent's CachedCredential: a credential and its elapsed time
  flight,      \* a credential that is signed and not yet in the cache, and for whom
  at,          \* where each loop is
  since,       \* how long it has been sleeping, or fetching and storing
  hand,        \* what its fetch returned
  failures,    \* its failures in a row
  current,     \* WorkloadClient.cached
  suspended    \* time suspended so far

agent == <<entry, flight>>
loops == <<at, since, hand, failures>>
vars  == <<ca, agent, loops, current, suspended>>

\* A certificate with the CA certificate beside it is the CA's generation and the
\* time since the signature, counted to just past the lifetime.
Ca     == 0..MaxRegen
Age    == 0..(Ttl + 1)
Cred   == [ca : Ca, age : Age]
Entry  == [ca : Ca, age : Age, elapsed : 0..Half]
Flight == [ca : Ca, age : Age, loop : Loop]
ASSUME NoneAssumption == None \notin Cred \cup Entry \cup Flight

Sleeping(l) == at[l] = "sleeping"

\* Types; a loop that stores has something to store.
TypeOK ==
  /\ ca \in Ca
  /\ entry \in Entry \cup {None}
  /\ flight \in Flight \cup {None}
  /\ at \in [Loop -> {"sleeping", "fetching", "storing"}]
  /\ since \in [Loop -> 0..(Interval + Delay)]
  /\ hand \in [Loop -> Cred \cup {None}]
  /\ \A l \in Loop : at[l] = "storing" => hand[l] # None
  /\ failures \in [Loop -> 0..MaxFailures]
  /\ current \in [Client -> Cred \cup {None}]
  /\ suspended \in 0..MaxSuspend

\* start_rotation_loop fetches at once.
Init ==
  /\ ca = 0
  /\ entry = None
  /\ flight = None
  /\ at = [l \in Loop |-> "fetching"]
  /\ since = [l \in Loop |-> 0]
  /\ hand = [l \in Loop |-> None]
  /\ failures = [l \in Loop |-> 0]
  /\ current = [c \in Client |-> None]
  /\ suspended = 0

-----------------------------------------------------------------------------
(* The agent's cache, whose mutex is held from the lookup to the insertion. *)

Signed(x) == [ca |-> x.ca, age |-> x.age]

\* fetched_at.elapsed() < rotation_threshold, half the certificate's validity.
FreshForLife == entry # None /\ entry.age < Ttl   \* mutant: until it expires
FreshForever == entry # None                      \* mutant: no threshold
Fresh == entry # None /\ entry.elapsed < Half

Returns(l, x) ==
  /\ hand' = [hand EXCEPT ![l] = x]
  /\ at' = [at EXCEPT ![l] = "storing"]

Hit(l) ==
  /\ at[l] = "fetching"
  /\ flight = None
  /\ Fresh
  /\ Returns(l, Signed(entry))
  /\ UNCHANGED <<ca, agent, since, failures, current, suspended>>

\* request_cert_on_demand: the host signs, and the answer is on its way.
Sign(l) ==
  /\ at[l] = "fetching"
  /\ flight = None
  /\ ~Fresh
  /\ flight' = [ca |-> ca, age |-> 0, loop |-> l]
  /\ UNCHANGED <<ca, entry, loops, current, suspended>>

InsertTimeOnly(l) ==   \* mutant: an entry there is keeps its certificate
  /\ flight # None /\ flight.loop = l
  /\ entry' = [ca |-> IF entry = None THEN flight.ca ELSE entry.ca,
               age |-> IF entry = None THEN flight.age ELSE entry.age, elapsed |-> 0]
  /\ flight' = None
  /\ Returns(l, Signed(flight))
  /\ UNCHANGED <<ca, since, failures, current, suspended>>
Insert(l) ==
  /\ flight # None /\ flight.loop = l
  /\ entry' = [ca |-> flight.ca, age |-> flight.age, elapsed |-> 0]
  /\ flight' = None
  /\ Returns(l, Signed(flight))
  /\ UNCHANGED <<ca, since, failures, current, suspended>>

\* A killed agent loses its cache; a fetch that is under way fails before.
RestartAgent ==
  /\ entry # None
  /\ flight = None
  /\ entry' = None
  /\ UNCHANGED <<ca, flight, loops, current, suspended>>

-----------------------------------------------------------------------------
(* start_rotation_loop.                                                    *)

Sleeps(l) ==
  /\ at' = [at EXCEPT ![l] = "sleeping"]
  /\ since' = [since EXCEPT ![l] = 0]
  /\ hand' = [hand EXCEPT ![l] = None]

Store(l) ==
  /\ at[l] = "storing"
  /\ current' = [current EXCEPT ![Owner[l]] = hand[l]]
  /\ failures' = [failures EXCEPT ![l] = 0]
  /\ Sleeps(l)
  /\ UNCHANGED <<ca, agent, suspended>>

\* Any error of fetch_credentials, also one of the agent's dial: it is printed,
\* and what is cached stays.
FailStores(l) ==   \* mutant: the error is printed and the store not skipped
  /\ at[l] = "fetching"
  /\ failures[l] < MaxFailures
  /\ failures' = [failures EXCEPT ![l] = @ + 1]
  /\ flight' = IF flight # None /\ flight.loop = l THEN None ELSE flight
  /\ at' = [at EXCEPT ![l] = "storing"]
  /\ UNCHANGED <<ca, entry, since, hand, current, suspended>>
Fail(l) ==
  /\ at[l] = "fetching"
  /\ failures[l] < MaxFailures
  /\ failures' = [failures EXCEPT ![l] = @ + 1]
  /\ flight' = IF flight # None /\ flight.loop = l THEN None ELSE flight
  /\ Sleeps(l)
  /\ UNCHANGED <<ca, entry, current, suspended>>

Wake(l) ==
  /\ Sleeping(l)
  /\ since[l] = Interval
  /\ at' = [at EXCEPT ![l] = "fetching"]
  /\ since' = [since EXCEPT ![l] = 0]
  /\ UNCHANGED <<ca, agent, hand, failures, current, suspended>>

-----------------------------------------------------------------------------
(* Time, and the host.                                                     *)

\* The wall clock moves everything that was signed.
Aged(x)    == IF x = None THEN None ELSE [x EXCEPT !.age = IF @ <= Ttl THEN @ + 1 ELSE @]
Elapsed(x) == IF x = None THEN None ELSE [x EXCEPT !.elapsed = IF @ < Half THEN @ + 1 ELSE @]
WallClock ==
  /\ flight' = Aged(flight)
  /\ hand' = [l \in Loop |-> Aged(hand[l])]
  /\ current' = [c \in Client |-> Aged(current[c])]

\* No timer that is due is passed over, and no fetch takes longer than Delay.
Tick ==
  /\ \A l \in Loop : since[l] < IF Sleeping(l) THEN Interval ELSE Delay
  /\ WallClock
  /\ entry' = Elapsed(Aged(entry))
  /\ since' = [l \in Loop |-> since[l] + 1]
  /\ UNCHANGED <<ca, at, failures, suspended>>

\* The guest is suspended: its monotonic clock and its timers stand still.
Suspend ==
  /\ suspended < MaxSuspend
  /\ suspended' = suspended + 1
  /\ WallClock
  /\ entry' = Aged(entry)
  /\ UNCHANGED <<ca, at, since, failures>>

\* The server is started with --genkey.
Regenerate ==
  /\ ca < MaxRegen
  /\ ca' = ca + 1
  /\ UNCHANGED <<agent, loops, current, suspended>>

\* Evaluator::from_cert_pem and NewEvaluator: the peer's certificate is signed by
\* the CA whose certificate came with one's own. Validity is not looked at.
Accepts(mine, peers) == mine # None /\ peers # None /\ peers.ca = mine.ca

\* A fetch goes on, and a loop whose timer is due.
Runs(l) == Hit(l) \/ Sign(l) \/ Insert(l) \/ Store(l) \/ Wake(l)

Next ==
  \/ \E l \in Loop : Runs(l) \/ Fail(l)
  \/ RestartAgent
  \/ Tick
  \/ Suspend
  \/ Regenerate

Spec == Init /\ [][Next]_vars /\ WF_vars(Tick) /\ \A l \in Loop : WF_vars(Runs(l))

-----------------------------------------------------------------------------
(* Properties.                                                             *)

\* A workload that uses current_credentials never presents an expired certificate,
\* although the agent may hand out one of nearly half its life, the guest's clock
\* has stood still, the loop has failed before and other loops store what they got.
CurrentStaysValid ==
  \A c \in Client : current[c] # None => current[c].age <= Ttl

\* A client with one loop never goes back to an older certificate: what its fetch
\* returned was signed no earlier than what it has, over restarts of the agent.
NewestWins ==
  \A l \in Loop :
    /\ hand[l] # None
    /\ current[Owner[l]] # None
    /\ \A m \in Loop : Owner[m] = Owner[l] => m = l
    => hand[l].age <= current[Owner[l]].age

\* After a CA is generated anew a workload rejects what the server now signs for
\* others, until it has rotated. Once no other CA follows, every workload comes to
\* accept for good what the server signs, and so all of them each other.
PeersConverge ==
  <>[](\A c \in Client : Accepts(current[c], [ca |-> ca, age |-> 0]))
=============================================================================
