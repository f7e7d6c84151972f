-------------------------- MODULE CredentialService --------------------------
(***************************************************************************)
(* What the agent's Workload API promises to its clients, without mutexes, *)
(* ports or a host: a client that asks is refused, or is given credentials *)
(* for one identity. The choice falls on an identity while its credentials *)
(* are usable, new ones are issued only once the old ones are not, and     *)
(* what is handed out at the end is the newest there is.                   *)
(***************************************************************************)
CONSTANTS
  Client,       \* who may ask
  Identity,
  Credential,   \* by identity, the credentials that may be issued for it
  None          \* no credential, no identity, no outcome

VARIABLES
  current,   \* newest credentials of each identity
  usable,    \* identities whose credentials may be chosen for a client
  asking,    \* clients that wait for an outcome
  choice,    \* the identity chosen for a client
  outcome    \* the credentials a client got, {} if it was refused

vars == <<current, usable, asking, choice, outcome>>

Init ==
  /\ current = [i \in Identity |-> None]
  /\ usable = {}
  /\ asking = {}
  /\ choice = [c \in Client |-> None]
  /\ outcome = [c \in Client |-> None]

Ask(c) ==
  /\ c \notin asking
  /\ asking' = asking \cup {c}
  /\ outcome' = [outcome EXCEPT ![c] = None]
  /\ UNCHANGED <<current, usable, choice>>

\* New credentials for i, fetched for c.
Issue(c, i) ==
  /\ c \in asking
  /\ choice[c] = None
  /\ i \notin usable
  /\ \E x \in Credential[i] : current' = [current EXCEPT ![i] = x]
  /\ usable' = usable \cup {i}
  /\ choice' = [choice EXCEPT ![c] = i]
  /\ UNCHANGED <<asking, outcome>>

\* The credentials there are will do.
Reuse(c, i) ==
  /\ c \in asking
  /\ choice[c] = None
  /\ i \in usable
  /\ choice' = [choice EXCEPT ![c] = i]
  /\ UNCHANGED <<current, usable, asking, outcome>>

Ends(c, result) ==
  /\ c \in asking
  /\ asking' = asking \ {c}
  /\ choice' = [choice EXCEPT ![c] = None]
  /\ outcome' = [outcome EXCEPT ![c] = result]
  /\ UNCHANGED <<current, usable>>

Grant(c)  == choice[c] # None /\ Ends(c, {current[choice[c]]})
Refuse(c) == Ends(c, {})

Age(i) ==
  /\ i \in usable
  /\ usable' = usable \ {i}
  /\ UNCHANGED <<current, asking, choice, outcome>>

\* The service starts afresh: whoever was asking gets nothing.
Reset ==
  /\ current' = [i \in Identity |-> None]
  /\ usable' = {}
  /\ asking' = {}
  /\ choice' = [c \in Client |-> None]
  /\ outcome' = [c \in Client |-> IF c \in asking THEN {} ELSE None]

Next ==
  \/ \E c \in Client : Ask(c) \/ Grant(c) \/ Refuse(c)
  \/ \E c \in Client, i \in Identity : Issue(c, i) \/ Reuse(c, i)
  \/ \E i \in Identity : Age(i)
  \/ Reset

Spec == Init /\ [][Next]_vars
=============================================================================
