------------------------------ MODULE MCSystem ------------------------------
(* Configuration files and bounds for checking System.                     *)
EXTENDS System, TLC

CONSTANTS idA, idB, vmA, c3, c4

Entry(x, names) ==
  [vm_cid |-> x, ip |-> "none",
   identities |-> [i \in Identity |-> IF i \in names THEN [selector_ok |-> TRUE, ttl_minutes |-> 1]
                                                     ELSE None]]
File(s, p, entry) == [server_port |-> s, peer_port |-> p, vms |-> (vmA :> entry)]

\* The guest's own entry; the same for another CID; a workload in its place whose
\* name is not ASCII; no workload; and a peer port that is not the agent's.
Good     == File(900, 901, Entry(c3, {idA}))
OtherCid == File(900, 901, Entry(c4, {idA}))
NotAscii == File(900, 901, Entry(c3, {idB}))
Removed  == File(900, 901, Entry(c3, {}))
OffPeer  == File(900, 902, Entry(c3, {idA}))

Files == {Good, OtherCid, NotAscii, Removed, OffPeer}
=============================================================================
