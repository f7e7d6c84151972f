--------------------------- MODULE MCHostServer ---------------------------
(* Configuration files, requests and bounds for checking HostServer.       *)
EXTENDS HostServer, TLC

CONSTANTS vmA, vmB, c3, c4, idA, idB

Ttl(minutes) == [selector_ok |-> TRUE, ttl_minutes |-> minutes]
Entry(x, addr, policyA, policyB) ==
  [vm_cid |-> x, ip |-> addr, identities |-> (idA :> policyA @@ idB :> policyB)]
File(p, entryA, entryB) ==
  [server_port |-> p, peer_port |-> 901, vms |-> (vmA :> entryA @@ vmB :> entryB)]

\* Two VMs, the first with a workload idB whose name is not ASCII, the second with
\* an address that does not parse.
TwoVms == File(900, Entry(c3, "valid", Ttl(3), Ttl(1)), Entry(c4, "invalid", Ttl(2), None))
\* An edit: the CID of vmA moves to vmB, a workload goes, a TTL changes.
Edited == File(900, None, Entry(c3, "none", Ttl(2), None))
\* Files from_file refuses.
BadSelector == File(900, Entry(c3, "none", [selector_ok |-> FALSE, ttl_minutes |-> 1], Ttl(1)), None)
BadPort     == File(1000, Entry(c3, "none", Ttl(1), None), None)

Files == {TwoVms, Edited, BadSelector, BadPort}

\* Both handshakes and all four certificate requests as an agent sends them, and
\* one request each with a version, a CSR or a subject that is not right.
Wrong ==
  {r \in Handshake : r.vm_name = vmA /\ ~r.version_ok}
    \cup {r \in CertRequest :
            /\ r.vm_name = vmA /\ r.identity = idA
            /\ [v |-> r.version_ok, ok |-> r.csr.ok, cn |-> r.csr.cn] \in
                 {[v |-> FALSE, ok |-> TRUE, cn |-> idA], [v |-> TRUE, ok |-> FALSE, cn |-> idA],
                  [v |-> TRUE, ok |-> TRUE, cn |-> idB]}}

Requests ==
  {r \in Handshake : r.version_ok}
    \cup {r \in CertRequest : r.version_ok /\ r.csr = [cn |-> r.identity, ok |-> TRUE]}
    \cup Wrong \cup {Malformed}
=============================================================================
