---------------------------- MODULE HostServer ----------------------------
(***************************************************************************)
(* The host's credential server: loading the configuration, accepting vsock *)
(* connections from the guests' client port, and answering the one request *)
(* each connection carries: a handshake with the workloads of a VM, or a   *)
(* certificate request with a signed certificate.                          *)
(*                                                                         *)
(* The configuration is read once per start, so it changes only with a     *)
(* restart; handlers share nothing else, so each runs as one action from   *)
(* the frame it reads to the frame it writes.                              *)
(***************************************************************************)
EXTENDS Naturals

CONSTANTS
  Conn,          \* slots for vsock connections
  Vm,            \* VM names a request may carry
  Cid,           \* vsock CIDs of the guests
  Port,          \* source ports a guest may dial from
  Identity,      \* workload names
  Ia5,           \* the names that are ASCII, which a DNS alternative name must be
  ConfigFile,    \* contents the configuration file may have
  Request,       \* frames guests may send, Malformed among them
  Malformed,     \* a frame that is too large or is not a request
  None,          \* no VM entry, no policy, no address, no frame
  Minute,        \* 60 in the code: seconds in a minute
  Wrap,          \* 2^32 in the code: ttl_minutes * 60 is a u32 product
  MaxStarts      \* bound on the starts of the server

(***************************************************************************)
(* A configuration: vms maps a VM name to its entry or None, and the entry's *)
(* identities map a workload to its policy or None. A selector is given as *)
(* whether parse_selector accepts it (see Selectors).                      *)
(***************************************************************************)
Policy  == [selector_ok : BOOLEAN, ttl_minutes : 0..(Wrap - 1)]
VmEntry == [vm_cid : Cid, ip : {"none", "valid", "invalid"},
            identities : [Identity -> Policy \cup {None}]]
HostConfig ==
  [server_port : Nat, peer_port : Port, vms : [Vm -> VmEntry \cup {None}]]

\* CSRs: the subject's common name, and whether from_pem can parse it.
Csr         == [cn : Identity, ok : BOOLEAN]
Handshake   == [type : {"handshake"}, version_ok : BOOLEAN, vm_name : Vm]
CertRequest == [type : {"cert_request"}, version_ok : BOOLEAN, vm_name : Vm,
                identity : Identity, csr : Csr]

ASSUME HostAssumption ==
  /\ ConfigFile \subseteq HostConfig
  /\ Ia5 \subseteq Identity
  /\ Request \subseteq Handshake \cup CertRequest \cup {Malformed}
  /\ None \notin VmEntry \cup Policy \cup Request
  /\ Malformed \notin Handshake \cup CertRequest
  /\ Minute \in Nat
  /\ Wrap \in Nat \ {0}
  /\ MaxStarts \in Nat

VARIABLES
  file,      \* content of the configuration file
  config,    \* HostConfig of the running server
  starts,    \* starts of the server so far, bounded by MaxStarts
  stage,     \* of each connection, see Stage
  cid, port, \* peer address of each connection, set by the guest's kernel
  request,   \* frame the guest wrote
  answer,    \* frame the server wrote before it dropped the stream
  served     \* the start of the server that wrote it

server == <<file, config, starts>>
conns  == <<stage, cid, port, request, answer, served>>
vars   == <<server, conns>>

Stage == {"free", "backlog", "open", "closed"}

Certificate ==
  [cn : Identity, dns : Identity, ip : {"none", "valid"}, validity : 0..(Wrap - 1)]
HandshakeOk(workloads) == [status |-> "handshakeok", workloads |-> workloads]
CertOk(cert)           == [status |-> "certok", cert |-> cert]
ErrorResponse          == [status |-> "error"]

Offer == [Identity -> 0..(Wrap - 1) \cup {None}]
AnswerOK(a) ==
  \/ a \in {None, ErrorResponse}
  \/ a.status = "handshakeok" /\ a.workloads \in Offer
  \/ a.status = "certok" /\ a.cert \in Certificate

TypeOK ==
  /\ file \in ConfigFile
  /\ config \in ConfigFile \cup {None}
  /\ starts \in 0..MaxStarts
  /\ stage \in [Conn -> Stage]
  /\ cid \in [Conn -> Cid \cup {None}]
  /\ port \in [Conn -> Port \cup {None}]
  /\ request \in [Conn -> Request \cup {None}]
  /\ \A c \in Conn : AnswerOK(answer[c])
  /\ served \in [Conn -> 0..MaxStarts]

Init ==
  /\ file \in ConfigFile
  /\ config = None
  /\ starts = 0
  /\ stage = [c \in Conn |-> "free"]
  /\ cid = [c \in Conn |-> None]
  /\ port = [c \in Conn |-> None]
  /\ request = [c \in Conn |-> None]
  /\ answer = [c \in Conn |-> None]
  /\ served = [c \in Conn |-> 0]

-----------------------------------------------------------------------------
(* config.rs and policy.rs.                                                *)

\* The workloads a VM entry registers.
Registered(entry) == {i \in Identity : entry.identities[i] # None}

\* from_file refuses a port that is not privileged and any bad selector.
LoadsUnvalidated(f) == f.server_port < 1000   \* mutant: selectors are not parsed
Loads(f) ==
  /\ f.server_port < 1000
  /\ \A v \in Vm : f.vms[v] # None =>
       \A i \in Registered(f.vms[v]) : f.vms[v].identities[i].selector_ok

\* policy.ttl_minutes * 60 in a release build, where u32 products wrap.
SecondsUnwrapped(policy) == policy.ttl_minutes * Minute   \* mutant: no u32
Seconds(policy) == (policy.ttl_minutes * Minute) % Wrap

\* resolve finds a policy for the VM and the identity.
Resolves(v, i) == config.vms[v] # None /\ i \in Registered(config.vms[v])

-----------------------------------------------------------------------------
(* handler.rs and signing.rs: the answer to a request from a CID.          *)

\* The validity, by workload, that HandshakeOk carries with the selectors.
Offered(entry) ==
  [i \in Identity |-> IF i \in Registered(entry) THEN Seconds(entry.identities[i])
                                                 ELSE None]

HandshakeAnswer(r, peer) ==
  IF /\ r.version_ok
     /\ config.vms[r.vm_name] # None
     /\ config.vms[r.vm_name].vm_cid = peer
     /\ \A i \in Registered(config.vms[r.vm_name]) :
          config.vms[r.vm_name].identities[i].selector_ok
  THEN HandshakeOk(Offered(config.vms[r.vm_name]))
  ELSE ErrorResponse

\* sign_csr keeps the subject and key of the CSR, replaces its alternative names
\* by the identity and the VM's address, and sets the validity from now on.
SignCsr(r) ==
  [cn |-> r.csr.cn, dns |-> r.identity, ip |-> config.vms[r.vm_name].ip,
   validity |-> Seconds(config.vms[r.vm_name].identities[r.identity])]

\* It fails on a CSR that does not parse, on a name that is no Ia5String (which
\* from_file and the handshake let pass), and on an address that does not parse.
Signable(r) == r.csr.ok /\ r.identity \in Ia5 /\ config.vms[r.vm_name].ip # "invalid"

CertAnswerAnyCid(r, peer) ==   \* mutant: the CID is not compared
  IF r.version_ok /\ Resolves(r.vm_name, r.identity) /\ Signable(r)
  THEN CertOk(SignCsr(r))
  ELSE ErrorResponse
CertAnswer(r, peer) ==
  IF /\ r.version_ok
     /\ Resolves(r.vm_name, r.identity)
     /\ config.vms[r.vm_name].vm_cid = peer
     /\ Signable(r)
  THEN CertOk(SignCsr(r))
  ELSE ErrorResponse

Answer(r, peer) ==
  IF r = Malformed THEN ErrorResponse
  ELSE IF r.type = "handshake" THEN HandshakeAnswer(r, peer) ELSE CertAnswer(r, peer)

-----------------------------------------------------------------------------
\* from_file succeeds and run_listener binds; otherwise the process exits and
\* systemd starts it again, until the file is good.
Start ==
  /\ config = None
  /\ starts < MaxStarts
  /\ Loads(file)
  /\ config' = file
  /\ starts' = starts + 1
  /\ UNCHANGED <<file, conns>>

\* The listener accepts; a stream from another port than peer_port is dropped.
AcceptAnyPort(c) ==   \* mutant: the peer's port is not compared
  /\ config # None
  /\ stage[c] = "backlog"
  /\ stage' = [stage EXCEPT ![c] = "open"]
  /\ UNCHANGED <<server, cid, port, request, answer, served>>
Accept(c) ==
  /\ config # None
  /\ stage[c] = "backlog"
  /\ port[c] = config.peer_port
  /\ stage' = [stage EXCEPT ![c] = "open"]
  /\ UNCHANGED <<server, cid, port, request, answer, served>>

DropKeepsStream(c) ==   \* mutant: the stream is kept, not dropped
  /\ config # None
  /\ stage[c] = "backlog"
  /\ port[c] # config.peer_port
  /\ UNCHANGED vars
Drop(c) ==
  /\ config # None
  /\ stage[c] = "backlog"
  /\ port[c] # config.peer_port
  /\ stage' = [stage EXCEPT ![c] = "closed"]
  /\ UNCHANGED <<server, cid, port, request, answer, served>>

\* handle_connection: one frame in, one frame out, and the stream is dropped.
Handle(c) ==
  /\ stage[c] = "open"
  /\ request[c] # None
  /\ answer' = [answer EXCEPT ![c] = Answer(request[c], cid[c])]
  /\ served' = [served EXCEPT ![c] = starts]
  /\ stage' = [stage EXCEPT ![c] = "closed"]
  /\ UNCHANGED <<server, cid, port, request>>

\* The guest hung up: reading or writing fails, and so does the error frame.
HandleGone(c) ==
  /\ stage[c] = "open"
  /\ stage' = [stage EXCEPT ![c] = "closed"]
  /\ UNCHANGED <<server, cid, port, request, answer, served>>

-----------------------------------------------------------------------------
(* The environment: guests, the administrator, systemd.                    *)

\* A guest's kernel connects a free slot; the guest may write before it is
\* accepted.
Connect(c) ==
  /\ config # None
  /\ stage[c] \in {"free", "closed"}
  /\ stage' = [stage EXCEPT ![c] = "backlog"]
  /\ \E x \in Cid : cid' = [cid EXCEPT ![c] = x]
  /\ \E x \in Port : port' = [port EXCEPT ![c] = x]
  /\ request' = [request EXCEPT ![c] = None]
  /\ answer' = [answer EXCEPT ![c] = None]
  /\ served' = [served EXCEPT ![c] = 0]
  /\ UNCHANGED server

Send(c) ==
  /\ stage[c] \in {"backlog", "open"}
  /\ request[c] = None
  /\ \E r \in Request : request' = [request EXCEPT ![c] = r]
  /\ UNCHANGED <<server, stage, cid, port, answer, served>>

EditFile ==
  /\ file' \in ConfigFile
  /\ UNCHANGED <<config, starts, conns>>

\* The process ends: its connections are reset.
Stop ==
  /\ config # None
  /\ config' = None
  /\ stage' = [c \in Conn |-> IF stage[c] \in {"backlog", "open"} THEN "closed"
                                                                 ELSE stage[c]]
  /\ UNCHANGED <<file, starts, cid, port, request, answer, served>>

Server(c) == Accept(c) \/ Drop(c) \/ Handle(c) \/ HandleGone(c)
Guest(c)  == Connect(c) \/ Send(c)

Next ==
  \/ Start
  \/ \E c \in Conn : Server(c) \/ Guest(c)
  \/ EditFile
  \/ Stop

\* The accept loop and the spawned handlers run when they can.
Fairness == \A c \in Conn : WF_vars(Accept(c) \/ Drop(c)) /\ WF_vars(Handle(c))

Spec     == Init /\ [][Next]_vars
FairSpec == Spec /\ Fairness

-----------------------------------------------------------------------------
(* Properties.                                                             *)

\* Connections the running server has answered.
Answered == {c \in Conn : config # None /\ served[c] = starts /\ answer[c] # None}
Granted  == {c \in Answered : answer[c].status = "certok"}

\* Only the agent's port is answered, and only a guest whose CID is registered
\* for the VM it names learns that VM's workloads or gets a certificate, for a
\* workload registered for that VM: the checks are spread over run_listener,
\* handle_inner and resolve.
OnlyRegisteredPeers ==
  \A c \in Answered :
    /\ port[c] = config.peer_port
    /\ answer[c].status # "error" =>
         /\ config.vms[request[c].vm_name] # None
         /\ cid[c] = config.vms[request[c].vm_name].vm_cid
    /\ answer[c].status = "certok" =>
         answer[c].cert.dns \in Registered(config.vms[request[c].vm_name])

\* What one start of the server grants a VM is what it offers that VM: a workload
\* it signs for is in the handshake's table, and the certificate has the validity
\* the table announces (WorkloadConfig.validity_seconds; the agent itself goes by
\* the certificate). A workload of the table is refused only where sign_csr fails:
\* for its CSR, the VM's address or a name that is not ASCII. Two branches of
\* handle_inner compute the two sides, each from policy and TTL on its own.
OffersAreGrants ==
  \A c, d \in Answered :
    /\ request[c] \in Handshake /\ request[c].version_ok
    /\ request[d] \in CertRequest /\ request[d].version_ok
    /\ request[c].vm_name = request[d].vm_name
    /\ cid[c] = cid[d]
    => /\ d \in Granted =>
            /\ answer[c].status = "handshakeok"
            /\ answer[c].workloads[request[d].identity] = answer[d].cert.validity
       /\ answer[c].status = "handshakeok" /\ d \notin Granted =>
            \/ answer[c].workloads[request[d].identity] = None
            \/ ~Signable(request[d])

\* signing.rs: "The Identity name (must match the CSR subject CN)."
SubjectIsIdentity == \A c \in Granted : answer[c].cert.cn = answer[c].cert.dns

\* A guest that has dialed and written a request is not left waiting: it is
\* answered, dropped for its port, or cut off because the server stopped.
RequestsEnd ==
  \A c \in Conn :
    stage[c] \in {"backlog", "open"} /\ request[c] # None ~> stage[c] = "closed"
=============================================================================
