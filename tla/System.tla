------------------------------- MODULE System -------------------------------
(***************************************************************************)
(* One guest's agent and the host's server, joined by the vsock connection *)
(* the agent dials. What Agent leaves to its environment (a connection is  *)
(* refused, answered or broken) is here what HostServer does; what         *)
(* HostServer leaves to the guests is what this agent sends. Each side may *)
(* stop and start again while the other carries on: the agent with a       *)
(* workload table of an earlier configuration, the server with requests of *)
(* an agent it has never greeted.                                          *)
(***************************************************************************)
EXTENDS Naturals

CONSTANTS
  Conn, Identity, KeyPair, None, BindRetries, HandshakeRetries, MaxCrashes,
  Vm, Cid, Port, Ia5, ConfigFile, Malformed, Minute, Wrap, MaxStarts,
  VmName,       \* AgentConfig.vm_name
  OwnCid,       \* the CID the hypervisor gave this guest
  ServerPort,   \* AgentConfig.server_port
  ClientPort,   \* AgentConfig.client_port
  Stream        \* the one vsock connection there is at a time

VARIABLES
  agent, tries, attempts, port, listener, workloads, cache, fresh, api,
  workloadsLock, cacheLock, dialLock, pc, who, key, cred, reply, link, request,
  response, crashes,                                       \* of the agent
  file, config, starts, stage, cid, peer, frame, answer, served,   \* of the host
  granted       \* identities some start's configuration grants this guest

\* The frames an agent writes: generate_csr puts the identity in the subject.
Frame(r) ==
  IF r.type = "handshake"
  THEN [type |-> "handshake", version_ok |-> TRUE, vm_name |-> VmName]
  ELSE [type |-> "cert_request", version_ok |-> TRUE, vm_name |-> VmName,
        identity |-> r.identity, csr |-> [cn |-> r.identity, ok |-> TRUE]]

A == INSTANCE Agent
H == INSTANCE HostServer WITH
       Conn <- {Stream}, Request <- {Frame(r) : r \in A!Request}, port <- peer,
       request <- frame

\* What Agent assumes of its constants.
ASSUME SystemAssumption ==
  /\ None \notin Conn /\ None \notin Identity /\ None \notin KeyPair
  /\ None \notin A!Cred
  /\ BindRetries \in Nat /\ HandshakeRetries \in Nat /\ MaxCrashes \in Nat

\* The agent's variables except those of the connection, all of the agent's, and
\* all of the server's.
inside  == <<agent, tries, attempts, port, listener, workloads, cache, fresh, api,
             workloadsLock, cacheLock, dialLock, pc, who, key, cred, reply, crashes>>
guest   == <<inside, link, request, response>>
server  == <<file, config, starts>>
host    == <<server, stage, cid, peer, frame, answer, served>>
vars    == <<guest, host, granted>>

\* What the agent makes of the server's frame: the names of the table, or the
\* certificate's subject with the public key of the CSR, which sign_csr keeps.
Received(a) ==
  CASE a.status = "handshakeok" -> A!HandshakeOk({i \in Identity : a.workloads[i] # None})
    [] a.status = "certok"      -> A!CertOk(a.cert.cn, request.pub)
    [] a.status = "error"       -> A!ErrorResponse

Init == A!Init /\ H!Init /\ granted = {}

-----------------------------------------------------------------------------
(* Steps of both sides.                                                    *)

\* A server listens on the port this agent dials.
Reachable == config # None /\ config.server_port = ServerPort

\* The agent connects from its client port and writes its request. A handler of
\* an earlier connection that is still running has lost its peer.
Dial ==
  /\ Reachable
  /\ A!BootDialOk \/ \E c \in Conn : A!DialOk(c)
  /\ stage' = [stage EXCEPT ![Stream] = "backlog"]
  /\ cid' = [cid EXCEPT ![Stream] = OwnCid]
  /\ peer' = [peer EXCEPT ![Stream] = ClientPort]
  /\ frame' = [frame EXCEPT ![Stream] = Frame(request')]
  /\ answer' = [answer EXCEPT ![Stream] = None]
  /\ served' = [served EXCEPT ![Stream] = 0]
  /\ UNCHANGED <<server, granted>>

\* The server writes its answer, and the agent has it.
Answer ==
  /\ link = "sent"
  /\ H!Handle(Stream)
  /\ link' = "answered"
  /\ response' = Received(answer'[Stream])
  /\ UNCHANGED <<inside, request, granted>>

\* The agent's end sees the stream closed, if it still waits for an answer.
SeesNoHangup == UNCHANGED <<guest, granted>>   \* mutant: the stream is kept open
SeesHangup ==
  /\ link' = IF link = "sent" THEN "broken" ELSE link
  /\ UNCHANGED <<inside, request, response, granted>>

Drop == H!Drop(Stream) /\ SeesHangup
Stop == H!Stop /\ SeesHangup

-----------------------------------------------------------------------------
(* Steps of one side.                                                      *)

\* The peer of a running handler is gone.
HandleGone == link # "sent" /\ H!HandleGone(Stream)

\* The configuration grants this guest certificates for i.
Grants(f, i) ==
  /\ f.vms[VmName] # None
  /\ f.vms[VmName].vm_cid = OwnCid
  /\ i \in H!Registered(f.vms[VmName])

Start ==
  /\ H!Start
  /\ granted' = granted \cup {i \in Identity : Grants(file, i)}

\* Only the last edit before a start is ever read.
EditFile == config = None /\ H!EditFile

HostAlone ==
  /\ \/ Start
     \/ (H!Accept(Stream) \/ HandleGone \/ EditFile) /\ UNCHANGED granted
  /\ UNCHANGED guest

\* AgentConfig::from_file, without which main exits.
LoadsConfig == ServerPort < 1000

\* A connection fails for the port, or because no server listens. The kernel
\* frees the port of a stream both ends have closed before a bind loop gives up.
Refused  == port = "free" /\ ~Reachable
PortBusy == port # "free" /\ ~(port = "linger" /\ stage[Stream] = "closed")

Boot ==
  \/ A!BootBindBusy \/ A!HandshakeAccepted \/ A!HandshakeFailed
  \/ A!SecureBusy \/ A!SecurePort
  \/ PortBusy /\ A!SecureGivesUp
  \/ (Refused \/ PortBusy) /\ (A!BootDialRetry \/ A!BootDialGivesUp)

Fetch(c) ==
  \/ A!CacheHit(c) \/ A!CacheMiss(c) \/ A!TakeDial(c) \/ A!DialBusy(c)
  \/ A!ExchangeFails(c) \/ A!Receive(c)
  \/ A!RebindBusy(c) \/ A!RebindIssued(c) \/ A!RebindRejected(c)
  \/ A!Reply(c)
  \/ (Refused \/ PortBusy) /\ A!DialFails(c)
  \/ PortBusy /\ A!RebindGivesUp(c)

AgentAlone ==
  /\ \/ Boot \/ A!StartApi \/ A!MainLoopSleeps
     \/ \E c \in Conn : A!Accept(c) \/ A!Attest(c) \/ A!Read(c) \/ Fetch(c)
     \/ A!LingerEnds \/ A!OtherBinds \/ A!OtherReleases \/ A!Ages
     \/ A!Crash
     \/ LoadsConfig /\ A!Restart
  /\ UNCHANGED <<host, granted>>

Next == Dial \/ Answer \/ Drop \/ Stop \/ HostAlone \/ AgentAlone

-----------------------------------------------------------------------------
(* Fairness: both runtimes, systemd for both units, and the kernel.        *)

HostOnly(act)  == act /\ UNCHANGED <<guest, granted>>
AgentOnly(act) == act /\ UNCHANGED <<host, granted>>

Fairness ==
  /\ WF_vars(Dial \/ AgentOnly(Boot))
  /\ WF_vars(AgentOnly(A!LingerEnds))
  /\ WF_vars(AgentOnly(LoadsConfig /\ A!Restart))
  /\ WF_vars(HostOnly(H!Accept(Stream)) \/ Drop \/ Answer)
  /\ WF_vars(Start /\ UNCHANGED guest)
  /\ \A c \in Conn :
       /\ SF_vars(AgentOnly(A!Attest(c)))
       /\ WF_vars(AgentOnly(A!Read(c)))
       /\ WF_vars(pc[c] # "idle" /\ (Dial \/ AgentOnly(Fetch(c))))

Spec == Init /\ [][Next]_vars /\ Fairness

-----------------------------------------------------------------------------
(* Properties.                                                             *)

\* The host does to the agent only what Agent allows its environment, and meets the
\* fairness assumed there, so that what is proved and checked of Agent holds with
\* this host: the frames of HostServer's two answers are the ones a dialing task
\* waits for, and every request is answered or its connection seen to break.
ImplementsAgent == A!FairSpec

\* Whatever the agent believes from its handshake, what it hands out was signed
\* under a configuration that registers the workload for this guest's CID: a table
\* that outlives its configuration gets the guest no certificate, and none is
\* cached that the server did not grant while it ran.
SignedAsRegistered ==
  /\ \A i \in Identity : cache[i] # None => i \in granted
  /\ /\ link = "answered" /\ response.status = "certok"
     /\ config # None /\ served[Stream] = starts
     => Grants(config, request.identity)

\* In the end the server runs a good configuration, the agent has its table, with
\* names sign_csr can sign, and no other process of the guest holds the client port.
Settled ==
  /\ Reachable
  /\ config.peer_port = ClientPort
  /\ \A i \in workloads : Grants(config, i) /\ config.vms[VmName].ip # "invalid"
  /\ workloads \subseteq Ia5
  /\ port # "other"
  /\ agent = "serving"

\* A workload that keeps asking is served again and again once things have
\* settled: no earlier kill, refused dial, failed re-bind or restarted server
\* leaves a mutex, the port or the listener in a state the agent cannot get out of.
KeepsAskingIsServed ==
  <>[]Settled =>
    \A c \in Conn : []<>(pc[c] = "lookup") => []<>(pc[c] = "replying")
=============================================================================
