------------------------- MODULE HostServerProofs -------------------------
(***************************************************************************)
(* Proofs about HostServer, for any set of connections, VMs, guests,       *)
(* configuration files and requests: who is answered, and that what the    *)
(* two handlers compute for one configuration agrees.                      *)
(***************************************************************************)
EXTENDS HostServer, TLAPS

(***************************************************************************)
(* The inductive invariant. A running server has a configuration that      *)
(* from_file accepted. Only a running server has open streams, all of them *)
(* from its peer port. A stream is closed once it has been answered, so    *)
(* what was asked and from where is still to be seen, and the answer is    *)
(* the one the configuration gives, as long as no other start of the       *)
(* server may have written it.                                             *)
(***************************************************************************)
Loaded == config # None => Loads(config)

OpenFromPeerPort ==
  \A c \in Conn : stage[c] = "open" => config # None /\ port[c] = config.peer_port

AnsweredIsClosed ==
  \A c \in Conn : answer[c] # None => stage[c] = "closed"

AnsweredByConfig ==
  \A c \in Conn :
    /\ served[c] <= starts
    /\ config # None /\ served[c] = starts /\ answer[c] # None =>
         /\ port[c] = config.peer_port
         /\ request[c] # None
         /\ answer[c] = Answer(request[c], cid[c])

IInv ==
  /\ TypeOK
  /\ DOMAIN answer = Conn
  /\ Loaded
  /\ OpenFromPeerPort
  /\ AnsweredIsClosed
  /\ AnsweredByConfig

-----------------------------------------------------------------------------
\* A u32 product is a u32: what Seconds computes fits the wire's field.
LEMMA SecondsType ==
  ASSUME NEW policy \in Policy
  PROVE  Seconds(policy) \in 0..(Wrap - 1)
<1>1. policy.ttl_minutes \in Nat /\ Minute \in Nat /\ Wrap \in Nat /\ Wrap > 0
  BY HostAssumption DEF Policy
<1> DEFINE product == policy.ttl_minutes * Minute
<1>2. product \in Nat
  BY <1>1
<1> HIDE DEF product
<1>3. product % Wrap \in 0..(Wrap - 1)
  BY <1>1, <1>2
<1> QED BY <1>3 DEF Seconds, product

\* What the handlers write under a configuration is a frame of the protocol.
LEMMA AnswerType ==
  ASSUME config \in HostConfig, NEW r \in Request, NEW x
  PROVE  AnswerOK(Answer(r, x))
<1>1. CASE r \in Handshake /\ r # Malformed
  <2>1. Answer(r, x) = HandshakeAnswer(r, x)
    BY <1>1 DEF Answer, Handshake
  <2>2. CASE config.vms[r.vm_name] \in VmEntry
    <3> DEFINE entry == config.vms[r.vm_name]
    <3>1. \A i \in Registered(entry) : Seconds(entry.identities[i]) \in 0..(Wrap - 1)
      BY <2>2, SecondsType DEF Registered, VmEntry
    <3>2. Offered(entry) \in Offer
      BY <3>1 DEF Offered, Offer
    <3> HIDE DEF entry
    <3>3. HandshakeOk(Offered(entry)).status = "handshakeok"
          /\ HandshakeOk(Offered(entry)).workloads = Offered(entry)
      BY DEF HandshakeOk
    <3> QED BY <2>1, <3>2, <3>3 DEF AnswerOK, HandshakeAnswer, entry
  <2>3. CASE config.vms[r.vm_name] = None
    BY <2>1, <2>3 DEF AnswerOK, HandshakeAnswer
  <2> QED BY <1>1, <2>2, <2>3 DEF HostConfig, Handshake
<1>2. CASE r \in CertRequest /\ r # Malformed
  <2>1. Answer(r, x) = CertAnswer(r, x)
    BY <1>2 DEF Answer, CertRequest
  <2>2. CASE Resolves(r.vm_name, r.identity) /\ Signable(r)
    <3> DEFINE entry == config.vms[r.vm_name]
    <3>1. entry \in VmEntry /\ r.vm_name \in Vm /\ r.identity \in Identity
          /\ r.csr.cn \in Identity
      BY <1>2, <2>2 DEF HostConfig, CertRequest, Csr, Resolves
    <3>2. entry.identities[r.identity] \in Policy
      BY <2>2, <3>1 DEF Resolves, Registered, VmEntry
    <3>3. Seconds(entry.identities[r.identity]) \in 0..(Wrap - 1)
      BY <3>2, SecondsType
    <3>4. entry.ip \in {"none", "valid"}
      BY <2>2, <3>1 DEF Signable, VmEntry
    <3>5. SignCsr(r) \in Certificate
      BY <3>1, <3>3, <3>4 DEF SignCsr, Certificate
    <3>6. CertOk(SignCsr(r)).status = "certok" /\ CertOk(SignCsr(r)).cert = SignCsr(r)
      BY DEF CertOk
    <3> QED BY <2>1, <3>5, <3>6 DEF AnswerOK, CertAnswer
  <2>3. CASE ~(Resolves(r.vm_name, r.identity) /\ Signable(r))
    BY <2>1, <2>3 DEF AnswerOK, CertAnswer
  <2> QED BY <2>2, <2>3
<1>3. CASE r = Malformed
  BY <1>3 DEF Answer, AnswerOK
<1> QED BY <1>1, <1>2, <1>3, HostAssumption

\* The answer to a request from a CID depends on the configuration and nothing else.
LEMMA AnswerUnchanged ==
  ASSUME config' = config, NEW c, request'[c] = request[c], cid'[c] = cid[c]
  PROVE  Answer(request[c], cid[c])' = Answer(request[c], cid[c])
BY DEF Answer, HandshakeAnswer, CertAnswer, Resolves, Registered, Signable, SignCsr,
       Offered, Seconds

-----------------------------------------------------------------------------
\* Init establishes the invariant.
LEMMA InitIInv == Init => IInv
BY HostAssumption DEF Init, IInv, TypeOK, AnswerOK, Loaded, OpenFromPeerPort,
   AnsweredIsClosed, AnsweredByConfig, Stage

\* A connection slot's steps that leave the server and the answers alone: the
\* rest of the invariant follows from the stages.
LEMMA QuietStep ==
  ASSUME IInv, UNCHANGED <<server, answer, served>>,
         stage' \in [Conn -> Stage],
         cid' \in [Conn -> Cid \cup {None}], port' \in [Conn -> Port \cup {None}],
         request' \in [Conn -> Request \cup {None}],
         OpenFromPeerPort',
         AnsweredIsClosed',
         \A c \in Conn : stage[c] = "closed" =>
           request'[c] = request[c] /\ cid'[c] = cid[c] /\ port'[c] = port[c]
  PROVE  IInv'
<1>1. TypeOK' /\ (DOMAIN answer = Conn)' /\ Loaded'
  BY DEF IInv, TypeOK, AnswerOK, Loaded, Loads, Registered, server
<1>2. AnsweredByConfig'
  <2> SUFFICES ASSUME NEW c \in Conn
               PROVE  /\ served'[c] <= starts'
                      /\ config' # None /\ served'[c] = starts' /\ answer'[c] # None =>
                           /\ port'[c] = config'.peer_port
                           /\ request'[c] # None
                           /\ answer'[c] = Answer(request[c], cid[c])'
    BY DEF AnsweredByConfig
  <2>1. served'[c] <= starts'
    BY DEF IInv, AnsweredByConfig, server
  <2>2. ASSUME config' # None, served'[c] = starts', answer'[c] # None
        PROVE  /\ port'[c] = config'.peer_port
               /\ request'[c] # None
               /\ answer'[c] = Answer(request[c], cid[c])'
    <3>1. stage[c] = "closed"
      BY <2>2 DEF IInv, AnsweredIsClosed
    <3>2. Answer(request[c], cid[c])' = Answer(request[c], cid[c])
      BY <3>1, AnswerUnchanged DEF server
    <3> QED BY <2>2, <3>1, <3>2 DEF IInv, AnsweredByConfig, server
  <2> QED BY <2>1, <2>2
<1> QED BY <1>1, <1>2 DEF IInv

\* A handler writes its answer under the configuration of the running server.
LEMMA HandleStep ==
  ASSUME IInv, NEW c \in Conn, Handle(c)
  PROVE  IInv'
<1> USE DEF Handle, server
<1>1. config # None /\ config \in HostConfig /\ port[c] = config.peer_port
  BY HostAssumption DEF IInv, TypeOK, OpenFromPeerPort
<1>2. AnswerOK(Answer(request[c], cid[c]))
  BY <1>1, AnswerType DEF IInv, TypeOK
<1>3. DOMAIN answer' = Conn /\ answer'[c] = Answer(request[c], cid[c])
      /\ \A d \in Conn \ {c} : answer'[d] = answer[d]
  BY DEF IInv
<1>4. TypeOK'
  <2>1. stage' \in [Conn -> Stage] /\ served' \in [Conn -> 0..MaxStarts]
    BY DEF IInv, TypeOK, Stage
  <2>2. ASSUME NEW d \in Conn PROVE AnswerOK(answer'[d])
    BY <1>2, <1>3 DEF IInv, TypeOK
  <2>3. \A d \in Conn : AnswerOK(answer[d])'
    BY <2>2 DEF AnswerOK
  <2> QED BY <2>1, <2>3 DEF IInv, TypeOK
<1>5. Loaded' /\ OpenFromPeerPort' /\ AnsweredIsClosed'
  BY <1>3 DEF IInv, TypeOK, Loaded, Loads, Registered, OpenFromPeerPort, AnsweredIsClosed
<1>6. AnsweredByConfig'
  <2> SUFFICES ASSUME NEW d \in Conn
               PROVE  /\ served'[d] <= starts'
                      /\ config' # None /\ served'[d] = starts' /\ answer'[d] # None =>
                           /\ port'[d] = config'.peer_port
                           /\ request'[d] # None
                           /\ answer'[d] = Answer(request[d], cid[d])'
    BY DEF AnsweredByConfig
  <2>1. Answer(request[d], cid[d])' = Answer(request[d], cid[d])
    BY AnswerUnchanged
  <2>2. CASE d = c
    BY <1>1, <1>3, <2>1, <2>2 DEF IInv, TypeOK
  <2>3. CASE d # c
    BY <1>3, <2>1, <2>3 DEF IInv, TypeOK, AnsweredByConfig
  <2> QED BY <2>2, <2>3
<1> QED BY <1>3, <1>4, <1>5, <1>6 DEF IInv

\* A new connection takes a slot over: what was written to the old one is gone.
LEMMA ConnectStep ==
  ASSUME IInv, NEW c \in Conn, Connect(c)
  PROVE  IInv'
<1> USE DEF Connect, server
<1>1. DOMAIN answer' = Conn /\ answer'[c] = None /\ stage'[c] = "backlog"
      /\ \A d \in Conn \ {c} :
           /\ answer'[d] = answer[d] /\ served'[d] = served[d] /\ stage'[d] = stage[d]
           /\ port'[d] = port[d] /\ request'[d] = request[d] /\ cid'[d] = cid[d]
  BY DEF IInv, TypeOK
<1>2. TypeOK'
  <2>1. stage' \in [Conn -> Stage] /\ served' \in [Conn -> 0..MaxStarts]
        /\ cid' \in [Conn -> Cid \cup {None}] /\ port' \in [Conn -> Port \cup {None}]
        /\ request' \in [Conn -> Request \cup {None}]
    BY HostAssumption DEF IInv, TypeOK, Stage
  <2>2. \A d \in Conn : AnswerOK(answer[d])'
    BY <1>1 DEF IInv, TypeOK, AnswerOK
  <2> QED BY <2>1, <2>2 DEF IInv, TypeOK
<1>3. Loaded' /\ OpenFromPeerPort' /\ AnsweredIsClosed'
  BY <1>1 DEF IInv, TypeOK, Loaded, Loads, Registered, OpenFromPeerPort, AnsweredIsClosed
<1>4. AnsweredByConfig'
  <2> SUFFICES ASSUME NEW d \in Conn
               PROVE  /\ served'[d] <= starts'
                      /\ config' # None /\ served'[d] = starts' /\ answer'[d] # None =>
                           /\ port'[d] = config'.peer_port
                           /\ request'[d] # None
                           /\ answer'[d] = Answer(request[d], cid[d])'
    BY DEF AnsweredByConfig
  <2>1. CASE d = c
    BY <1>1, <2>1 DEF IInv, TypeOK
  <2>2. CASE d # c
    <3>1. Answer(request[d], cid[d])' = Answer(request[d], cid[d])
      BY <1>1, <2>2, AnswerUnchanged
    <3> QED BY <1>1, <2>2, <3>1 DEF IInv, TypeOK, AnsweredByConfig
  <2> QED BY <2>1, <2>2
<1> QED BY <1>1, <1>2, <1>3, <1>4 DEF IInv

\* Every step preserves the invariant.
LEMMA NextIInv == IInv /\ [Next]_vars => IInv'
<1> SUFFICES ASSUME IInv, [Next]_vars PROVE IInv'
  OBVIOUS
<1>1. CASE Start
  <2>1. \A c \in Conn : served'[c] < starts' /\ stage'[c] # "open"
    BY <1>1, HostAssumption
    DEF Start, IInv, TypeOK, conns, AnsweredByConfig, OpenFromPeerPort
  <2>2. Loaded'
    BY <1>1 DEF Start, Loaded, Loads, Registered
  <2>3. OpenFromPeerPort' /\ AnsweredIsClosed'
    BY <1>1, <2>1 DEF Start, IInv, conns, OpenFromPeerPort, AnsweredIsClosed
  <2>4. AnsweredByConfig'
    BY <1>1, <2>1, HostAssumption DEF Start, IInv, TypeOK, conns, AnsweredByConfig
  <2>5. TypeOK' /\ DOMAIN answer' = Conn
    BY <1>1, HostAssumption DEF Start, IInv, TypeOK, AnswerOK, conns
  <2> QED BY <2>2, <2>3, <2>4, <2>5 DEF IInv
<1>2. ASSUME NEW c \in Conn, Server(c) PROVE IInv'
  <2>1. CASE Accept(c) \/ Drop(c) \/ HandleGone(c)
    <3> USE DEF Accept, Drop, HandleGone, server
    <3>1. stage' \in [Conn -> Stage] /\ answer[c] = None
      BY <2>1 DEF IInv, TypeOK, Stage, AnsweredIsClosed
    <3>2. OpenFromPeerPort' /\ AnsweredIsClosed'
      BY <2>1, <3>1 DEF IInv, TypeOK, OpenFromPeerPort, AnsweredIsClosed
    <3> QED BY <2>1, <3>1, <3>2, QuietStep DEF IInv, TypeOK
  <2> QED BY <1>2, <2>1, HandleStep DEF Server
<1>3. ASSUME NEW c \in Conn, Guest(c) PROVE IInv'
  <2>1. CASE Send(c)
    <3> USE DEF Send, server
    <3>1. request' \in [Conn -> Request \cup {None}]
      BY <2>1 DEF IInv, TypeOK
    <3>2. OpenFromPeerPort' /\ AnsweredIsClosed'
      BY <2>1 DEF IInv, OpenFromPeerPort, AnsweredIsClosed
    <3>3. \A d \in Conn : stage[d] = "closed" => request'[d] = request[d]
      BY <2>1 DEF IInv, TypeOK
    <3> QED BY <2>1, <3>1, <3>2, <3>3, QuietStep DEF IInv, TypeOK
  <2> QED BY <1>3, <2>1, ConnectStep DEF Guest
<1>4. CASE EditFile
  <2>1. TypeOK' /\ DOMAIN answer' = Conn
    BY <1>4 DEF EditFile, IInv, TypeOK, AnswerOK, conns
  <2>2. Loaded' /\ OpenFromPeerPort' /\ AnsweredIsClosed'
    BY <1>4 DEF EditFile, IInv, conns, Loaded, Loads, Registered, OpenFromPeerPort,
                AnsweredIsClosed
  <2>3. \A c \in Conn : Answer(request[c], cid[c])' = Answer(request[c], cid[c])
    BY <1>4, AnswerUnchanged DEF EditFile, conns
  <2>4. AnsweredByConfig'
    BY <1>4, <2>3 DEF EditFile, IInv, conns, AnsweredByConfig
  <2> QED BY <2>1, <2>2, <2>4 DEF IInv
<1>5. CASE Stop
  <2>1. TypeOK' /\ DOMAIN answer' = Conn
    BY <1>5 DEF Stop, IInv, TypeOK, AnswerOK, Stage
  <2>2. Loaded' /\ OpenFromPeerPort' /\ AnsweredIsClosed'
    BY <1>5 DEF Stop, IInv, TypeOK, Loaded, OpenFromPeerPort, AnsweredIsClosed
  <2>3. AnsweredByConfig'
    BY <1>5 DEF Stop, IInv, AnsweredByConfig
  <2> QED BY <2>1, <2>2, <2>3 DEF IInv
<1>6. CASE UNCHANGED vars
  <2>1. OpenFromPeerPort' /\ AnsweredIsClosed'
    BY <1>6 DEF vars, conns, server, IInv, OpenFromPeerPort, AnsweredIsClosed
  <2> QED BY <1>6, <2>1, QuietStep DEF vars, conns, IInv, TypeOK
<1> QED BY <1>1, <1>2, <1>3, <1>4, <1>5, <1>6 DEF Next

\* The invariant holds in every reachable state.
LEMMA Invariance == Spec => []IInv
BY InitIInv, NextIInv, PTL DEF Spec

-----------------------------------------------------------------------------
\* The host server's variables keep their types; in particular what it writes is
\* a frame of the protocol with a validity that fits a u32, whatever the TTLs of
\* the configuration.
THEOREM TypeCorrect == Spec => []TypeOK
<1>1. IInv => TypeOK
  BY DEF IInv
<1> QED BY <1>1, Invariance, PTL

\* The port check of run_listener, the CID check of handle_inner and the lookup of
\* resolve together: whoever is answered with anything but an error dialed from
\* peer_port and from the CID of the VM it named, and for a workload of that VM.
THEOREM PeersAreRegistered == Spec => []OnlyRegisteredPeers
<1>1. IInv => OnlyRegisteredPeers
  <2> SUFFICES ASSUME IInv, NEW c \in Answered
               PROVE  /\ port[c] = config.peer_port
                      /\ answer[c].status # "error" =>
                           /\ config.vms[request[c].vm_name] # None
                           /\ cid[c] = config.vms[request[c].vm_name].vm_cid
                      /\ answer[c].status = "certok" =>
                           answer[c].cert.dns \in Registered(config.vms[request[c].vm_name])
    BY DEF OnlyRegisteredPeers
  <2>1. port[c] = config.peer_port /\ answer[c] = Answer(request[c], cid[c])
    BY DEF IInv, AnsweredByConfig, Answered
  <2>2. ErrorResponse.status = "error"
    BY DEF ErrorResponse
  <2>3. CASE answer[c] = ErrorResponse
    BY <2>1, <2>2, <2>3
  <2>4. CASE answer[c] # ErrorResponse /\ answer[c] = HandshakeAnswer(request[c], cid[c])
    <3>1. answer[c] = HandshakeOk(Offered(config.vms[request[c].vm_name]))
      BY <2>4 DEF HandshakeAnswer
    <3>2. answer[c].status = "handshakeok"
      BY <3>1 DEF HandshakeOk
    <3> QED BY <2>1, <2>4, <3>2 DEF HandshakeAnswer
  <2>5. CASE answer[c] # ErrorResponse /\ answer[c] = CertAnswer(request[c], cid[c])
    <3>1. answer[c] = CertOk(SignCsr(request[c]))
      BY <2>5 DEF CertAnswer
    <3>2. answer[c].cert.dns = request[c].identity
      BY <3>1 DEF CertOk, SignCsr
    <3> QED BY <2>1, <2>5, <3>2 DEF CertAnswer, Resolves
  <2> QED BY <2>1, <2>3, <2>4, <2>5 DEF Answer
<1> QED BY <1>1, Invariance, PTL

\* The handshake handler and the certificate handler agree about every workload of
\* a VM, for every configuration from_file accepts: the agent that caches by the
\* validity it was told never holds a certificate of another one.
THEOREM OffersAgreeWithGrants == Spec => []OffersAreGrants
<1>1. IInv => OffersAreGrants
  <2> SUFFICES ASSUME IInv, NEW c \in Answered, NEW d \in Answered,
                      request[c] \in Handshake, request[c].version_ok,
                      request[d] \in CertRequest, request[d].version_ok,
                      request[c].vm_name = request[d].vm_name,
                      cid[c] = cid[d]
               PROVE  /\ d \in Granted =>
                           /\ answer[c].status = "handshakeok"
                           /\ answer[c].workloads[request[d].identity]
                                = answer[d].cert.validity
                      /\ answer[c].status = "handshakeok" /\ d \notin Granted =>
                           \/ answer[c].workloads[request[d].identity] = None
                           \/ ~Signable(request[d])
    BY DEF OffersAreGrants
  <2> DEFINE entry == config.vms[request[d].vm_name]
             i     == request[d].identity
  <2>1. /\ answer[c] = HandshakeAnswer(request[c], cid[c])
        /\ answer[d] = CertAnswer(request[d], cid[d])
    BY HostAssumption
    DEF IInv, AnsweredByConfig, Answered, Answer, Handshake, CertRequest
  <2>2. request[d].vm_name \in Vm /\ i \in Identity
    BY DEF CertRequest
  <2>3. ErrorResponse.status = "error"
    BY DEF ErrorResponse
  <2>4. ASSUME d \in Granted
        PROVE  /\ answer[c].status = "handshakeok"
               /\ answer[c].workloads[i] = answer[d].cert.validity
    <3>1. answer[d].status = "certok"
      BY <2>4 DEF Granted
    <3>2. /\ Resolves(request[d].vm_name, i)
          /\ entry.vm_cid = cid[d]
          /\ answer[d] = CertOk(SignCsr(request[d]))
      BY <2>1, <2>3, <3>1 DEF CertAnswer
    <3>3. \A j \in Registered(entry) : entry.identities[j].selector_ok
      BY <2>2, <3>2 DEF IInv, Loaded, Loads, Resolves, Answered
    <3>4. answer[c] = HandshakeOk(Offered(entry))
      BY <2>1, <3>2, <3>3 DEF HandshakeAnswer, Resolves
    <3>5. answer[c].status = "handshakeok" /\ answer[c].workloads = Offered(entry)
      BY <3>4 DEF HandshakeOk
    <3>6. answer[d].cert.validity = Seconds(entry.identities[i])
      BY <3>2 DEF CertOk, SignCsr
    <3> QED BY <2>2, <3>2, <3>5, <3>6 DEF Offered, Resolves
  <2>5. ASSUME answer[c].status = "handshakeok", d \notin Granted, Signable(request[d])
        PROVE  answer[c].workloads[i] = None
    <3>1. entry # None /\ entry.vm_cid = cid[c] /\ answer[c] = HandshakeOk(Offered(entry))
      BY <2>1, <2>3, <2>5 DEF HandshakeAnswer
    <3>2. answer[d] # CertOk(SignCsr(request[d]))
      BY <2>5 DEF Granted, CertOk
    <3>3. i \notin Registered(entry)
      BY <2>1, <2>5, <3>1, <3>2 DEF CertAnswer, Resolves
    <3>4. answer[c].workloads = Offered(entry)
      BY <3>1 DEF HandshakeOk
    <3> QED BY <2>2, <3>3, <3>4 DEF Offered
  <2> QED BY <2>4, <2>5
<1> QED BY <1>1, Invariance, PTL
=============================================================================
