---------------------------- MODULE SystemProofs ----------------------------
(***************************************************************************)
(* Proofs about the agent and the host together. What AgentProofs proves   *)
(* of an agent in any environment holds here because System takes only the *)
(* steps Agent allows; with it, what the agent hands out is shown to have  *)
(* been granted by a configuration the host ran.                           *)
(***************************************************************************)
EXTENDS System, TLAPS

AP == INSTANCE AgentProofs

(***************************************************************************)
(* The connection joins the two sides: while the agent waits for an answer, *)
(* the host's end holds the frame the agent wrote, from this guest's CID.  *)
(***************************************************************************)
Joined ==
  /\ Stream \in DOMAIN cid /\ Stream \in DOMAIN frame
  /\ Stream \in DOMAIN answer /\ Stream \in DOMAIN served
  /\ link = "sent" =>
       /\ request.type \in {"handshake", "cert_request"}
       /\ frame[Stream] = Frame(request)
       /\ cid[Stream] = OwnCid

\* What a step of the agent alone may do to the connection and its credentials.
HangsUpOrKeeps == link' = "none" \/ UNCHANGED <<link, request, response>>

CredsFrom ==
  \A c \in Conn :
    \/ cred'[c] \in {cred[c], None}
    \/ \E i \in Identity : cred'[c] = cache[i]
    \/ link = "answered" /\ response.status = "certok" /\ cred'[c].cn = response.cn

CacheFrom ==
  \A i \in Identity :
    \/ cache'[i] \in {cache[i], None}
    \/ \E c \in Conn : cache'[i] = cred[c]

\* The parts of a step of the agent alone.
LEMMA AgentAloneCases ==
  ASSUME AgentAlone
  PROVE  \/ A!BootBindBusy \/ A!HandshakeAccepted \/ A!HandshakeFailed
         \/ A!SecureBusy \/ A!SecurePort \/ A!SecureGivesUp
         \/ A!BootDialRetry \/ A!BootDialGivesUp
         \/ A!StartApi \/ A!MainLoopSleeps
         \/ A!LingerEnds \/ A!OtherBinds \/ A!OtherReleases \/ A!Ages
         \/ A!Crash \/ A!Restart
         \/ \E c \in Conn :
              \/ A!Accept(c) \/ A!Attest(c) \/ A!Read(c)
              \/ A!CacheHit(c) \/ A!CacheMiss(c) \/ A!TakeDial(c) \/ A!DialBusy(c)
              \/ A!DialFails(c) \/ A!ExchangeFails(c) \/ A!Receive(c)
              \/ A!RebindBusy(c) \/ A!RebindGivesUp(c) \/ A!RebindIssued(c)
              \/ A!RebindRejected(c) \/ A!Reply(c)
BY DEF AgentAlone, Boot, Fetch

\* No step of the agent alone writes a request.
LEMMA AgentAloneKeeps ==
  ASSUME AgentAlone
  PROVE  HangsUpOrKeeps
<1> USE DEF HangsUpOrKeeps, A!wire
<1>1. CASE \/ A!BootBindBusy \/ A!SecureBusy \/ A!SecurePort \/ A!BootDialRetry
           \/ A!StartApi \/ A!MainLoopSleeps
           \/ A!LingerEnds \/ A!OtherBinds \/ A!OtherReleases \/ A!Ages \/ A!Restart
  BY <1>1 DEF A!BootBindBusy, A!SecureBusy, A!SecurePort, A!BootDialRetry, A!StartApi,
     A!MainLoopSleeps, A!LingerEnds, A!OtherBinds, A!OtherReleases, A!Ages, A!Restart, A!vars
<1>2. CASE \/ A!HandshakeAccepted \/ A!HandshakeFailed \/ A!SecureGivesUp
           \/ A!BootDialGivesUp \/ A!Crash
  BY <1>2 DEF A!HandshakeAccepted, A!CloseLink, A!HandshakeFailed, A!SecureGivesUp,
     A!BootDialGivesUp, A!Crash, A!ProcessEnds
<1>3. ASSUME NEW c \in Conn,
             \/ A!Accept(c) \/ A!Attest(c) \/ A!Read(c) \/ A!CacheHit(c) \/ A!CacheMiss(c)
             \/ A!TakeDial(c) \/ A!DialBusy(c) \/ A!DialFails(c) \/ A!RebindBusy(c)
             \/ A!RebindGivesUp(c) \/ A!RebindIssued(c) \/ A!RebindRejected(c) \/ A!Reply(c)
      PROVE  HangsUpOrKeeps
  BY <1>3 DEF A!Accept, A!Attest, A!Match, A!MatchNone, A!Read, A!ReadFetch, A!ReadOther,
     A!CacheHit, A!CacheMiss, A!TakeDial, A!DialBusy, A!DialFails, A!RebindBusy,
     A!RebindGivesUp, A!RebindIssued, A!RebindRejected, A!Reply
<1>4. ASSUME NEW c \in Conn, A!ExchangeFails(c) \/ A!Receive(c) PROVE HangsUpOrKeeps
  BY <1>4 DEF A!ExchangeFails, A!Receive, A!CloseLink
<1> QED BY <1>1, <1>2, <1>3, <1>4, AgentAloneCases

\* The agent gets a credential only from its cache or from a certificate that was
\* sent to it, and caches only what one of its tasks got.
LEMMA AgentAloneCreds ==
  ASSUME AP!TypeOK, AgentAlone
  PROVE  CredsFrom /\ CacheFrom
<1> DEFINE Quiet == UNCHANGED <<cache, cred>>
<1> USE DEF CredsFrom, CacheFrom
<1>0. /\ cred \in [Conn -> AP!Cred \cup {None}]
      /\ cache \in [Identity -> AP!Cred \cup {None}]
      /\ fresh \subseteq Identity
  BY DEF AP!TypeOK
<1>1. ASSUME Quiet PROVE CredsFrom /\ CacheFrom
  BY <1>1
<1>2. CASE \/ A!BootBindBusy \/ A!SecureBusy \/ A!SecurePort \/ A!BootDialRetry
           \/ A!StartApi \/ A!MainLoopSleeps \/ A!HandshakeAccepted
           \/ A!LingerEnds \/ A!OtherBinds \/ A!OtherReleases \/ A!Ages \/ A!Restart
  <2>1. Quiet
    BY <1>2 DEF A!BootBindBusy, A!SecureBusy, A!SecurePort, A!BootDialRetry, A!StartApi,
       A!MainLoopSleeps, A!HandshakeAccepted, A!LingerEnds, A!OtherBinds, A!OtherReleases,
       A!Ages, A!Restart, A!vars, A!tasks
  <2> QED BY <1>1, <2>1
<1>3. CASE A!HandshakeFailed \/ A!SecureGivesUp \/ A!BootDialGivesUp \/ A!Crash
  <2>1. A!ProcessEnds
    BY <1>3 DEF A!HandshakeFailed, A!SecureGivesUp, A!BootDialGivesUp, A!Crash
  <2>2. cache' = [i \in Identity |-> None] /\ cred' = [c \in Conn |-> None]
    BY <2>1 DEF A!ProcessEnds
  <2> QED BY <2>2
<1>4. ASSUME NEW c \in Conn,
             \/ A!Attest(c) \/ A!Read(c) \/ A!CacheMiss(c) \/ A!TakeDial(c)
             \/ A!DialBusy(c) \/ A!DialFails(c) \/ A!ExchangeFails(c)
             \/ A!RebindBusy(c) \/ A!RebindRejected(c) \/ A!Reply(c)
      PROVE  CredsFrom /\ CacheFrom
  <2>1. Quiet
    BY <1>4 DEF A!Attest, A!Match, A!MatchNone, A!Read, A!ReadFetch, A!ReadOther,
       A!CacheMiss, A!TakeDial, A!DialBusy, A!DialFails, A!ExchangeFails, A!RebindBusy,
       A!RebindRejected, A!Reply, A!tasks
  <2> QED BY <1>1, <2>1
<1>5. ASSUME NEW c \in Conn, A!Accept(c) \/ A!RebindGivesUp(c)
      PROVE  CredsFrom /\ CacheFrom
  <2>1. UNCHANGED cache /\ cred' = [cred EXCEPT ![c] = None]
    BY <1>5 DEF A!Accept, A!RebindGivesUp
  <2> QED BY <1>0, <2>1
<1>6. ASSUME NEW c \in Conn, A!CacheHit(c) PROVE CredsFrom /\ CacheFrom
  <2>1. UNCHANGED cache /\ who[c] \in fresh /\ cred' = [cred EXCEPT ![c] = cache[who[c]]]
    BY <1>6 DEF A!CacheHit, A!Usable
  <2> QED BY <1>0, <2>1
<1>7. ASSUME NEW c \in Conn, A!Receive(c) PROVE CredsFrom /\ CacheFrom
  <2>1. /\ UNCHANGED cache /\ link = "answered"
        /\ cred' = [cred EXCEPT ![c] =
                      IF response.status = "certok" THEN A!Issued(c) ELSE None]
    BY <1>7 DEF A!Receive
  <2>2. A!Issued(c).cn = response.cn
    BY DEF A!Issued
  <2> QED BY <1>0, <2>1, <2>2
<1>8. ASSUME NEW c \in Conn, A!RebindIssued(c) PROVE CredsFrom /\ CacheFrom
  <2>1. UNCHANGED cred /\ cache' = [cache EXCEPT ![who[c]] = cred[c]]
    BY <1>8 DEF A!RebindIssued
  <2> QED BY <1>0, <2>1
<1> QED BY <1>2, <1>3, <1>4, <1>5, <1>6, <1>7, <1>8, AgentAloneCases

-----------------------------------------------------------------------------
(***************************************************************************)
(* The host is an environment of Agent.                                    *)
(***************************************************************************)

\* The frame a server finds in the stream after a dial is the agent's request.
LEMMA DialJoins ==
  ASSUME Joined, Dial
  PROVE  Joined'
<1>1. /\ request'.type \in {"handshake", "cert_request"}
  BY DEF Dial, A!BootDialOk, A!DialOk, A!OpenLink
<1>2. /\ cid' = [cid EXCEPT ![Stream] = OwnCid]
      /\ frame' = [frame EXCEPT ![Stream] = Frame(request')]
      /\ answer' = [answer EXCEPT ![Stream] = None]
      /\ served' = [served EXCEPT ![Stream] = 0]
  BY DEF Dial
<1>3. frame'[Stream] = Frame(request') /\ Frame(request') = Frame(request)'
  BY <1>2 DEF Joined, Frame
<1> QED BY <1>1, <1>2, <1>3 DEF Joined

\* Every other step keeps the frame, or the agent no longer waits for its answer.
LEMMA JoinedStep == Joined /\ [Next]_vars => Joined'
<1> SUFFICES ASSUME Joined, [Next]_vars PROVE Joined'
  OBVIOUS
<1>1. CASE Dial
  BY <1>1, DialJoins
<1>2. CASE Answer
  <2>1. /\ link' = "answered" /\ UNCHANGED <<cid, frame>>
        /\ \E a : answer' = [answer EXCEPT ![Stream] = a]
        /\ \E n : served' = [served EXCEPT ![Stream] = n]
    BY <1>2 DEF Answer, H!Handle
  <2> QED BY <2>1 DEF Joined
<1>3. ASSUME UNCHANGED <<cid, frame, answer, served, request>>, link' = link \/ link' # "sent"
      PROVE  Joined'
  BY <1>3 DEF Joined, Frame
<1>4. CASE Drop \/ Stop
  <2>1. UNCHANGED <<cid, frame, answer, served, request>> /\ (link' = link \/ link' # "sent")
    BY <1>4 DEF Drop, Stop, SeesHangup, H!Drop, H!Stop
  <2> QED BY <1>3, <2>1
<1>5. CASE HostAlone
  <2>1. UNCHANGED <<cid, frame, answer, served, request>> /\ link' = link
    BY <1>5 DEF HostAlone, Start, HandleGone, EditFile, guest, H!Start, H!Accept,
       H!HandleGone, H!EditFile, H!conns
  <2> QED BY <1>3, <2>1
<1>6. CASE AgentAlone
  <2>1. HangsUpOrKeeps /\ UNCHANGED <<cid, frame, answer, served>>
    BY <1>6, AgentAloneKeeps DEF AgentAlone, host
  <2> QED BY <2>1 DEF HangsUpOrKeeps, Joined, Frame
<1>7. CASE UNCHANGED vars
  BY <1>3, <1>7 DEF vars, guest, host
<1> QED BY <1>1, <1>2, <1>4, <1>5, <1>6, <1>7 DEF Next

\* The server's answer to the agent's frame is one Agent allows: a table for a
\* handshake, a certificate for the requested identity and key, or an error.
LEMMA AnswerRefines ==
  ASSUME Joined, Answer
  PROVE  A!HostAnswers
<1> DEFINE r == Frame(request)
           a == H!Answer(r, OwnCid)
<1>1. link = "sent" /\ link' = "answered" /\ UNCHANGED <<inside, request>>
  BY DEF Answer
<1>2. request.type \in {"handshake", "cert_request"} /\ answer'[Stream] = a
  BY <1>1 DEF Answer, Joined, H!Handle
<1>3. response' = Received(a)
  <2>1. response' = Received(answer'[Stream])
    BY DEF Answer
  <2> HIDE DEF a
  <2> QED BY <1>2, <2>1
<1>4. Received(H!ErrorResponse) = A!ErrorResponse
  BY DEF Received, H!ErrorResponse
<1>5. CASE request.type = "handshake"
  <2>1. r.type = "handshake"
    BY <1>5 DEF Frame
  <2>2. a = H!ErrorResponse \/ \E w : a = H!HandshakeOk(w)
    BY <2>1 DEF H!Answer, H!HandshakeAnswer
  <2>3. ASSUME NEW w PROVE \E W \in SUBSET Identity : Received(H!HandshakeOk(w)) = A!HandshakeOk(W)
    BY DEF Received, H!HandshakeOk
  <2> HIDE DEF a, r
  <2>4. response' \in {A!ErrorResponse} \cup {A!HandshakeOk(W) : W \in SUBSET Identity}
    BY <1>3, <1>4, <2>2, <2>3
  <2> QED BY <1>1, <1>5, <2>4 DEF A!HostAnswers, inside, A!boot, A!guards, A!tasks
<1>6. CASE request.type = "cert_request"
  <2>1. r.type # "handshake" /\ r.csr.cn = request.identity
    BY <1>6 DEF Frame
  <2>2. a = H!ErrorResponse \/ a = H!CertOk(H!SignCsr(r))
    BY <2>1 DEF H!Answer, H!CertAnswer
  <2>3. Received(H!CertOk(H!SignCsr(r))) = A!CertOk(request.identity, request.pub)
    <3>1. H!SignCsr(r).cn = request.identity
      BY <2>1 DEF H!SignCsr
    <3>2. \A x : Received(H!CertOk(x)) = A!CertOk(x.cn, request.pub)
      BY DEF Received, H!CertOk
    <3> QED BY <3>1, <3>2
  <2> HIDE DEF a, r
  <2>4. response' \in {A!ErrorResponse} \cup {A!CertOk(request.identity, request.pub)}
    BY <1>3, <1>4, <2>2, <2>3
  <2> QED BY <1>1, <1>6, <2>4 DEF A!HostAnswers, inside, A!boot, A!guards, A!tasks
<1> QED BY <1>2, <1>5, <1>6

\* Every step is one of Agent or leaves the agent alone.
LEMMA NextRefines == Joined /\ [Next]_vars => [A!Next]_(A!vars)
<1> SUFFICES ASSUME Joined, [Next]_vars PROVE A!Next \/ UNCHANGED A!vars
  OBVIOUS
<1>0. ASSUME UNCHANGED guest PROVE UNCHANGED A!vars
  BY <1>0 DEF guest, inside, A!vars, A!boot, A!guards, A!tasks, A!wire
<1>1. CASE Dial
  BY <1>1 DEF Dial, A!Next, A!Boot, A!Task, A!Fetch
<1>2. CASE Answer
  BY <1>2, AnswerRefines DEF A!Next, A!Environment, A!Host
<1>3. CASE Drop \/ Stop
  <2>1. CASE link = "sent"
    <3>1. A!LinkBreaks
      BY <1>3, <2>1 DEF Drop, Stop, SeesHangup, A!LinkBreaks, inside, A!boot, A!guards, A!tasks
    <3> QED BY <3>1 DEF A!Next, A!Environment, A!Host
  <2>2. CASE link # "sent"
    <3>1. UNCHANGED guest
      BY <1>3, <2>2 DEF Drop, Stop, SeesHangup, guest
    <3> QED BY <1>0, <3>1
  <2> QED BY <2>1, <2>2
<1>4. CASE HostAlone
  BY <1>0, <1>4 DEF HostAlone
<1>5. CASE AgentAlone
  BY <1>5, AgentAloneCases DEF A!Next, A!Boot, A!Task, A!Fetch, A!Environment
<1>6. CASE UNCHANGED vars
  BY <1>0, <1>6 DEF vars
<1> QED BY <1>1, <1>2, <1>3, <1>4, <1>5, <1>6 DEF Next

\* Agent's steps are those AgentProofs speaks of.
LEMMA SameNext == A!Next => AP!Next
BY DEF A!guards, AP!guards, A!tasks, AP!tasks, A!wire, AP!wire, A!boot, AP!boot,
   A!vars, AP!vars, A!HandshakeOk, AP!HandshakeOk, A!CertOk, AP!CertOk,
   A!ErrorResponse, AP!ErrorResponse, A!OpenLink, AP!OpenLink, A!CloseLink,
   AP!CloseLink, A!Retry, AP!Retry, A!ProcessEnds, AP!ProcessEnds, A!BootBindBusy,
   AP!BootBindBusy, A!BootDialOk, AP!BootDialOk, A!BootDialFailed,
   AP!BootDialFailed, A!BootDialRetry, AP!BootDialRetry, A!BootDialGivesUp,
   AP!BootDialGivesUp, A!HandshakeAccepted, AP!HandshakeAccepted, A!HandshakeFailed,
   AP!HandshakeFailed, A!SecureBusy, AP!SecureBusy, A!SecurePort, AP!SecurePort,
   A!SecureGivesUp, AP!SecureGivesUp, A!StartApi, AP!StartApi, A!MainLoopSleeps,
   AP!MainLoopSleeps, A!Dropped, AP!Dropped, A!Finish, AP!Finish, A!Accept,
   AP!Accept, A!Match, AP!Match, A!MatchNone, AP!MatchNone, A!ReadFetch,
   AP!ReadFetch, A!ReadOther, AP!ReadOther, A!Usable, AP!Usable, A!CacheHit,
   AP!CacheHit, A!CacheMiss, AP!CacheMiss, A!TakeDial, AP!TakeDial, A!DialBusy,
   AP!DialBusy, A!DialOk, AP!DialOk, A!DialFails, AP!DialFails, A!ExchangeFails,
   AP!ExchangeFails, A!Issued, AP!Issued, A!Receive, AP!Receive, A!RebindBusy,
   AP!RebindBusy, A!RebindGivesUp, AP!RebindGivesUp, A!RebindIssued,
   AP!RebindIssued, A!RebindRejected, AP!RebindRejected, A!Reply, AP!Reply,
   A!HostAnswers, AP!HostAnswers, A!LinkBreaks, AP!LinkBreaks, A!LingerEnds,
   AP!LingerEnds, A!OtherBinds, AP!OtherBinds, A!OtherReleases, AP!OtherReleases,
   A!Ages, AP!Ages, A!Crash, AP!Crash, A!Restart, AP!Restart, A!Boot, AP!Boot,
   A!Attest, AP!Attest, A!Read, AP!Read, A!Fetch, AP!Fetch, A!Task, AP!Task, A!Host,
   AP!Host, A!Environment, AP!Environment, A!Next, AP!Next

\* The states, too.
LEMMA SameVars == (UNCHANGED A!vars => UNCHANGED AP!vars) /\ (A!Init => AP!Init)
BY DEF A!vars, AP!vars, A!boot, AP!boot, A!guards, AP!guards, A!tasks, AP!tasks, A!wire,
   AP!wire, A!Init, AP!Init

\* Whatever the host does, with its stops, starts and new configurations, the agent
\* sees what Agent allows its environment: the safety part of ImplementsAgent.
THEOREM HostIsAgentEnvironment == Spec => A!Spec
<1>1. Init => A!Init /\ Joined
  <2> SUFFICES ASSUME Init PROVE A!Init /\ Joined
    OBVIOUS
  <2>1. A!Init /\ H!Init
    BY DEF Init
  <2>2. link = "none"
    BY <2>1 DEF A!Init
  <2>3. /\ Stream \in DOMAIN cid /\ Stream \in DOMAIN frame
        /\ Stream \in DOMAIN answer /\ Stream \in DOMAIN served
    BY <2>1 DEF H!Init
  <2> QED BY <2>1, <2>2, <2>3 DEF Joined
<1> QED BY <1>1, JoinedStep, NextRefines, PTL DEF Spec, A!Spec

\* The same for Agent as AgentProofs names it.
LEMMA AgentSpec == Spec => AP!Spec
<1>1. A!Init => AP!Init
  BY SameVars
<1>2. [A!Next]_(A!vars) => [AP!Next]_(AP!vars)
  BY SameNext, SameVars
<1> QED BY <1>1, <1>2, HostIsAgentEnvironment, PTL DEF A!Spec, AP!Spec

\* With it, what AgentProofs proves of every agent.
LEMMA AgentInvariant == Spec => []AP!IInv
<1>1. None \notin AP!Cred
  BY SystemAssumption DEF A!Cred, AP!Cred
<1>2. AP!Spec => []AP!IInv
  BY <1>1, SystemAssumption, AP!IInvAlways
<1> QED BY <1>2, AgentSpec, PTL

\* What is proved of the agent in any environment holds with this host: its mutexes,
\* its port, its single flight and the credentials it keeps stay in order.
THEOREM AgentStaysSafe ==
  Spec => [](/\ A!GuardsNest /\ A!PortAccounted /\ A!SingleFlight
             /\ A!AttestedCredentials /\ A!TasksMatchWire)
<1>1. AP!IInv => /\ A!GuardsNest /\ A!PortAccounted /\ A!SingleFlight
                 /\ A!AttestedCredentials
  BY DEF AP!IInv, AP!GuardsNest, A!GuardsNest, AP!PortAccounted, A!PortAccounted,
     AP!SingleFlight, A!SingleFlight, AP!AttestedCredentials, A!AttestedCredentials,
     AP!HoldsWorkloads, A!HoldsWorkloads, AP!HoldsCache, A!HoldsCache, AP!Dialing, A!Dialing
<1>2. AP!IInv => A!TasksMatchWire
  BY DEF AP!IInv, AP!TasksMatchWire, A!TasksMatchWire, AP!HoldsCache, A!HoldsCache,
     AP!Dialing, A!Dialing, AP!Request, A!Request, AP!Handshake, A!Handshake,
     AP!CertRequest, A!CertRequest, AP!Response, A!Response, AP!HandshakeOk, A!HandshakeOk,
     AP!CertOk, A!CertOk, AP!ErrorResponse, A!ErrorResponse
<1> QED BY <1>1, <1>2, AgentInvariant, PTL

\* The clients of the agent see CredentialService, with this host behind it.
THEOREM SystemImplementsService == Spec => AP!ImplementsService
<1>1. None \notin AP!Cred
  BY SystemAssumption DEF A!Cred, AP!Cred
<1>2. AP!Spec => AP!ImplementsService
  BY <1>1, SystemAssumption, AP!AgentImplementsService
<1> QED BY <1>2, AgentSpec, PTL

-----------------------------------------------------------------------------
(***************************************************************************)
(* What the agent has was granted. A certificate's subject is followed from *)
(* the configuration that allowed it, over the connection and the task that *)
(* received it, to the cache.                                              *)
(***************************************************************************)
Counted ==
  /\ starts \in Nat
  /\ served[Stream] \in Nat /\ served[Stream] <= starts

GrantsKept == config # None => \A i \in Identity : Grants(config, i) => i \in granted

CertGranted == link = "answered" /\ response.status = "certok" => response.cn \in granted

\* Under the configuration it was signed for, while that server runs.
CertCurrent ==
  /\ link = "answered" /\ response.status = "certok"
  /\ config # None /\ served[Stream] = starts
  => Grants(config, request.identity)

CredsGranted ==
  /\ \A c \in Conn : cred[c] # None => cred[c].cn \in granted
  /\ \A i \in Identity : cache[i] # None => cache[i].cn \in granted

\* A stopped server has no connection.
Running == stage[Stream] \in {"backlog", "open"} => config # None

Signed == Counted /\ Running /\ GrantsKept /\ CertGranted /\ CertCurrent /\ CredsGranted

\* A certificate is sent only for a workload the configuration grants this guest.
LEMMA CertIsGranted ==
  ASSUME Joined, Answer, response'.status = "certok"
  PROVE  /\ response'.cn = request.identity /\ request.identity \in Identity
         /\ Grants(config, request.identity)
<1> DEFINE r == Frame(request)
           a == H!Answer(r, OwnCid)
<1>1. /\ request.type \in {"handshake", "cert_request"} /\ answer'[Stream] = a
  BY DEF Answer, Joined, H!Handle
<1>2. response' = Received(a)
  <2>1. response' = Received(answer'[Stream])
    BY DEF Answer
  <2> HIDE DEF a
  <2> QED BY <1>1, <2>1
<1>3. Received(H!ErrorResponse).status # "certok"
  BY DEF Received, H!ErrorResponse, A!ErrorResponse
<1>4. \A w : Received(H!HandshakeOk(w)).status # "certok"
  BY DEF Received, H!HandshakeOk, A!HandshakeOk
<1>5. CASE request.type = "handshake"
  <2>1. r.type = "handshake"
    BY <1>5 DEF Frame
  <2>2. a = H!ErrorResponse \/ \E w : a = H!HandshakeOk(w)
    BY <2>1 DEF H!Answer, H!HandshakeAnswer
  <2> HIDE DEF a, r
  <2> QED BY <1>2, <1>3, <1>4, <2>2
<1>6. CASE request.type = "cert_request"
  <2>1. /\ r.type # "handshake" /\ r.csr.cn = request.identity
        /\ r.vm_name = VmName /\ r.identity = request.identity
    BY <1>6 DEF Frame
  <2>2. \/ a = H!ErrorResponse
        \/ /\ a = H!CertOk(H!SignCsr(r))
           /\ H!Resolves(VmName, request.identity)
           /\ config.vms[VmName].vm_cid = OwnCid
    <3> HIDE DEF r
    <3> QED BY <2>1 DEF H!Answer, H!CertAnswer
  <2>3. a # H!ErrorResponse
    <3> HIDE DEF a, r
    <3> QED BY <1>2, <1>3
  <2>4. H!SignCsr(r).cn = request.identity
    BY <2>1 DEF H!SignCsr
  <2>5. \A x : Received(H!CertOk(x)).cn = x.cn
    BY DEF Received, H!CertOk, A!CertOk
  <2> HIDE DEF a, r
  <2>6. response'.cn = request.identity
    BY <1>2, <2>2, <2>3, <2>4, <2>5
  <2>7. Grants(config, request.identity) /\ request.identity \in Identity
    BY <2>2, <2>3 DEF H!Resolves, H!Registered, Grants
  <2> QED BY <2>6, <2>7
<1> QED BY <1>1, <1>5, <1>6

\* Steps that leave the credentials alone keep them granted.
LEMMA CredsKept ==
  ASSUME CredsGranted, UNCHANGED <<cache, cred>>, granted \subseteq granted'
  PROVE  CredsGranted'
BY DEF CredsGranted

\* The server's answer is for a workload it grants.
LEMMA AnswerSigned ==
  ASSUME Joined, Signed, Answer
  PROVE  Signed'
<1> USE DEF Signed
<1>1. /\ UNCHANGED <<config, starts, granted, request, cache, cred>>
      /\ served' = [served EXCEPT ![Stream] = starts]
  BY DEF Answer, H!Handle, H!server, inside
<1>2. served'[Stream] = starts
  BY <1>1 DEF Joined
<1>3. Counted'
  BY <1>1, <1>2 DEF Counted
<1>4. GrantsKept'
  BY <1>1 DEF GrantsKept, Grants, H!Registered
<1>5. CredsGranted'
  BY <1>1, CredsKept
<1>6. ASSUME response'.status = "certok"
      PROVE  response'.cn \in granted /\ Grants(config, request.identity)
  <2>1. config # None
    BY DEF Running, Answer, H!Handle
  <2> QED BY <1>6, <2>1, CertIsGranted DEF GrantsKept
<1>7. CertGranted'
  BY <1>1, <1>6 DEF CertGranted
<1>8. CertCurrent'
  BY <1>1, <1>6 DEF CertCurrent, Grants, H!Registered
<1>9. Running'
  BY <1>1 DEF Running, Answer, H!Handle
<1> QED BY <1>3, <1>4, <1>5, <1>7, <1>8, <1>9

\* A dial begins with no answer; what was granted stays granted.
LEMMA DialSigned ==
  ASSUME Joined, Signed, Dial
  PROVE  Signed'
<1> USE DEF Signed
<1>1. /\ UNCHANGED <<config, starts, granted, cache, cred>> /\ link' = "sent"
      /\ config # None /\ served' = [served EXCEPT ![Stream] = 0]
  BY DEF Dial, Reachable, server, A!BootDialOk, A!DialOk, A!OpenLink, A!tasks
<1>2. Counted'
  <2>1. served'[Stream] = 0
    BY <1>1 DEF Joined
  <2> QED BY <1>1, <2>1 DEF Counted
<1>3. GrantsKept' /\ Running'
  BY <1>1 DEF GrantsKept, Grants, H!Registered, Running
<1>4. CertGranted' /\ CertCurrent'
  BY <1>1 DEF CertGranted, CertCurrent
<1>5. CredsGranted'
  BY <1>1, CredsKept
<1> QED BY <1>2, <1>3, <1>4, <1>5

\* Stops and starts: a start counts, so that no earlier answer is the new server's,
\* and adds what its configuration grants.
LEMMA HostSigned ==
  ASSUME Signed, Drop \/ Stop \/ HostAlone
  PROVE  Signed'
<1> USE DEF Signed
<1>1. /\ UNCHANGED <<request, response, cache, cred, served>>
      /\ link' = link \/ link' = "broken"
  BY DEF Drop, Stop, SeesHangup, HostAlone, Start, HandleGone, EditFile, guest, inside,
     H!Drop, H!Stop, H!Start, H!Accept, H!HandleGone, H!EditFile, H!conns
<1>2. CASE Start
  <2>1. /\ config' = file /\ starts' = starts + 1
        /\ granted' = granted \cup {i \in Identity : Grants(file, i)}
    BY <1>2 DEF Start, H!Start
  <2>2. Counted' /\ served[Stream] # starts'
    BY <1>1, <2>1 DEF Counted
  <2>3. GrantsKept'
    BY <2>1 DEF GrantsKept, Grants, H!Registered
  <2>4. CertGranted' /\ CertCurrent'
    BY <1>1, <2>1, <2>2 DEF CertGranted, CertCurrent
  <2>5. Running'
    <3>1. config = None /\ UNCHANGED stage
      BY <1>2 DEF Start, H!Start, H!conns
    <3> QED BY <3>1 DEF Running
  <2>6. CredsGranted'
    BY <1>1, <2>1, CredsKept
  <2> QED BY <2>2, <2>3, <2>4, <2>5, <2>6
<1>3. CASE ~Start
  <2>1. UNCHANGED <<starts, granted>> /\ (config' = config \/ config' = None)
    BY <1>3 DEF Drop, Stop, SeesHangup, HostAlone, HandleGone, EditFile,
       H!Drop, H!Stop, H!Accept, H!HandleGone, H!EditFile, H!server
  <2>2. Running'
    <3>1. CASE Stop
      <4>1. stage'[Stream] \notin {"backlog", "open"}
        BY <3>1 DEF Stop, H!Stop
      <4> QED BY <4>1 DEF Running
    <3>2. CASE ~Stop
      <4>1. UNCHANGED config /\ (config # None \/ UNCHANGED stage)
        BY <1>3, <3>2 DEF Running, Drop, HostAlone, HandleGone, EditFile, H!Drop, H!Accept,
           H!HandleGone, H!EditFile, H!server, H!conns
      <4> QED BY <4>1 DEF Running
    <3> QED BY <3>1, <3>2
  <2>3. Counted' /\ GrantsKept' /\ CertGranted' /\ CertCurrent'
    BY <1>1, <2>1 DEF Counted, GrantsKept, CertGranted, CertCurrent, Grants, H!Registered
  <2>4. CredsGranted'
    BY <1>1, <2>1, CredsKept
  <2> QED BY <2>2, <2>3, <2>4
<1> QED BY <1>2, <1>3

\* The agent's tasks move credentials about, and add none that was not sent.
LEMMA AgentSigned ==
  ASSUME AP!TypeOK, Signed, AgentAlone
  PROVE  Signed'
<1> USE DEF Signed
<1>1. UNCHANGED <<config, starts, granted, served, stage>>
  BY DEF AgentAlone, host, server
<1>2. HangsUpOrKeeps /\ CredsFrom /\ CacheFrom
  BY AgentAloneKeeps, AgentAloneCreds
<1>3. Counted' /\ GrantsKept' /\ Running'
  BY <1>1 DEF Counted, GrantsKept, Grants, H!Registered, Running
<1>4. CertGranted' /\ CertCurrent'
  BY <1>1, <1>2 DEF HangsUpOrKeeps, CertGranted, CertCurrent, Grants, H!Registered
<1>5. CredsGranted'
  BY <1>1, <1>2 DEF CredsFrom, CacheFrom, CredsGranted, CertGranted
<1> QED BY <1>3, <1>4, <1>5

\* What an agent hands out was signed under a configuration that registers the
\* workload for its CID, for any number of clients, kills, restarts, stops and
\* edits of the configuration, and whatever configurations there are.
THEOREM IssuedAsRegistered == Spec => []SignedAsRegistered
<1>1. Init => Joined /\ Signed
  <2> SUFFICES ASSUME Init PROVE Joined /\ Signed
    OBVIOUS
  <2>1. /\ link = "none" /\ cache = [i \in Identity |-> None] /\ cred = [c \in Conn |-> None]
    BY DEF Init, A!Init
  <2>2. /\ config = None /\ starts = 0
        /\ served = [c \in {Stream} |-> 0] /\ stage = [c \in {Stream} |-> "free"]
        /\ Stream \in DOMAIN cid /\ Stream \in DOMAIN frame
        /\ Stream \in DOMAIN answer /\ Stream \in DOMAIN served
    BY DEF Init, H!Init
  <2> QED BY <2>1, <2>2 DEF Joined, Signed, Counted, Running, GrantsKept, CertGranted,
       CertCurrent, CredsGranted
<1>2. AP!TypeOK /\ Joined /\ Signed /\ [Next]_vars => Signed'
  <2> SUFFICES ASSUME AP!TypeOK, Joined, Signed, [Next]_vars PROVE Signed'
    OBVIOUS
  <2>1. CASE UNCHANGED vars
    BY <2>1 DEF vars, guest, inside, host, server, Signed, Counted, Running, GrantsKept,
       CertGranted, CertCurrent, CredsGranted, Grants, H!Registered
  <2> QED BY <2>1, DialSigned, AnswerSigned, HostSigned, AgentSigned DEF Next
<1>3. AP!IInv => AP!TypeOK /\ AP!AttestedCredentials
  BY DEF AP!IInv
<1>4. AP!AttestedCredentials /\ Signed => SignedAsRegistered
  BY DEF AP!AttestedCredentials, Signed, CertCurrent, CredsGranted, SignedAsRegistered
<1> QED BY <1>1, <1>2, <1>3, <1>4, JoinedStep, AgentInvariant, PTL DEF Spec
=============================================================================
