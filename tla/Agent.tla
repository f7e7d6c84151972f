------------------------------- MODULE Agent -------------------------------
(***************************************************************************)
(* The guest agent: boot (handshake with the host CA, then binding the     *)
(* persistent listener), the Workload API with one task per connection,    *)
(* the three mutexes those tasks nest, the credential cache, and the dial  *)
(* to the host, which gives up the client port and takes it back.          *)
(*                                                                         *)
(* Every await of the code is a point where another task, the host, the    *)
(* kernel or another process of the guest may run, so every piece of code  *)
(* between two awaits is one action.                                       *)
(***************************************************************************)
EXTENDS Naturals

CONSTANTS
  Conn,               \* slots for concurrent Workload API connections
  Identity,           \* workload names the host may configure for this VM
  KeyPair,            \* key pairs generate_csr may produce
  None,               \* no holder, no identity, no key, no credential
  BindRetries,        \* 10 in the code: retries of each bind loop
  HandshakeRetries,   \* 15 in the code: retries of the boot-time dial
  MaxCrashes          \* bound on how often the process is killed

ASSUME NoneAssumption ==
  /\ None \notin Conn
  /\ None \notin Identity
  /\ None \notin KeyPair
ASSUME BoundsAssumption ==
  /\ BindRetries \in Nat
  /\ HandshakeRetries \in Nat
  /\ MaxCrashes \in Nat

\* A certificate's subject and public key, with the private key kept beside it.
Cred == [cn : Identity, pub : KeyPair, key : KeyPair]
ASSUME NoCredAssumption == None \notin Cred

VARIABLES
  agent,          \* phase of run_agent
  tries,          \* attempts of perform_handshake's dial loop
  attempts,       \* attempts of the bind loop that is running
  port,           \* who has the guest's client port (901)
  listener,       \* AgentState.listener is Some
  workloads,      \* AgentState.workloads: names received in the handshake
  cache,          \* AgentState.cache
  fresh,          \* cached identities whose age is below half their lifetime
  api,            \* the Unix socket server task
  workloadsLock,  \* holder of the workloads mutex
  cacheLock,      \* holder of the cache mutex
  dialLock,       \* holder of dial_mutex
  pc,             \* where each connection's task is
  who,            \* identity_name of each task
  key,            \* private key generated by each task's pending CSR
  cred,           \* credentials each task hands, or handed, to its client
  reply,          \* what the client of each slot last got
  link,           \* the agent's one vsock connection to the host
  request,        \* request written to it
  response,       \* response written to it
  crashes         \* kills so far, bounded by MaxCrashes

guards == <<workloadsLock, cacheLock, dialLock>>
tasks  == <<pc, who, key, cred, reply>>
wire   == <<link, request, response>>
boot   == <<agent, tries, workloads, api, crashes>>
vars   == <<boot, attempts, port, listener, cache, fresh, guards, tasks, wire>>

Booting == {"dialing", "greeting", "securing"}
Phase   == Booting \cup {"serving", "stopped"}

\* Tasks hold the guard of a mutex from the await that took it to the end of
\* the scope that declared it: the workloads guard lives to the end of
\* handle_workload_conn, the cache guard to the end of get_or_fetch_credentials,
\* the dial guard to the end of request_cert_on_demand.
Dialing        == {"binding", "awaiting", "rebinding"}
HoldsCache     == Dialing \cup {"queued"}
HoldsWorkloads == HoldsCache \cup {"reading", "lookup", "replying"}
Location       == HoldsWorkloads \cup {"idle", "attesting"}

Handshake           == [type : {"handshake"}]
CertRequest         == [type : {"cert_request"}, identity : Identity, pub : KeyPair]
Request             == Handshake \cup CertRequest
HandshakeOk(W)      == [status |-> "handshakeok", workloads |-> W]
CertOk(i, k)        == [status |-> "certok", cn |-> i, pub |-> k]
ErrorResponse       == [status |-> "error"]
Response ==
  {HandshakeOk(W) : W \in SUBSET Identity}
    \cup {CertOk(i, k) : i \in Identity, k \in KeyPair}
    \cup {ErrorResponse}

TypeOK ==
  /\ agent \in Phase
  /\ tries \in 0..HandshakeRetries
  /\ attempts \in 0..BindRetries
  /\ port \in {"free", "listener", "stream", "linger", "other"}
  /\ listener \in BOOLEAN
  /\ workloads \in SUBSET Identity
  /\ cache \in [Identity -> Cred \cup {None}]
  /\ fresh \in SUBSET Identity
  /\ api \in {"down", "up", "failed"}
  /\ workloadsLock \in Conn \cup {None}
  /\ cacheLock \in Conn \cup {None}
  /\ dialLock \in Conn \cup {None}
  /\ pc \in [Conn -> Location]
  /\ who \in [Conn -> Identity \cup {None}]
  /\ key \in [Conn -> KeyPair \cup {None}]
  /\ cred \in [Conn -> Cred \cup {None}]
  /\ reply \in [Conn -> {"none", "refused", "closed", "credentials"}]
  /\ link \in {"none", "sent", "answered", "broken"}
  /\ request \in Request \cup {None}
  /\ response \in Response \cup {None}
  /\ crashes \in 0..MaxCrashes

Init ==
  /\ agent = "dialing"
  /\ tries = 0
  /\ attempts = 0
  /\ port \in {"free", "other"}
  /\ listener = FALSE
  /\ workloads = {}
  /\ cache = [i \in Identity |-> None]
  /\ fresh = {}
  /\ api = "down"
  /\ workloadsLock = None
  /\ cacheLock = None
  /\ dialLock = None
  /\ pc = [c \in Conn |-> "idle"]
  /\ who = [c \in Conn |-> None]
  /\ key = [c \in Conn |-> None]
  /\ cred = [c \in Conn |-> None]
  /\ reply = [c \in Conn |-> "none"]
  /\ link = "none"
  /\ request = None
  /\ response = None
  /\ crashes = 0

-----------------------------------------------------------------------------
(* The connection to the host.                                             *)

\* connect() succeeded on the bound socket and the request was written.
OpenLinkUnsent(r) ==   \* mutant: the request is never written
  /\ port' = "stream"
  /\ link' = "sent"
  /\ UNCHANGED request
  /\ response' = None
OpenLink(r) ==
  /\ port' = "stream"
  /\ link' = "sent"
  /\ request' = r
  /\ response' = None

\* The stream is dropped. The kernel keeps the bound port for a connected
\* socket until the peer has seen the shutdown.
CloseLinkLate ==   \* mutant: the stream outlives the exchange
  /\ UNCHANGED port
  /\ link' = "none"
  /\ request' = None
  /\ response' = None
CloseLink ==
  /\ port' = "linger"
  /\ link' = "none"
  /\ request' = None
  /\ response' = None

-----------------------------------------------------------------------------
(* Boot: perform_handshake, the persistent listener, the Workload API.     *)

\* A bind loop finds the port in use and sleeps before it tries again.
RetryForever ==   \* mutant: the attempt is not counted
  /\ port # "free"
  /\ UNCHANGED attempts
RetryOnceMore ==   \* mutant: the limit is off by one
  /\ port # "free"
  /\ attempts <= BindRetries
  /\ attempts' = attempts + 1
Retry ==
  /\ port # "free"
  /\ attempts < BindRetries
  /\ attempts' = attempts + 1

\* The agent process is gone: its sockets, tasks, mutexes and cache with it.
ProcessEnds ==
  /\ agent' = "stopped"
  /\ attempts' = 0
  /\ tries' = 0
  /\ port' = CASE port = "listener" -> "free"
               [] port = "stream"   -> "linger"
               [] OTHER             -> port
  /\ listener' = FALSE
  /\ workloads' = {}
  /\ cache' = [i \in Identity |-> None]
  /\ fresh' = {}
  /\ api' = "down"
  /\ workloadsLock' = None
  /\ cacheLock' = None
  /\ dialLock' = None
  /\ pc' = [c \in Conn |-> "idle"]
  /\ who' = [c \in Conn |-> None]
  /\ key' = [c \in Conn |-> None]
  /\ cred' = [c \in Conn |-> None]
  /\ reply' = [c \in Conn |-> IF pc[c] = "idle" THEN "none" ELSE "closed"]
  /\ link' = "none"
  /\ request' = None
  /\ response' = None

BootBindBusy ==
  /\ agent = "dialing"
  /\ Retry
  /\ UNCHANGED <<boot, port, listener, cache, fresh, guards, tasks, wire>>

BootDialOk ==
  /\ agent = "dialing"
  /\ port = "free"
  /\ agent' = "greeting"
  /\ OpenLink([type |-> "handshake"])
  /\ UNCHANGED <<tries, workloads, api, crashes, attempts, listener, cache,
                 fresh, guards, tasks>>

\* The dial failed: the bind loop gave up, or the host refused the connection.
BootDialFailed ==
  /\ agent = "dialing"
  /\ port = "free" \/ attempts = BindRetries

BootDialRetry ==
  /\ BootDialFailed
  /\ tries < HandshakeRetries
  /\ tries' = tries + 1
  /\ attempts' = 0
  /\ UNCHANGED <<agent, workloads, api, crashes, port, listener, cache, fresh,
                 guards, tasks, wire>>

BootDialGivesUp ==
  /\ BootDialFailed
  /\ tries = HandshakeRetries
  /\ ProcessEnds
  /\ UNCHANGED crashes

\* The handshake response; the stream is dropped when perform_handshake returns.
HandshakeAccepted ==
  /\ agent = "greeting"
  /\ link = "answered"
  /\ response.status = "handshakeok"
  /\ agent' = "securing"
  /\ workloads' = response.workloads
  /\ attempts' = 0
  /\ CloseLink
  /\ UNCHANGED <<tries, api, crashes, listener, cache, fresh, guards, tasks>>

\* A rejection, an unexpected response or a broken stream ends the process.
HandshakeFailed ==
  /\ agent = "greeting"
  /\ \/ link = "broken"
     \/ link = "answered" /\ response.status # "handshakeok"
  /\ ProcessEnds
  /\ UNCHANGED crashes

SecureBusy ==
  /\ agent = "securing"
  /\ Retry
  /\ UNCHANGED <<boot, port, listener, cache, fresh, guards, tasks, wire>>

SecurePort ==
  /\ agent = "securing"
  /\ port = "free"
  /\ port' = "listener"
  /\ listener' = TRUE
  /\ agent' = "serving"
  /\ UNCHANGED <<tries, workloads, api, crashes, attempts, cache, fresh,
                 guards, tasks, wire>>

SecureGivesUp ==
  /\ agent = "securing"
  /\ port # "free"
  /\ attempts = BindRetries
  /\ ProcessEnds
  /\ UNCHANGED crashes

\* run_workload_api binds the Unix socket; an error ends that task only. "failed"
\* is also an agent configured without workload_api_socket.
StartApi ==
  /\ agent = "serving"
  /\ api = "down"
  /\ api' \in {"up", "failed"}
  /\ UNCHANGED <<agent, tries, workloads, crashes, attempts, port, listener,
                 cache, fresh, guards, tasks, wire>>

\* run_agent only sleeps from here on; without the Workload API the process
\* stays alive, so systemd does not restart it, and nothing else happens.
MainLoopSleeps ==
  /\ agent = "serving"
  /\ api = "failed"
  /\ UNCHANGED vars

-----------------------------------------------------------------------------
(* handle_workload_conn, one task per connection.                          *)

\* A guard is dropped when the scope that holds it is left.
NotDropped(lock, c) == lock   \* mutant: the guard leaks
Dropped(lock, c) == IF lock = c THEN None ELSE lock

\* The task returns from handle_workload_conn with whatever guards it has.
Finish(c, r) ==
  /\ pc' = [pc EXCEPT ![c] = "idle"]
  /\ key' = [key EXCEPT ![c] = None]
  /\ reply' = [reply EXCEPT ![c] = r]
  /\ workloadsLock' = Dropped(workloadsLock, c)
  /\ cacheLock' = Dropped(cacheLock, c)
  /\ dialLock' = Dropped(dialLock, c)

\* A client connects and its task reads its credentials, exe and cgroup.
Accept(c) ==
  /\ agent = "serving"
  /\ api = "up"
  /\ pc[c] = "idle"
  /\ pc' = [pc EXCEPT ![c] = "attesting"]
  /\ who' = [who EXCEPT ![c] = None]
  /\ cred' = [cred EXCEPT ![c] = None]
  /\ reply' = [reply EXCEPT ![c] = "none"]
  /\ UNCHANGED <<boot, attempts, port, listener, cache, fresh, guards, key, wire>>

\* The workloads mutex is taken and match_workload names an identity.
MatchUnguarded(c) ==   \* mutant: the table is copied and its guard dropped
  /\ pc[c] = "attesting"
  /\ workloadsLock = None
  /\ pc' = [pc EXCEPT ![c] = "reading"]
  /\ \E i \in workloads : who' = [who EXCEPT ![c] = i]
  /\ UNCHANGED <<boot, attempts, port, listener, cache, fresh, guards, key, cred,
                 reply, wire>>
Match(c) ==
  /\ pc[c] = "attesting"
  /\ workloadsLock = None
  /\ workloadsLock' = c
  /\ pc' = [pc EXCEPT ![c] = "reading"]
  /\ \E i \in workloads : who' = [who EXCEPT ![c] = i]
  /\ UNCHANGED <<boot, attempts, port, listener, cache, fresh, cacheLock,
                 dialLock, key, cred, reply, wire>>

\* The workloads mutex is taken, no selector matches, and an error is sent.
MatchNone(c) ==
  /\ pc[c] = "attesting"
  /\ workloadsLock = None
  /\ Finish(c, "refused")
  /\ UNCHANGED <<boot, attempts, port, listener, cache, fresh, who, cred, wire>>

ReadFetch(c) ==
  /\ pc[c] = "reading"
  /\ pc' = [pc EXCEPT ![c] = "lookup"]
  /\ UNCHANGED <<boot, attempts, port, listener, cache, fresh, guards, who, key,
                 cred, reply, wire>>

\* Another request type is refused; EOF and malformed lines close the socket.
ReadOther(c) ==
  /\ pc[c] = "reading"
  /\ \E r \in {"refused", "closed"} : Finish(c, r)
  /\ UNCHANGED <<boot, attempts, port, listener, cache, fresh, who, cred, wire>>

\* A cached entry is used while it is younger than half its lifetime.
NeverUsable(i) == FALSE   \* mutant: the cache is not consulted
Usable(i) == i \in fresh

\* get_or_fetch_credentials finds such an entry.
CacheHit(c) ==
  /\ pc[c] = "lookup"
  /\ cacheLock = None
  /\ Usable(who[c])
  /\ cred' = [cred EXCEPT ![c] = cache[who[c]]]
  /\ pc' = [pc EXCEPT ![c] = "replying"]
  /\ UNCHANGED <<boot, attempts, port, listener, cache, fresh, guards, who, key,
                 reply, wire>>

\* Otherwise the cache guard is kept, generate_csr makes a key pair and the
\* task waits for dial_mutex.
CacheMiss(c) ==
  /\ pc[c] = "lookup"
  /\ cacheLock = None
  /\ ~Usable(who[c])
  /\ cacheLock' = c
  /\ pc' = [pc EXCEPT ![c] = "queued"]
  /\ \E k \in KeyPair : key' = [key EXCEPT ![c] = k]
  /\ UNCHANGED <<boot, attempts, port, listener, cache, fresh, workloadsLock,
                 dialLock, who, cred, reply, wire>>

\* dial_mutex is taken and the persistent listener dropped to free the port.
TakeDialBound(c) ==   \* mutant: the listener is not dropped
  /\ pc[c] = "queued"
  /\ dialLock = None
  /\ dialLock' = c
  /\ attempts' = 0
  /\ pc' = [pc EXCEPT ![c] = "binding"]
  /\ UNCHANGED <<boot, port, listener, cache, fresh, workloadsLock, cacheLock, who,
                 key, cred, reply, wire>>
TakeDial(c) ==
  /\ pc[c] = "queued"
  /\ dialLock = None
  /\ dialLock' = c
  /\ listener' = FALSE
  /\ port' = IF listener THEN "free" ELSE port
  /\ attempts' = 0
  /\ pc' = [pc EXCEPT ![c] = "binding"]
  /\ UNCHANGED <<boot, cache, fresh, workloadsLock, cacheLock, who, key, cred,
                 reply, wire>>

DialBusy(c) ==
  /\ pc[c] = "binding"
  /\ Retry
  /\ UNCHANGED <<boot, port, listener, cache, fresh, guards, tasks, wire>>

DialOk(c) ==
  /\ pc[c] = "binding"
  /\ port = "free"
  /\ OpenLink([type |-> "cert_request", identity |-> who[c], pub |-> key[c]])
  /\ pc' = [pc EXCEPT ![c] = "awaiting"]
  /\ UNCHANGED <<boot, attempts, listener, cache, fresh, guards, who, key, cred,
                 reply>>

\* The bind loop gave up or connect failed: an early return by `?`, which
\* leaves AgentState.listener as TakeDial left it.
DialFails(c) ==
  /\ pc[c] = "binding"
  /\ port = "free" \/ attempts = BindRetries
  /\ Finish(c, "closed")
  /\ UNCHANGED <<boot, attempts, port, listener, cache, fresh, who, cred, wire>>

\* send_json or recv_json failed: the same early return.
ExchangeFails(c) ==
  /\ pc[c] = "awaiting"
  /\ link = "broken"
  /\ CloseLink
  /\ Finish(c, "closed")
  /\ UNCHANGED <<boot, attempts, listener, cache, fresh, who, cred>>

\* The certificate of a CertOk, with the private key kept since generate_csr.
IssuedWithAnyKey(c) ==   \* mutant: the key is not the one of this request
  [cn |-> response.cn, pub |-> response.pub, key |-> CHOOSE k \in KeyPair : TRUE]
Issued(c) == [cn |-> response.cn, pub |-> response.pub, key |-> key[c]]

\* The response is in `resp` and the stream dropped before it is looked at.
Receive(c) ==
  /\ pc[c] = "awaiting"
  /\ link = "answered"
  /\ cred' = [cred EXCEPT ![c] =
               IF response.status = "certok" THEN Issued(c) ELSE None]
  /\ CloseLink
  /\ attempts' = 0
  /\ pc' = [pc EXCEPT ![c] = "rebinding"]
  /\ UNCHANGED <<boot, listener, cache, fresh, guards, who, key, reply>>

RebindBusy(c) ==
  /\ pc[c] = "rebinding"
  /\ Retry
  /\ UNCHANGED <<boot, port, listener, cache, fresh, guards, tasks, wire>>

\* The listener cannot be restored: the response is lost with the error.
RebindGivesUpCached(c) ==   \* mutant: the credential is cached before the re-bind
  /\ pc[c] = "rebinding"
  /\ port # "free"
  /\ attempts = BindRetries
  /\ cache' = [cache EXCEPT ![who[c]] = cred[c]]
  /\ Finish(c, "closed")
  /\ UNCHANGED <<boot, attempts, port, listener, fresh, who, cred, wire>>
RebindGivesUp(c) ==
  /\ pc[c] = "rebinding"
  /\ port # "free"
  /\ attempts = BindRetries
  /\ cred' = [cred EXCEPT ![c] = None]
  /\ Finish(c, "closed")
  /\ UNCHANGED <<boot, attempts, port, listener, cache, fresh, who, wire>>

\* The listener is back and the response was CertOk: the cache is updated and
\* the cache and dial guards dropped.
RebindIssued(c) ==
  /\ pc[c] = "rebinding"
  /\ port = "free"
  /\ cred[c] # None
  /\ port' = "listener"
  /\ listener' = TRUE
  /\ cache' = [cache EXCEPT ![who[c]] = cred[c]]
  /\ fresh' = fresh \cup {who[c]}
  /\ cacheLock' = Dropped(cacheLock, c)
  /\ dialLock' = Dropped(dialLock, c)
  /\ pc' = [pc EXCEPT ![c] = "replying"]
  /\ key' = [key EXCEPT ![c] = None]
  /\ UNCHANGED <<boot, attempts, workloadsLock, who, cred, reply, wire>>

\* The listener is back and the response was an error or unexpected.
RebindRejected(c) ==
  /\ pc[c] = "rebinding"
  /\ port = "free"
  /\ cred[c] = None
  /\ port' = "listener"
  /\ listener' = TRUE
  /\ Finish(c, "closed")
  /\ UNCHANGED <<boot, attempts, cache, fresh, who, cred, wire>>

\* The response is written; a client that is gone makes the write fail.
Reply(c) ==
  /\ pc[c] = "replying"
  /\ \E r \in {"credentials", "closed"} : Finish(c, r)
  /\ UNCHANGED <<boot, attempts, port, listener, cache, fresh, who, cred, wire>>

-----------------------------------------------------------------------------
(* The environment.                                                        *)

\* The host reads the request and writes a response (see HostServer).
HostAnswers ==
  /\ link = "sent"
  /\ link' = "answered"
  /\ response' \in {ErrorResponse} \cup
       CASE request.type = "handshake"    -> {HandshakeOk(W) : W \in SUBSET Identity}
         [] request.type = "cert_request" -> {CertOk(request.identity, request.pub)}
  /\ UNCHANGED <<boot, attempts, port, listener, cache, fresh, guards, tasks,
                 request>>

\* The host closes the connection, or dies, before it answers.
LinkBreaks ==
  /\ link = "sent"
  /\ link' = "broken"
  /\ UNCHANGED <<boot, attempts, port, listener, cache, fresh, guards, tasks,
                 request, response>>

\* The kernel releases the port of a closed connection.
LingerEnds ==
  /\ port = "linger"
  /\ port' = "free"
  /\ UNCHANGED <<boot, attempts, listener, cache, fresh, guards, tasks, wire>>

\* Another process of the guest binds and releases the client port.
OtherBinds ==
  /\ port = "free"
  /\ port' = "other"
  /\ UNCHANGED <<boot, attempts, listener, cache, fresh, guards, tasks, wire>>

OtherReleases ==
  /\ port = "other"
  /\ port' = "free"
  /\ UNCHANGED <<boot, attempts, listener, cache, fresh, guards, tasks, wire>>

\* A cached certificate reaches half its lifetime.
Ages ==
  /\ \E i \in fresh : fresh' = fresh \ {i}
  /\ UNCHANGED <<boot, attempts, port, listener, cache, guards, tasks, wire>>

\* The process is killed; systemd restarts it (Restart = "always").
Crash ==
  /\ agent # "stopped"
  /\ crashes < MaxCrashes
  /\ crashes' = crashes + 1
  /\ ProcessEnds

Restart ==
  /\ agent = "stopped"
  /\ agent' = "dialing"
  /\ UNCHANGED <<tries, workloads, api, crashes, attempts, port, listener,
                 cache, fresh, guards, tasks, wire>>

-----------------------------------------------------------------------------
Boot ==
  \/ BootBindBusy \/ BootDialOk \/ BootDialRetry \/ BootDialGivesUp
  \/ HandshakeAccepted \/ HandshakeFailed
  \/ SecureBusy \/ SecurePort \/ SecureGivesUp

Attest(c) == Match(c) \/ MatchNone(c)
Read(c)   == ReadFetch(c) \/ ReadOther(c)

Fetch(c) ==
  \/ CacheHit(c) \/ CacheMiss(c) \/ TakeDial(c)
  \/ DialBusy(c) \/ DialOk(c) \/ DialFails(c)
  \/ ExchangeFails(c) \/ Receive(c)
  \/ RebindBusy(c) \/ RebindGivesUp(c) \/ RebindIssued(c) \/ RebindRejected(c)
  \/ Reply(c)

Task(c) == Accept(c) \/ Attest(c) \/ Read(c) \/ Fetch(c)

Host == HostAnswers \/ LinkBreaks

Environment == Host \/ LingerEnds \/ OtherBinds \/ OtherReleases \/ Ages

Next ==
  \/ Boot
  \/ StartApi
  \/ MainLoopSleeps
  \/ \E c \in Conn : Task(c)
  \/ Environment
  \/ Crash
  \/ Restart

\* What the runtime guarantees: a task that can run does; tokio's mutex queues
\* its waiters, so a task waiting for it gets it if it is free again and again;
\* the host answers or drops the connection; and every client that has
\* connected eventually sends a line or hangs up, which the agent relies on
\* because it waits for that line without a timeout.
Fairness ==
  /\ WF_vars(Boot)
  /\ WF_vars(Host)
  /\ \A c \in Conn : /\ SF_vars(Attest(c))
                     /\ WF_vars(Read(c))
                     /\ WF_vars(Fetch(c))

Spec     == Init /\ [][Next]_vars
FairSpec == Spec /\ Fairness

-----------------------------------------------------------------------------
(* Properties.                                                             *)

\* The guards nest: whoever holds dial_mutex holds the cache, whoever holds
\* the cache holds the workloads table, and a guard is held exactly where the
\* code's scopes hold it. So no early return leaves a mutex locked, no two
\* tasks are past their attestation at once, and no lock order is ever inverted.
GuardsNest ==
  /\ dialLock # None => dialLock = cacheLock
  /\ cacheLock # None => cacheLock = workloadsLock
  /\ \A c \in Conn :
       /\ workloadsLock = c <=> pc[c] \in HoldsWorkloads
       /\ cacheLock = c <=> pc[c] \in HoldsCache
       /\ dialLock = c <=> pc[c] \in Dialing

\* The client port is accounted for: AgentState.listener is Some exactly when
\* the port is bound by the listener, and it is bound by a stream exactly while
\* the boot handshake or one dialing task is using that stream. A dial that
\* kept the listener, or a listener kept beside a stream, would block itself.
PortAccounted ==
  /\ listener <=> port = "listener"
  /\ port = "stream" <=> link # "none"
  /\ link # "none" <=> agent = "greeting" \/ \E c \in Conn : pc[c] = "awaiting"

\* Single flight: a task dials for an identity only while the cache has no
\* fresh entry for it, however many clients of that identity are waiting.
SingleFlight ==
  \A c \in Conn : pc[c] \in HoldsCache => who[c] \notin fresh

\* Every credential the agent has or hands out is for the identity attested for
\* that client under this boot's workload table, and its certificate carries
\* the public key of the private key delivered with it.
AttestedCredentials ==
  /\ \A i \in Identity :
       /\ i \in fresh => cache[i] # None
       /\ cache[i] # None => /\ i \in workloads
                             /\ cache[i].cn = i
                             /\ cache[i].pub = cache[i].key
  /\ \A c \in Conn :
       /\ pc[c] \in HoldsWorkloads => who[c] \in workloads
       /\ pc[c] = "replying" => cred[c] # None
       /\ cred[c] # None => cred[c].cn = who[c] /\ cred[c].pub = cred[c].key

\* Before it serves the agent runs no task and caches nothing, whatever an earlier
\* boot left behind; and the response a dialing task reads answers the request
\* that task wrote: its own identity, under the key pair it generated.
TasksMatchWire ==
  /\ agent # "serving" => /\ \A c \in Conn : pc[c] = "idle"
                          /\ \A i \in Identity : cache[i] = None
                          /\ fresh = {}
  /\ link # "none" => request \in Request
  /\ link = "answered" => response \in Response
  /\ \A c \in Conn :
       /\ pc[c] = "attesting" => cred[c] = None
       /\ pc[c] \in HoldsCache => key[c] # None
       /\ pc[c] = "awaiting" =>
            /\ request = [type |-> "cert_request", identity |-> who[c], pub |-> key[c]]
            /\ link = "answered" => response \in {ErrorResponse, CertOk(who[c], key[c])}

\* A credential enters the cache only together with the listener's return: a
\* dial whose re-bind failed caches nothing, so its answer is fetched again.
CachedOnlySecured ==
  [][\A i \in Identity :
       cache'[i] # None /\ cache'[i] # cache[i] => listener' /\ agent = "serving"]_vars

\* While the agent serves and no dial is in progress it keeps its client port
\* bound (client.rs: "Bind the persistent listener to client port (901) to
\* protect it", "briefly releasing/re-acquiring client port 901 listener").
PortKeptBetweenDials ==
  agent = "serving" /\ dialLock = None => listener

\* Every accepted connection ends, whatever the host, the port and the other
\* clients do, given Fairness: the bind loops are bounded, every path drops its
\* guards, and the mutexes cannot deadlock.
ConnectionsEnd ==
  \A c \in Conn : pc[c] # "idle" ~> pc[c] = "idle"

\* Boot ends: the agent serves, or exits to be restarted, even if the port
\* never becomes free.
BootEnds ==
  agent \in Booting ~> agent \in {"serving", "stopped"}

\* The agent implements CredentialService. Credentials leave the cache before
\* they are written to the client, with the cache guard released in between, so
\* that they are still the newest then, and were usable after the client asked,
\* rests on the workloads guard, which lives to the end of handle_workload_conn.
Service == INSTANCE CredentialService WITH
  Client     <- Conn,
  Credential <- [i \in Identity |-> {x \in Cred : x.cn = i /\ x.pub = x.key}],
  current    <- cache,
  usable     <- fresh,
  asking     <- {c \in Conn : pc[c] # "idle"},
  choice     <- [c \in Conn |-> IF pc[c] = "replying" THEN who[c] ELSE None],
  outcome    <- [c \in Conn |-> CASE reply[c] = "credentials" -> {cred[c]}
                                   [] reply[c] = "none"        -> None
                                   [] OTHER                    -> {}]

\* What clients see of the agent, cache, dials, kills and restarts included, is a
\* behaviour of that service.
ImplementsService == Service!Spec
=============================================================================
