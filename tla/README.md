# VM-AuthN-Scope in TLA+

Workloads in a virtual machine get short-lived X.509 certificates without a
secret of their own. A guest **agent** attests the process that connects to its
Unix socket (uid, gid, executable, systemd unit), asks the **host server** over
vsock for a certificate for the workload it found, and hands the certificate and
the private key to the process. The server knows a guest by its vsock CID and
source port only and signs with a file-based **CA**. This directory specifies
that machinery in TLA+, checks it with TLC and proves much of it with TLAPS.

Paths below are relative to the repository; `client.rs` is
`apps/rust-apps/authn-scope-agent/src/client.rs`, `handler.rs`, `listener.rs`,
`policy.rs`, `config.rs` and `main.rs` are those of `apps/rust-apps/authn-scope-server/src`,
`ca.rs` and `signing.rs` those of `libs/rust-libs/authn-scope-ca/src`, `codec.rs` that of
`libs/rust-libs/authn-scope-proto/src`; "the workload library" is `libs/rust-libs/authn-scope-workload`
and its Go twin `libs/go-libs/authn-scope-workload`.

## Inventory

| Component | State | Operations | Modelled in |
|---|---|---|---|
| Agent boot (`run_agent`, `perform_handshake`) | phase, dial and bind attempts, workload table | handshake, bind the persistent listener, start the API | `Agent` |
| Agent Workload API (`handle_workload_conn`) | one task per connection, the `workloads` mutex | attest, read one line, reply | `Agent` |
| Agent credential cache (`get_or_fetch_credentials`) | `cache` and its mutex | hit, miss, insert | `Agent` |
| Agent dial (`request_cert_on_demand`) | `dial_mutex`, `listener`, the vsock stream, the client port | release the port, dial, exchange, re-bind | `Agent` |
| Attestation (`handle_workload_conn`, `match_workload`, `parse_selector`) | selector strings, what was read of the peer, candidates | parse, read ids, executable and cgroup, match, score, choose | `Selectors` |
| Host server (`run_listener`, `handle_inner`, `resolve`, `from_file`) | configuration file and its copy, connections | start, accept, drop, answer a handshake or a certificate request | `HostServer` |
| Issuing (`sign_csr`) | none | copy the CSR, set names and validity, sign | `HostServer` |
| CA files (`CertificateAuthority::init`, `::load`) | two files, the mode of one, the pair in memory | remove, generate, write, chmod, read, parse | `CaStore` |
| Frame codec (`codec.rs`) | none between frames | `send_json`, `recv_json` | `FrameCodec` |
| Workload libraries (Rust, Go) | cached credentials | fetch, rotation loop | `Rotation` |
| Evaluator libraries (Rust, Go) | none | accept a peer's certificate | `Accepts` in `Rotation` |
| Agent `main.rs`, `config.rs` | none that lasts | load, run, exit | `Restart`, `ProcessEnds` in `Agent`, `LoadsConfig` in `System` |
| NixOS modules | - | `Restart = always` | `Restart` in `Agent` and `System`, `Start` in `CaStore`, `HostServer`, `System` |
| Profiler, test workload, NixOS tests | none that lasts | - | no |

**Interactions.** The agent and the server exchange one frame each way per vsock
connection, always dialed from the agent's client port (901), which the server
checks. That port is shared, in time, by the agent's persistent listener, the
stream of a dial and the new listener. Workload connections share the three
mutexes of `AgentState`, nested across awaits. A workload's rotation loop asks the
API again and again and keeps what it last got. The server's handlers share only
its configuration and CA, both read-only. CA and configuration files are shared
by successive (and, by operator error, concurrent) server processes.

**What is hard.** Interleavings of connection tasks at every await; early returns
by `?` between giving something up and taking it back; the port in the hands of
another process or of a closing socket; kills of the agent during a dial and of
the server between two file operations; a table the agent reads once per boot;
a pid read three times; three clocks that disagree about the age of a
certificate; a CA that is replaced under those who trust it; arithmetic on
configured TTLs; the iteration order of a `HashMap`.
`PROJECT.json` lists each at its line under `hazards`.

**What makes each part correct.** Agent: guards nest and are always released; one
dial at a time and only for a stale entry; the port is always in the hands
the code believes; a credential is for the attested identity, with its own
key; connections and boots end. Attestation: a process is attested as the most
specific workload all of whose selector parts it satisfies. Server: only the
registered guest, from the agent's port, is served; what is signed is what was
offered; requests are answered. CA: a server never issues with a certificate and
a key of two CAs; what it issues with is on disk and private. Together: what an
agent hands out was granted by a configuration the server ran, and a workload that
keeps asking is served. Workload: credentials in use are valid and never go back.
Codec: messages arrive whole and in order.

## Modules

### `Agent` - the guest agent

One action per piece of code between two awaits.

| Variables | Code |
|---|---|
| `agent`, `tries`, `attempts` | position in `run_agent`; the counters of the dial loop (limit `HandshakeRetries`, 15) and of whichever bind loop runs (limit `BindRetries`, 10): at most one of them runs at a time |
| `port` | who has the client port in the kernel: the listener, the stream of a dial, a closed stream not yet released (`linger`), another process |
| `listener`, `workloads`, `cache` | the fields of `AgentState` |
| `fresh` | identities for which the age test of `get_or_fetch_credentials` succeeds |
| `workloadsLock`, `cacheLock`, `dialLock` | holders of the mutexes |
| `pc`, `who`, `key`, `cred`, `reply` | each connection task: its await, `identity_name`, the key of its CSR, its credentials, what its client got |
| `link`, `request`, `response` | the one vsock connection and the frames on it |

| Actions | Code (`client.rs`) |
|---|---|
| `BootBindBusy`, `BootDialOk`, `BootDialRetry`, `BootDialGivesUp` | `connect_with_local_port` within `perform_handshake`, 207-228 |
| `HandshakeAccepted`, `HandshakeFailed` | 230-246 |
| `SecureBusy`, `SecurePort`, `SecureGivesUp` | bind loop of `run_agent`, 151-176 |
| `StartApi`, `MainLoopSleeps` | 178-198, 249-266 |
| `Accept`, `Match`, `MatchNone` | 268-354; the task waits for `workloads` and keeps the guard to its end |
| `ReadFetch`, `ReadOther` | 358-373, with the guard held |
| `CacheHit`, `CacheMiss` | 491-503, and on a miss `generate_csr` |
| `TakeDial` | 535-537: takes `dial_mutex`, drops the listener |
| `DialBusy`, `DialOk`, `DialFails` | 539-550 |
| `ExchangeFails`, `Receive` | 548-557: error return, or the response with the stream dropped |
| `RebindBusy`, `RebindGivesUp`, `RebindIssued`, `RebindRejected` | 559-597, and for an issued certificate the insertion at 506 |
| `Reply` | 377-386 |
| `HostAnswers`, `LinkBreaks`, `LingerEnds`, `OtherBinds`, `OtherReleases`, `Ages`, `Crash`, `Restart` | host, kernel, other guest processes, time, systemd |

Abstractions. The two mutexes `dial_mutex` and `listener` are taken together
(only the holder of the first takes the second after boot), so the second needs
no variable. A successful `connect` and the write of the small request are one
step (`DialOk`); a failed write is an answerless link. Bind errors other than
"address in use" and failures of `peer_cred` and `generate_csr` are not modelled;
the first behaves as `DialFails`. The re-bind loops (157, 565) retry every error
and `connect_with_local_port` (99) only "address in use": with the port in use
they coincide. Which identity a process matches is any of the table; `Selectors`
says which. A credential is its subject, its public key and the private key
beside it. `Ages` may take an identity out of `fresh` at any time, so no property
depends on a duration.

### `CredentialService` - what the agent promises

Clients ask and are granted or refused. Granted credentials are the newest of one
identity, chosen while they were usable and after the client asked; new ones are
issued only for an identity that has none in use. Nothing else of `Agent` is
visible: no mutex, port, dial or host. The mapping is `Service` in `Agent`: `cache` and
`fresh` are the service's own state, a task that is not idle is a client that
asks, one that replies has its choice, and what it sent is the outcome. A kill of
the agent is `Reset`. The cache guard is released before the reply is written, so
the mapping rests on the `workloads` guard; without it (`MatchUnguarded`) it fails.

### `System` - an agent and the server

Instances of `Agent` and `HostServer` joined by the one vsock connection: `Dial` is
`DialOk` or `BootDialOk` with a new connection in the server's backlog, `Answer` a
handler's answer with the agent's link answered, `Drop` and `Stop` the server's
with the agent's link broken; every other step is one side's alone. `Frame` and
`Received` translate the messages of one module into those of the other. What
`Agent` leaves open is decided here: a dial fails only if no server listens
(`Refused`) or the port is taken (`PortBusy`). Server and configuration may change
under an agent that keeps the table of its boot. `granted` records what some
configuration the server ran grants this guest. One assumption is made of the
kernel, in `PortBusy`: the port of a stream both ends have closed is free before
a bind loop (ten times 100 ms) gives up.

### `Rotation` - certificates in time

What `Agent` abstracts to `fresh`: a certificate's age counts from its signature,
the cache entry's elapsed time from its insertion, and a loop's `since` counts its
sleep or its fetch. `Tick` moves all of them and passes over no timer that is
due; `Suspend` moves only the wall clock. `Hit`, `Sign` and `Insert` are
`get_or_fetch_credentials`, `Store`, `Fail` and `Wake` the loop of
`start_rotation_loop`; `Fail` is any error, of the socket, the agent or the host.
`RestartAgent` empties the cache and `Regenerate` is a server started with `--genkey`.
A credential is the generation of its CA and its age. Ages stop at the first
value past `Ttl`. `Delay` bounds a fetch from its start to the store:
no code has a timeout there, but the agent's loops are bounded (`ConnectionsEnd`).
`IntervalSuits` is what the caller's interval must satisfy, which no code checks.

### `FrameCodec` - bytes on a stream

`Send` puts a prefix and a payload before `write_all`, `Write` lets the kernel take
some of it, `Read` gives `read_exact` some of what it still wants, `HangUp` ends
the sender anywhere and may lose what is unread. `Header` keeps the low bytes of the
length (`len as u32`) and `Length` reads them back; only `HeaderRead` looks at the
limit. Payload bytes are known by their message and place, and `from_slice`
succeeds on exactly one whole payload. It justifies the whole messages of `Agent` and
`HostServer`, whose failures (`ExchangeFails`, `HandshakeFailed`, `HandleGone`) are
the failures of `recv_json` here.

### `Selectors` - from a selector string to an attested workload

`strings` is the configuration, `ParseSelector` the host's parser as a loop over
the parts between commas (`ParseParts`). `PeerCred`, `ReadExe` and `ReadCgroup` are the three
reads of `handle_workload_conn`; between them `PidChanges` lets the process exit and
another get its pid, and a read that fails leaves its field unset. `UnitPath` and
`UnitName` are the search in the cgroup lines, `Matches` and `Score` the body of
`match_workload`'s loop.
The loop over the `HashMap` is the action `Visit`, which takes the workloads in
any order; `Choose` is the stable sort and `first`; `NextConnection` matches
another process against the same table. A file with a bad selector is refused
(`RefusedAgain`). Strings are sequences of parts, and a part is a key with a
value, blank, or bad (fewer than three fields, or an unknown key); user databases, last path components and the `.service`
suffix are given as functions. A cgroup path that itself contains a colon, which
`split(':')` cuts, is not modelled.

### `HostServer` - the credential server

`Start` is `from_file` with its two checks, and the bind; `Accept` and `Drop` the
port check of `run_listener`; `Handle` is `handle_connection` from the frame it
reads to the frame it writes, with `HandshakeAnswer`, `CertAnswer`, `SignCsr` and
`Signable` for the branches of `handle_inner` and of `sign_csr`; `HandleGone` is any
failure of the stream. One action is enough for a handler because it shares only
immutable data. `served` records which start of the server wrote an answer.
`Signable` has the failures of `sign_csr` an input can cause: a CSR or an address that
does not parse, and a name that is not ASCII (`Ia5`, `signing.rs:55`), which `from_file`
accepts and the handshake offers. `Seconds` is the `u32` product `ttl_minutes * 60` of a release build; a debug
build panics there instead. The environment connects from any CID and port,
writes frames, edits the file and stops the server.

### `CaStore` - the CA's files

Each system call of `init` (two removals, truncation and write of each file,
chmod) and of `load` (two reads) is an action of a process, and `Dies` may come
between any two. A CA is one value: a certificate and a key match when equal.
`Partial` is a file that is created and not yet filled. A truncated file keeps its
mode, a new one gets the umask's. Processes may remove each other's files: `linked` are
those whose open file is still the one at its path, and a write of any other goes to
an unlinked file and leaves the path alone. `set_mode_600` works on the path, so it
may restrict the other's key, and fails if there is none (`ChmodFails`): `init` returns
the error and the process exits. Two writes to one file leave the later one's
content, as both start at offset 0 and the first PEM block is what is parsed.
`RemovalMayFail` lets `remove_file` fail (a bind mount, an immutable file), which `init`
ignores; a failing write is `Dies`. `Unit` are the processes systemd starts again.

### `MCAgent`, `MCSystem`, `MCRotation`, `MCFrameCodec`, `MCSelectors`, `MCHostServer`, `MCCaStore`

Values for TLC. Operators marked *mutant* in the specifications are not used by
them: each is a plausible bug in the operator that follows it, and shows that a
property notices when it is put in that operator's place.

## What the runs check

| Run | Shows | Bounds |
|---|---|---|
| `agent_safety` (125 100 states) | `TypeOK`, `GuardsNest`, `PortAccounted`, `SingleFlight`, `AttestedCredentials`, `TasksMatchWire`, `CachedOnlySecured`, `ImplementsService` | 2 connections, 2 identities, 2 key pairs, one retry per loop, one kill |
| `agent_live` (8 991) | `ConnectionsEnd`, `BootEnds` | 2 connections for one identity, no symmetry |
| `system` (187 412) | `SignedAsRegistered`, `ImplementsAgent`, `KeepsAskingIsServed` | one client, 2 identities, one not ASCII, one kill of the agent, 3 starts of the server, 5 files |
| `rotation` (667 616) | `TypeOK`, `CurrentStaysValid`, `NewestWins`, `PeersConverge` | 2 clients with a loop each, lifetime 12, interval and delay 1, one failure in a row, one suspend, one new CA |
| `frames` (8 760) | `TypeOK`, `WholeInOrder`, `FailsForCause`, `FitsIsDelivered` | up to 2 messages of 5 lengths, prefix of 2 bytes of 4 values, limit 6 |
| `castore_unit` (174) | `TypeOK`, `ServingPairMatches`, `ServedIsOnDisk` | one process, started either way, 4 key pairs |
| `castore_genkey` (35 608) | `GenkeyServes` | the unit and an operator's process, both with `--genkey`, 5 key pairs, removals may fail |
| `host_server` (463 900) | `TypeOK`, `OnlyRegisteredPeers`, `OffersAreGrants`, `RequestsEnd` | 2 connections, 2 VMs, CIDs, ports and identities (one not ASCII), 4 files, 2 starts |
| `selectors` (309 956) | `TypeOK`, `ChosenSatisfies`, `ChosenIsMostSpecific`, `AttestsThePeer`, `ParserAgrees` | 2 workloads with 12 strings each, or every string of up to 3 of 7 parts and some of 4; 4 processes |
| `agent_port`, `castore_mode`, `host_subject` | violations, below | the smallest that show them |

Why these are enough. Two connections contend for every mutex and one may hold
what the other waits for; a third would only wait in the same places, and the
proofs cover any number. A retry limit of one has the three cases of a loop
(free at once, free after a retry, given up). One kill suffices because
`ProcessEnds` leaves only the port behind, and every value of the port is a state
of `Init` or is left by it. The server's two starts let an answer of an earlier start meet a later
configuration; two connections are needed to compare an offer with a grant. In
`CaStore` a value must be unused to be generated, so the number of key pairs is
that of the places that can hold one, plus one. `Wrap` = 2^7 stands for 2^32:
the tables have TTLs on both sides of the wrap. A winner and a loser, or a tie,
need two workloads, in either order, and what is chosen among more is decided by
such pairs. The four processes differ in every field that is read. In `System` one
client suffices for what the composition adds, since the server sees one dial at a
time from this agent; contention of clients is `agent_safety` and `agent_live`, and
`ImplementsAgent` carries their results over. Its files are good, for another CID,
with a name that is not ASCII, without the workload, and for another peer port, and three starts lead from one to
another and back. In `Rotation` the bounds meet `IntervalSuits` with equality, so
one more failure or one more unit of suspend breaks `CurrentStaysValid`; the
proof covers every other choice. In `FrameCodec` the lengths are the shortest, the
limit, one above it, and two that the prefix wraps to zero and to one.

### Fairness

- `Agent`: a task that can run does (`WF` of `Read`, `Fetch`, `Boot`: tokio's
  scheduler). Waiting for `workloads` is `SF` because tokio's mutex is FIFO: a
  waiter cannot be passed over for ever. `Fetch` needs only `WF`, since a task there
  holds `workloads` and so waits for nobody. The host answers or drops a
  connection (`HostServer`'s `RequestsEnd` is that promise). `WF` of `Read`
  assumes that **a client that connected sends a line or hangs up**: the code has
  no timeout there, and without the assumption one silent client blocks all.
  There is no fairness for the kernel's release of the port, for other processes,
  time, kills or restarts: `ConnectionsEnd` and `BootEnds` hold if the port never comes free.
- `HostServer`: the accept loop and the handlers run. None for guests.
- `System`: both of these, systemd for both units (`Restart = always`), and the kernel's
  release of a closed stream's port (`LingerEnds`). `ImplementsAgent` shows that this
  is at least what `Agent` assumes. `KeepsAskingIsServed` speaks of behaviours that
  settle: a server with a good configuration runs, the agent serves, the names in its
  table are ASCII (TLC refutes it without that), and no other process holds the client
  port.
- `Rotation`: time goes on, and a loop or a fetch that can take a step does. None
  for failures, suspends, restarts or new CAs; their number or rate is bounded.
- `FrameCodec`: `write_all` and `read_exact` go on while they can.
- `CaStore`: `Runs` of each process, and `Start` of the unit's, which systemd starts
  again. `GenkeyServes` speaks of behaviours in which kills stop and the operator starts no
  other process (`LeftAlone`); exits by the code's own errors go on. If both processes
  were started again for ever it would be false: TLC then shows the one removing the key
  between the other's `fs::write` and `set_mode_600`, in turns, so that neither gets to
  bind. systemd's start rate limit, which may leave a unit failed after quick
  repeated failures, is not modelled.

### Disagreements found

1. **`agent_port`**: an on-demand dial that fails leaves the agent without its
   persistent listener (`client.rs:540`, 550, 554, 571 return before 575), while it
   serves on; "briefly releasing/re-acquiring" (519) and "to protect it" (151) do not hold until
   a later dial succeeds. (`KeepsAskingIsServed` shows that a later dial can.)
2. **`host_subject`**: `sign_csr` keeps the CSR's subject and compares it with
   nothing; `signing.rs:18` says the identity "must match the CSR subject CN", and the
   evaluator's test (`authn-scope-evaluator/src/lib.rs:95`) expects the identity from a
   certificate whose CSR has another common name.
3. **`castore_mode`**: the key file is created with the umask's mode and restricted
   afterwards; a death between the two leaves it so for all later `load`s
   (`README.md:184` promises mode 0600).

Documents that describe another configuration than the code reads; no run states
these, as nothing but the text is at stake. The comment on `IdentityPolicy.selector`
(`config.rs:50`) gives the example `unix:uid:1000,systemd:unitname:service-a`, which
`parse_selector` refuses as an unknown component (`config.rs:100`), and with it the file
(`unix:user`, `unix:group` and `unix:bin` are the keys there are).
`config-examples/host.json` writes selectors as objects, which `IdentityPolicy` does not
accept. `docs/server_configuration.md:17` says certificates are valid for
`cert_validity_days` (365 by default), as do `README.md:139` and `docs/design.md:117`, and `README.md:154`
has an override `validity_days`: `HostConfig` and `IdentityPolicy` have neither, and the
validity is `ttl_minutes`, which is required. The agent does not use the
`validity_seconds` of the handshake: its cache goes by the certificate (`client.rs:494`).

Known limits, which no run reports. `ttl_minutes * 60` wraps (`policy.rs:22`), so
the validity is not the configured one for values above 71 582 788 minutes. A removal
that fails is ignored (`ca.rs:72`, 75); if the process then dies after it wrote the
new certificate, a start without `--genkey` loads that certificate with the old key. The
same may happen to a `load` that reads the files while a `--genkey` replaces them, and
after two `--genkey` processes whose writes interleave: `load` compares nothing. A
workload whose name is not ASCII is accepted by `from_file`, offered to the agent,
attested, and refused whenever a certificate is asked for (`signing.rs:55`). A
`systemd:unitname:` selector with an empty value matches processes without a unit,
also those that exited before their cgroup was read. Two rotation loops on one
client may store an older certificate over a newer, still valid, one.

## What is proved

`AgentProofs` proves for any sets of connections, identities and key pairs and
any retry limits, from the named assumptions of `Agent` (`None` is none of
the values; the limits are naturals):
`TypeCorrect`, `GuardsAlwaysNest`, `PortAlwaysAccounted`, `AlwaysSingleFlight`,
`CredentialsAlwaysAttested`, `RequestsAlwaysMatched` (each `Spec => []` the
invariant the run checks) and `CachedOnlyWithListener` (`Spec => CachedOnlySecured`).

The inductive invariant `IInv` is the conjunction of the six. None but `TypeOK` is
inductive by itself: that a dialing task reads the answer to its own request
(`TasksMatchWire`) needs that no other task touches the wire, which is that only
one task is past `dial_mutex` (`GuardsNest`); the port's owner (`PortAccounted`)
needs the same; that what is cached carries its own key (`AttestedCredentials`)
needs the request's identity and key (`TasksMatchWire`); that an entry does not
become fresh under a dialing task (`SingleFlight`) needs the cache guard. There is one step lemma
per conjunct, each with one step per action that can disturb it.

It also proves `AgentImplementsService`, `Spec => ImplementsService`, from
`IInv` and two more invariants: what a replying task hands out is what the cache has
for its identity (`Handing`, which needs that only one task is past the `workloads`
mutex), and a client that waits has no outcome (`Waiting`). There is one lemma per
kind of step: a connection asks, a hit reuses, a re-bind issues, a reply grants, an
early return refuses, the death of the process resets, and the rest is invisible.

`RotationProofs` proves `TypeCorrect`, `ValidCredentials` (`Spec => []CurrentStaysValid`)
and `NeverOlder` (`Spec => []NewestWins`) for any clients, loops and owners, also with
several loops on one client, and any times, from `RotationAssumption` (they are
naturals, the lifetime is above one), `NoneAssumption` and `IntervalSuits`. Its `IInv`
follows a credential: in flight it is no older than the fetch and the suspends, in
the cache while usable no older than the elapsed time, a delay and the suspends, in
a loop's hand at most that of the last moment before half its life and the fetch; and a
client's is within the `Budget` of each of its loops, which every failure raises by
one round and which never exceeds `Ttl` by `IntervalSuits`. That the cache holds the youngest
credential (`Youngest`) gives `NeverOlder`.

`CaStoreProofs` proves `TypeCorrect` for any number of processes, and for one
process (`Proc = {q}`) with `RemovalMayFail = FALSE`, the unit as systemd runs it,
`ServesMatchingPair` and `ServesWhatIsOnDisk`. Its `IInv` says at every step of
`init` what the two files contain and that two loadable files are always of one CA:
that is the order remove, remove, write, write. Both hypotheses are needed: without
the second a later `load` may find a mixed pair, and a second `--genkey` process
replaces the files of the first; without the first, also, a write may miss its path
(`p \in linked` is part of `Progress` for that reason).

`HostServerProofs` proves `TypeCorrect`, `PeersAreRegistered` and `OffersAgreeWithGrants`
(`Spec => []` of `TypeOK`, `OnlyRegisteredPeers` and `OffersAreGrants`) for any
configurations, VMs, CIDs, ports, requests and connections, from `HostAssumption`. An
answer is compared with the configuration, the frame and the peer's address long
after it was written; so its `IInv` says that an answered stream is closed (nothing
of it changes), that an answer of the running start is the one `Answer` gives under
the configuration that start loaded, and that an open stream came from the peer port.
`served <= starts` makes the answers of earlier starts stay earlier ones. The
agreement of offers and grants then follows from the two branches of `Answer`, up to
the inputs `sign_csr` fails on (`Signable`).

`Induction` has what the next two need to reason about loops over strings and bytes:
least elements, induction and the existence of a recursive function, each stated for
a set or a function (which the provers can instantiate) where the library's
theorems take an operator. They follow from the library's well-foundedness of `<` on
the naturals.

`SelectorsProofs` proves `TypeCorrect`, `ParserIsRight`, `ChosenIsSatisfied`,
`MostSpecificIsChosen` and `PeerIsAttested` (`TypeOK`, `ParserAgrees`, `ChosenSatisfies`,
`ChosenIsMostSpecific` and `AttestsThePeer`), for any workloads, strings, processes and
databases, from `SelectorsAssumption`. `ParsePartsAgrees` follows the parser's loop: after m
parts the fields are an error if one of them was bad, and otherwise have the last
value of each key. `ScoreOfTiers` shows that the weights of `match_workload` make the sum a
number whose digits are the tiers, so that comparing sums compares tiers
(`AboveScoresMore`). `IInv` says that a file was refused exactly for a string that does not
parse, that each field of `seen` is that of a holder of the pid and the ids
the peer's, that the candidates are the visited workloads that match, each with its
score, and that the chosen one has the best.

`FrameCodecProofs` proves `TypeCorrect`, `ReceivedIsSent` and `FailureHasCause` (`TypeOK`,
`WholeInOrder` and `FailsForCause`), for any base, prefix length, limit and messages,
from `CodecAssumption`. That assumption says the limit is below what the prefix can hold (4 MiB
and 2^32 in the code); without it a wrapped length could not be told from a true one.
`LengthOfHeader` shows digit by digit that `from_be_bytes` gives back what
`to_be_bytes` took apart. `Stream` is all bytes of the calls of `send_json` so far, and
`IInv` says that until `recv_json` fails, the reader's buffer, the stream and what the kernel
has not taken are consecutive pieces of it, the first of which begins at a frame or
right after a prefix. Only with this can a payload be recognised as the next one, and a
buffer that is no payload as the start of one whose length wrapped.

`SystemProofs` proves four results about the agent and the host together, from
`SystemAssumption` (what `Agent` assumes of its constants).
`HostIsAgentEnvironment` is `Spec => A!Spec`, the safety part of `ImplementsAgent`: every step
of `System` is one of `Agent` or leaves the agent alone, because the frame in the
stream is the agent's request as long as it waits (`Joined`), so that the server's answer
is one `Agent` expects. With it the invariants of `AgentProofs` hold here
(`AgentStaysSafe`), and its clients see `CredentialService` (`SystemImplementsService`). `IssuedAsRegistered` is `Spec => []SignedAsRegistered`: `Signed` follows a
certificate's subject from the configuration that allowed it, over the response and the
credentials of the task, to the cache; that an entry's subject is the identity it is
cached under is `AttestedCredentials` of `Agent`, by the refinement.

Together the theorems state every invariant and every safety property of the
passing runs, `ImplementsAgent` up to its fairness. Only model-checked: the liveness properties (`ConnectionsEnd`, `BootEnds`,
`GenkeyServes`, `RequestsEnd`, `KeepsAskingIsServed`, `PeersConverge`, `FitsIsDelivered`) and the
fairness that `ImplementsAgent` adds to `A!Spec`, since fairness and `ENABLED` are out of
the prover's reach.

## Plan

Done: `Agent`, `CredentialService`, `HostServer`, `System`, `CaStore`, `Selectors`,
`Rotation`, `FrameCodec`, and proofs about each of them.

Next: lemmas toward the liveness results that need no fairness (the bounds on the
steps of a dial that `ConnectionsEnd` rests on, as variants that every step lowers), and
the host's side of `System` (`OnlyRegisteredPeers` of the server while an agent is its guest).

## Not modelled

- The profiler and the test workload: straight-line programs over the workload
  library.
- The NixOS tests and scripts.
- X.509 itself: parsing, key usages, signatures beyond "by which CA", and the text
  of errors. The evaluators are reduced to which CA a certificate is signed by.
- Command lines, root checks, JSON defaults and logging of the two `main.rs`.
- systemd's start rate limit.
- Failures of `generate_csr`, of `peer_cred` and of binding for another reason than
  a port in use.
