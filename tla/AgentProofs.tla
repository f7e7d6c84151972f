---------------------------- MODULE AgentProofs ----------------------------
(***************************************************************************)
(* Proofs about the guest agent, for any number of connections, identities *)
(* and key pairs and any retry limits. IInv is the inductive invariant: the *)
(* safety invariants lean on each other (who may touch the port or the wire *)
(* is decided by the guards), so they are proved together.                 *)
(***************************************************************************)
EXTENDS Agent, TLAPS

IInv ==
  /\ TypeOK
  /\ GuardsNest
  /\ PortAccounted
  /\ SingleFlight
  /\ AttestedCredentials
  /\ TasksMatchWire

\* The death of the process, by an error or a kill, leaves every variable typed.
LEMMA ProcessEndsTypeOK ==
  ASSUME TypeOK, ProcessEnds, crashes' \in 0..MaxCrashes
  PROVE  TypeOK'
<1> USE BoundsAssumption DEF BoundsAssumption
<1>1. /\ agent' \in Phase
      /\ tries' \in 0..HandshakeRetries
      /\ attempts' \in 0..BindRetries
  BY DEF ProcessEnds, Phase
<1>2. port' \in {"free", "listener", "stream", "linger", "other"}
  <2>1. CASE port = "listener"
    BY <2>1 DEF ProcessEnds
  <2>2. CASE port = "stream"
    BY <2>2 DEF ProcessEnds
  <2>3. CASE port \notin {"listener", "stream"}
    BY <2>3 DEF ProcessEnds, TypeOK
  <2>4. QED
    BY <2>1, <2>2, <2>3
<1>3. /\ listener' \in BOOLEAN
      /\ workloads' \in SUBSET Identity
      /\ cache' \in [Identity -> Cred \cup {None}]
      /\ fresh' \in SUBSET Identity
      /\ api' \in {"down", "up", "failed"}
  BY DEF ProcessEnds
<1>4. /\ workloadsLock' \in Conn \cup {None}
      /\ cacheLock' \in Conn \cup {None}
      /\ dialLock' \in Conn \cup {None}
  BY DEF ProcessEnds
<1>5. /\ pc' \in [Conn -> Location]
      /\ who' \in [Conn -> Identity \cup {None}]
      /\ key' \in [Conn -> KeyPair \cup {None}]
      /\ cred' \in [Conn -> Cred \cup {None}]
      /\ reply' \in [Conn -> {"none", "refused", "closed", "credentials"}]
  BY DEF ProcessEnds, Location
<1>6. /\ link' \in {"none", "sent", "answered", "broken"}
      /\ request' \in Request \cup {None}
      /\ response' \in Response \cup {None}
  BY DEF ProcessEnds
<1>7. QED
  BY <1>1, <1>2, <1>3, <1>4, <1>5, <1>6 DEF TypeOK

\* Every step keeps the types. That a dial's identity and key are not None, and a
\* response of the type its status says, needs the other parts of IInv.
LEMMA TypeOKStep ==
  ASSUME IInv, [Next]_vars
  PROVE  TypeOK'
<1> USE NoneAssumption, BoundsAssumption, NoCredAssumption
    DEF NoneAssumption, BoundsAssumption, NoCredAssumption, IInv, vars, boot,
     guards, tasks, wire, TypeOK, TasksMatchWire, AttestedCredentials, Phase,
     Booting, Location, HoldsWorkloads, HoldsCache, Dialing, Request,
     Handshake, CertRequest, Response, HandshakeOk, CertOk, ErrorResponse,
     Cred
<1>1. CASE Boot
  <2>1. CASE BootBindBusy
    BY <2>1 DEF BootBindBusy, Retry
  <2>2. CASE BootDialOk
    BY <2>2 DEF BootDialOk, OpenLink
  <2>3. CASE BootDialRetry
    BY <2>3 DEF BootDialRetry, BootDialFailed
  <2>4. CASE BootDialGivesUp
    <3>1. crashes' \in 0..MaxCrashes
      BY <2>4 DEF BootDialGivesUp
    <3>2. QED
      BY <2>4, <3>1, ProcessEndsTypeOK DEF BootDialGivesUp
  <2>5. CASE HandshakeAccepted
    BY <2>5 DEF HandshakeAccepted, CloseLink
  <2>6. CASE HandshakeFailed
    <3>1. crashes' \in 0..MaxCrashes
      BY <2>6 DEF HandshakeFailed
    <3>2. QED
      BY <2>6, <3>1, ProcessEndsTypeOK DEF HandshakeFailed
  <2>7. CASE SecureBusy
    BY <2>7 DEF SecureBusy, Retry
  <2>8. CASE SecurePort
    BY <2>8 DEF SecurePort
  <2>9. CASE SecureGivesUp
    <3>1. crashes' \in 0..MaxCrashes
      BY <2>9 DEF SecureGivesUp
    <3>2. QED
      BY <2>9, <3>1, ProcessEndsTypeOK DEF SecureGivesUp
  <2>10. QED
    BY <1>1, <2>1, <2>2, <2>3, <2>4, <2>5, <2>6, <2>7, <2>8, <2>9 DEF Boot
<1>2. CASE StartApi
  BY <1>2 DEF StartApi
<1>3. CASE MainLoopSleeps
  BY <1>3 DEF MainLoopSleeps
<1>4. ASSUME NEW c \in Conn, Task(c)
      PROVE  TypeOK'
  <2>1. CASE Accept(c)
    BY <2>1 DEF Accept
  <2>2. CASE Match(c)
    BY <2>2 DEF Match
  <2>3. CASE MatchNone(c)
    BY <2>3 DEF MatchNone, Finish, Dropped
  <2>4. CASE ReadFetch(c)
    BY <2>4 DEF ReadFetch
  <2>5. CASE ReadOther(c)
    BY <2>5 DEF ReadOther, Finish, Dropped
  <2>6. CASE CacheHit(c)
    BY <2>6 DEF CacheHit, Usable
  <2>7. CASE CacheMiss(c)
    BY <2>7 DEF CacheMiss, Usable
  <2>8. CASE TakeDial(c)
    <3>1. port' \in {"free", "listener", "stream", "linger", "other"}
      <4>1. CASE listener
        BY <2>8, <4>1 DEF TakeDial
      <4>2. CASE ~listener
        BY <2>8, <4>2 DEF TakeDial
      <4>3. QED
        BY <4>1, <4>2
    <3>2. pc' \in [Conn -> Location]
      BY <2>8 DEF TakeDial
    <3>3. attempts' \in 0..BindRetries
      BY <2>8 DEF TakeDial
    <3>4. listener' \in BOOLEAN
      BY <2>8 DEF TakeDial
    <3>5. QED
      BY <2>8, <3>1, <3>2, <3>3, <3>4 DEF TakeDial
  <2>9. CASE DialBusy(c)
    BY <2>9 DEF DialBusy, Retry
  <2>10. CASE DialOk(c)
    <3>1. who[c] \in Identity /\ key[c] \in KeyPair
      BY <2>10 DEF DialOk
    <3>2. request' \in Request
      BY <2>10, <3>1 DEF DialOk, OpenLink
    <3>3. QED
      BY <2>10, <3>2 DEF DialOk, OpenLink
  <2>11. CASE DialFails(c)
    BY <2>11 DEF DialFails, Finish, Dropped
  <2>12. CASE ExchangeFails(c)
    BY <2>12 DEF ExchangeFails, CloseLink, Finish, Dropped
  <2>13. CASE Receive(c)
    BY <2>13 DEF Receive, CloseLink, Issued
  <2>14. CASE RebindBusy(c)
    BY <2>14 DEF RebindBusy, Retry
  <2>15. CASE RebindGivesUp(c)
    BY <2>15 DEF RebindGivesUp, Finish, Dropped
  <2>16. CASE RebindIssued(c)
    <3>1. who[c] \in Identity /\ cred[c] \in Cred
      BY <2>16 DEF RebindIssued
    <3>2. /\ cache' \in [Identity -> Cred \cup {None}]
          /\ fresh' \in SUBSET Identity
          /\ key' \in [Conn -> KeyPair \cup {None}]
      BY <2>16, <3>1 DEF RebindIssued
    <3>3. QED
      BY <2>16, <3>2 DEF RebindIssued, Dropped
  <2>17. CASE RebindRejected(c)
    BY <2>17 DEF RebindRejected, Finish, Dropped
  <2>18. CASE Reply(c)
    BY <2>18 DEF Reply, Finish, Dropped
  <2>19. QED
    BY <1>4, <2>1, <2>2, <2>3, <2>4, <2>5, <2>6, <2>7, <2>8, <2>9, <2>10,
       <2>11, <2>12, <2>13, <2>14, <2>15, <2>16, <2>17, <2>18 DEF Task, Attest, Read, Fetch
<1>5. CASE Environment
  <2>1. CASE HostAnswers
    BY <2>1 DEF HostAnswers
  <2>2. CASE LinkBreaks
    BY <2>2 DEF LinkBreaks
  <2>3. CASE LingerEnds
    BY <2>3 DEF LingerEnds
  <2>4. CASE OtherBinds
    BY <2>4 DEF OtherBinds
  <2>5. CASE OtherReleases
    BY <2>5 DEF OtherReleases
  <2>6. CASE Ages
    BY <2>6 DEF Ages
  <2>7. QED
    BY <1>5, <2>1, <2>2, <2>3, <2>4, <2>5, <2>6 DEF Environment, Host
<1>6. CASE Crash
  <2>1. crashes' \in 0..MaxCrashes
    BY <1>6 DEF Crash
  <2>2. QED
    BY <1>6, <2>1, ProcessEndsTypeOK DEF Crash
<1>7. CASE Restart
  BY <1>7 DEF Restart
<1>8. CASE UNCHANGED vars
  BY <1>8
<1>9. QED
  BY <1>1, <1>2, <1>3, <1>4, <1>5, <1>6, <1>7, <1>8 DEF Next

\* A guard is taken under the guard outside it and dropped with its scope.
LEMMA GuardsNestStep ==
  ASSUME IInv, [Next]_vars
  PROVE  GuardsNest'
<1> USE NoneAssumption, BoundsAssumption, NoCredAssumption
    DEF NoneAssumption, BoundsAssumption, NoCredAssumption, IInv, vars, boot,
     guards, tasks, wire, TypeOK, GuardsNest, Location, HoldsWorkloads,
     HoldsCache, Dialing
<1>1. CASE Boot
  <2>1. CASE BootBindBusy \/ BootDialOk \/ BootDialRetry \/
            HandshakeAccepted \/ SecureBusy \/ SecurePort
    BY <2>1 DEF BootBindBusy, Retry, BootDialOk, OpenLink, BootDialRetry,
       BootDialFailed, HandshakeAccepted, CloseLink, SecureBusy, SecurePort
  <2>2. CASE BootDialGivesUp
    BY <2>2 DEF BootDialGivesUp, BootDialFailed, ProcessEnds
  <2>3. CASE HandshakeFailed
    BY <2>3 DEF HandshakeFailed, ProcessEnds
  <2>4. CASE SecureGivesUp
    BY <2>4 DEF SecureGivesUp, ProcessEnds
  <2>5. QED
    BY <1>1, <2>1, <2>2, <2>3, <2>4 DEF Boot
<1>2. CASE StartApi
  BY <1>2 DEF StartApi
<1>3. CASE MainLoopSleeps
  BY <1>3 DEF MainLoopSleeps
<1>4. ASSUME NEW c \in Conn, Task(c)
      PROVE  GuardsNest'
  <2>1. CASE DialBusy(c) \/ RebindBusy(c)
    BY <2>1 DEF DialBusy, Retry, RebindBusy
  <2>2. CASE Accept(c)
    BY <2>2 DEF Accept
  <2>3. CASE Match(c)
    BY <2>3 DEF Match
  <2>4. CASE MatchNone(c)
    BY <2>4 DEF MatchNone, Finish, Dropped
  <2>5. CASE ReadFetch(c)
    BY <2>5 DEF ReadFetch
  <2>6. CASE ReadOther(c)
    BY <2>6 DEF ReadOther, Finish, Dropped
  <2>7. CASE CacheHit(c)
    BY <2>7 DEF CacheHit, Usable
  <2>8. CASE CacheMiss(c)
    BY <2>8 DEF CacheMiss, Usable
  <2>9. CASE TakeDial(c)
    BY <2>9 DEF TakeDial
  <2>10. CASE DialOk(c)
    BY <2>10 DEF DialOk, OpenLink
  <2>11. CASE DialFails(c)
    BY <2>11 DEF DialFails, Finish, Dropped
  <2>12. CASE ExchangeFails(c)
    BY <2>12 DEF ExchangeFails, CloseLink, Finish, Dropped
  <2>13. CASE Receive(c)
    BY <2>13 DEF Receive, CloseLink, Issued
  <2>14. CASE RebindGivesUp(c)
    BY <2>14 DEF RebindGivesUp, Finish, Dropped
  <2>15. CASE RebindIssued(c)
    BY <2>15 DEF RebindIssued, Dropped
  <2>16. CASE RebindRejected(c)
    BY <2>16 DEF RebindRejected, Finish, Dropped
  <2>17. CASE Reply(c)
    BY <2>17 DEF Reply, Finish, Dropped
  <2>18. QED
    BY <1>4, <2>1, <2>2, <2>3, <2>4, <2>5, <2>6, <2>7, <2>8, <2>9, <2>10,
       <2>11, <2>12, <2>13, <2>14, <2>15, <2>16, <2>17 DEF Task, Attest, Read, Fetch
<1>5. CASE Environment
  <2>1. CASE HostAnswers \/ LinkBreaks \/ LingerEnds \/ OtherBinds \/
            OtherReleases \/ Ages
    BY <2>1 DEF HostAnswers, LinkBreaks, LingerEnds, OtherBinds,
       OtherReleases, Ages
  <2>2. QED
    BY <1>5, <2>1 DEF Environment, Host
<1>6. CASE Crash
  BY <1>6 DEF Crash, ProcessEnds
<1>7. CASE Restart
  BY <1>7 DEF Restart
<1>8. CASE UNCHANGED vars
  BY <1>8
<1>9. QED
  BY <1>1, <1>2, <1>3, <1>4, <1>5, <1>6, <1>7, <1>8 DEF Next

\* Only the task that holds dial_mutex, or the boot, moves the port.
LEMMA PortAccountedStep ==
  ASSUME IInv, [Next]_vars
  PROVE  PortAccounted'
<1> USE NoneAssumption, BoundsAssumption, NoCredAssumption
    DEF NoneAssumption, BoundsAssumption, NoCredAssumption, IInv, vars, boot,
     guards, tasks, wire, TypeOK, GuardsNest, TasksMatchWire, PortAccounted,
     Phase, Booting, Location, HoldsWorkloads, HoldsCache, Dialing
<1>1. CASE Boot
  <2>1. CASE BootBindBusy \/ BootDialRetry \/ SecureBusy
    BY <2>1 DEF BootBindBusy, Retry, BootDialRetry, BootDialFailed, SecureBusy
  <2>2. CASE BootDialOk
    BY <2>2 DEF BootDialOk, OpenLink
  <2>3. CASE BootDialGivesUp
    BY <2>3 DEF BootDialGivesUp, BootDialFailed, ProcessEnds
  <2>4. CASE HandshakeAccepted
    BY <2>4 DEF HandshakeAccepted, CloseLink
  <2>5. CASE HandshakeFailed
    BY <2>5 DEF HandshakeFailed, ProcessEnds
  <2>6. CASE SecurePort
    BY <2>6 DEF SecurePort
  <2>7. CASE SecureGivesUp
    BY <2>7 DEF SecureGivesUp, ProcessEnds
  <2>8. QED
    BY <1>1, <2>1, <2>2, <2>3, <2>4, <2>5, <2>6, <2>7 DEF Boot
<1>2. CASE StartApi
  BY <1>2 DEF StartApi
<1>3. CASE MainLoopSleeps
  BY <1>3 DEF MainLoopSleeps
<1>4. ASSUME NEW c \in Conn, Task(c)
      PROVE  PortAccounted'
  <2>1. CASE DialBusy(c) \/ RebindBusy(c)
    BY <2>1 DEF DialBusy, Retry, RebindBusy
  <2>2. CASE Accept(c)
    BY <2>2 DEF Accept
  <2>3. CASE Match(c)
    BY <2>3 DEF Match
  <2>4. CASE MatchNone(c)
    BY <2>4 DEF MatchNone, Finish, Dropped
  <2>5. CASE ReadFetch(c)
    BY <2>5 DEF ReadFetch
  <2>6. CASE ReadOther(c)
    BY <2>6 DEF ReadOther, Finish, Dropped
  <2>7. CASE CacheHit(c)
    BY <2>7 DEF CacheHit, Usable
  <2>8. CASE CacheMiss(c)
    BY <2>8 DEF CacheMiss, Usable
  <2>9. CASE TakeDial(c)
    BY <2>9 DEF TakeDial
  <2>10. CASE DialOk(c)
    BY <2>10 DEF DialOk, OpenLink
  <2>11. CASE DialFails(c)
    BY <2>11 DEF DialFails, Finish, Dropped
  <2>12. CASE ExchangeFails(c)
    BY <2>12 DEF ExchangeFails, CloseLink, Finish, Dropped
  <2>13. CASE Receive(c)
    BY <2>13 DEF Receive, CloseLink, Issued
  <2>14. CASE RebindGivesUp(c)
    BY <2>14 DEF RebindGivesUp, Finish, Dropped
  <2>15. CASE RebindIssued(c)
    BY <2>15 DEF RebindIssued, Dropped
  <2>16. CASE RebindRejected(c)
    BY <2>16 DEF RebindRejected, Finish, Dropped
  <2>17. CASE Reply(c)
    BY <2>17 DEF Reply, Finish, Dropped
  <2>18. QED
    BY <1>4, <2>1, <2>2, <2>3, <2>4, <2>5, <2>6, <2>7, <2>8, <2>9, <2>10,
       <2>11, <2>12, <2>13, <2>14, <2>15, <2>16, <2>17 DEF Task, Attest, Read, Fetch
<1>5. CASE Environment
  <2>1. CASE Ages
    BY <2>1 DEF Ages
  <2>2. CASE HostAnswers
    BY <2>2 DEF HostAnswers
  <2>3. CASE LinkBreaks
    BY <2>3 DEF LinkBreaks
  <2>4. CASE LingerEnds
    BY <2>4 DEF LingerEnds
  <2>5. CASE OtherBinds
    BY <2>5 DEF OtherBinds
  <2>6. CASE OtherReleases
    BY <2>6 DEF OtherReleases
  <2>7. QED
    BY <1>5, <2>1, <2>2, <2>3, <2>4, <2>5, <2>6 DEF Environment, Host
<1>6. CASE Crash
  BY <1>6 DEF Crash, ProcessEnds
<1>7. CASE Restart
  BY <1>7 DEF Restart
<1>8. CASE UNCHANGED vars
  BY <1>8
<1>9. QED
  BY <1>1, <1>2, <1>3, <1>4, <1>5, <1>6, <1>7, <1>8 DEF Next

\* An identity becomes fresh only as the task that dialed for it drops the cache
\* guard, so no other task is past its lookup then.
LEMMA SingleFlightStep ==
  ASSUME IInv, [Next]_vars
  PROVE  SingleFlight'
<1> USE NoneAssumption, BoundsAssumption, NoCredAssumption
    DEF NoneAssumption, BoundsAssumption, NoCredAssumption, IInv, vars, boot,
     guards, tasks, wire, TypeOK, GuardsNest, TasksMatchWire, SingleFlight,
     Location, HoldsWorkloads, HoldsCache, Dialing
<1>1. CASE Boot
  <2>1. CASE BootBindBusy \/ BootDialOk \/ BootDialRetry \/
            HandshakeAccepted \/ SecureBusy \/ SecurePort
    BY <2>1 DEF BootBindBusy, Retry, BootDialOk, OpenLink, BootDialRetry,
       BootDialFailed, HandshakeAccepted, CloseLink, SecureBusy, SecurePort
  <2>2. CASE BootDialGivesUp
    BY <2>2 DEF BootDialGivesUp, BootDialFailed, ProcessEnds
  <2>3. CASE HandshakeFailed
    BY <2>3 DEF HandshakeFailed, ProcessEnds
  <2>4. CASE SecureGivesUp
    BY <2>4 DEF SecureGivesUp, ProcessEnds
  <2>5. QED
    BY <1>1, <2>1, <2>2, <2>3, <2>4 DEF Boot
<1>2. CASE StartApi
  BY <1>2 DEF StartApi
<1>3. CASE MainLoopSleeps
  BY <1>3 DEF MainLoopSleeps
<1>4. ASSUME NEW c \in Conn, Task(c)
      PROVE  SingleFlight'
  <2>1. CASE DialBusy(c) \/ RebindBusy(c)
    BY <2>1 DEF DialBusy, Retry, RebindBusy
  <2>2. CASE Accept(c)
    BY <2>2 DEF Accept
  <2>3. CASE Match(c)
    BY <2>3 DEF Match
  <2>4. CASE MatchNone(c)
    BY <2>4 DEF MatchNone, Finish, Dropped
  <2>5. CASE ReadFetch(c)
    BY <2>5 DEF ReadFetch
  <2>6. CASE ReadOther(c)
    BY <2>6 DEF ReadOther, Finish, Dropped
  <2>7. CASE CacheHit(c)
    BY <2>7 DEF CacheHit, Usable
  <2>8. CASE CacheMiss(c)
    BY <2>8 DEF CacheMiss, Usable
  <2>9. CASE TakeDial(c)
    BY <2>9 DEF TakeDial
  <2>10. CASE DialOk(c)
    BY <2>10 DEF DialOk, OpenLink
  <2>11. CASE DialFails(c)
    BY <2>11 DEF DialFails, Finish, Dropped
  <2>12. CASE ExchangeFails(c)
    BY <2>12 DEF ExchangeFails, CloseLink, Finish, Dropped
  <2>13. CASE Receive(c)
    BY <2>13 DEF Receive, CloseLink, Issued
  <2>14. CASE RebindGivesUp(c)
    BY <2>14 DEF RebindGivesUp, Finish, Dropped
  <2>15. CASE RebindIssued(c)
    BY <2>15 DEF RebindIssued, Dropped
  <2>16. CASE RebindRejected(c)
    BY <2>16 DEF RebindRejected, Finish, Dropped
  <2>17. CASE Reply(c)
    BY <2>17 DEF Reply, Finish, Dropped
  <2>18. QED
    BY <1>4, <2>1, <2>2, <2>3, <2>4, <2>5, <2>6, <2>7, <2>8, <2>9, <2>10,
       <2>11, <2>12, <2>13, <2>14, <2>15, <2>16, <2>17 DEF Task, Attest, Read, Fetch
<1>5. CASE Environment
  <2>1. CASE HostAnswers \/ LinkBreaks \/ LingerEnds \/ OtherBinds \/
            OtherReleases
    BY <2>1 DEF HostAnswers, LinkBreaks, LingerEnds, OtherBinds, OtherReleases
  <2>2. CASE Ages
    BY <2>2 DEF Ages
  <2>3. QED
    BY <1>5, <2>1, <2>2 DEF Environment, Host
<1>6. CASE Crash
  BY <1>6 DEF Crash, ProcessEnds
<1>7. CASE Restart
  BY <1>7 DEF Restart
<1>8. CASE UNCHANGED vars
  BY <1>8
<1>9. QED
  BY <1>1, <1>2, <1>3, <1>4, <1>5, <1>6, <1>7, <1>8 DEF Next

\* The workload table changes only before the agent serves, when it caches
\* nothing; a credential is made of a response to the task's own request.
LEMMA AttestedCredentialsStep ==
  ASSUME IInv, [Next]_vars
  PROVE  AttestedCredentials'
<1> USE NoneAssumption, BoundsAssumption, NoCredAssumption
    DEF NoneAssumption, BoundsAssumption, NoCredAssumption, IInv, vars, boot,
     guards, tasks, wire, TypeOK, GuardsNest, TasksMatchWire,
     AttestedCredentials, Cred, ErrorResponse, CertOk, Location,
     HoldsWorkloads, HoldsCache, Dialing
<1>1. CASE Boot
  <2>1. CASE BootBindBusy \/ BootDialOk \/ BootDialRetry \/ SecureBusy \/
            SecurePort
    BY <2>1 DEF BootBindBusy, Retry, BootDialOk, OpenLink, BootDialRetry,
       BootDialFailed, SecureBusy, SecurePort
  <2>2. CASE BootDialGivesUp
    BY <2>2 DEF BootDialGivesUp, BootDialFailed, ProcessEnds
  <2>3. CASE HandshakeAccepted
    BY <2>3 DEF HandshakeAccepted, CloseLink
  <2>4. CASE HandshakeFailed
    BY <2>4 DEF HandshakeFailed, ProcessEnds
  <2>5. CASE SecureGivesUp
    BY <2>5 DEF SecureGivesUp, ProcessEnds
  <2>6. QED
    BY <1>1, <2>1, <2>2, <2>3, <2>4, <2>5 DEF Boot
<1>2. CASE StartApi
  BY <1>2 DEF StartApi
<1>3. CASE MainLoopSleeps
  BY <1>3 DEF MainLoopSleeps
<1>4. ASSUME NEW c \in Conn, Task(c)
      PROVE  AttestedCredentials'
  <2>1. CASE DialBusy(c) \/ RebindBusy(c)
    BY <2>1 DEF DialBusy, Retry, RebindBusy
  <2>2. CASE Accept(c)
    BY <2>2 DEF Accept
  <2>3. CASE Match(c)
    BY <2>3 DEF Match
  <2>4. CASE MatchNone(c)
    BY <2>4 DEF MatchNone, Finish, Dropped
  <2>5. CASE ReadFetch(c)
    BY <2>5 DEF ReadFetch
  <2>6. CASE ReadOther(c)
    BY <2>6 DEF ReadOther, Finish, Dropped
  <2>7. CASE CacheHit(c)
    BY <2>7 DEF CacheHit, Usable
  <2>8. CASE CacheMiss(c)
    BY <2>8 DEF CacheMiss, Usable
  <2>9. CASE TakeDial(c)
    BY <2>9 DEF TakeDial
  <2>10. CASE DialOk(c)
    BY <2>10 DEF DialOk, OpenLink
  <2>11. CASE DialFails(c)
    BY <2>11 DEF DialFails, Finish, Dropped
  <2>12. CASE ExchangeFails(c)
    BY <2>12 DEF ExchangeFails, CloseLink, Finish, Dropped
  <2>13. CASE Receive(c)
    BY <2>13 DEF Receive, CloseLink, Issued
  <2>14. CASE RebindGivesUp(c)
    BY <2>14 DEF RebindGivesUp, Finish, Dropped
  <2>15. CASE RebindIssued(c)
    BY <2>15 DEF RebindIssued, Dropped
  <2>16. CASE RebindRejected(c)
    BY <2>16 DEF RebindRejected, Finish, Dropped
  <2>17. CASE Reply(c)
    BY <2>17 DEF Reply, Finish, Dropped
  <2>18. QED
    BY <1>4, <2>1, <2>2, <2>3, <2>4, <2>5, <2>6, <2>7, <2>8, <2>9, <2>10,
       <2>11, <2>12, <2>13, <2>14, <2>15, <2>16, <2>17 DEF Task, Attest, Read, Fetch
<1>5. CASE Environment
  <2>1. CASE HostAnswers \/ LinkBreaks \/ LingerEnds \/ OtherBinds \/
            OtherReleases
    BY <2>1 DEF HostAnswers, LinkBreaks, LingerEnds, OtherBinds, OtherReleases
  <2>2. CASE Ages
    BY <2>2 DEF Ages
  <2>3. QED
    BY <1>5, <2>1, <2>2 DEF Environment, Host
<1>6. CASE Crash
  BY <1>6 DEF Crash, ProcessEnds
<1>7. CASE Restart
  BY <1>7 DEF Restart
<1>8. CASE UNCHANGED vars
  BY <1>8
<1>9. QED
  BY <1>1, <1>2, <1>3, <1>4, <1>5, <1>6, <1>7, <1>8 DEF Next

\* The one link belongs to the one task that dials, and the host answers what
\* that task asked.
LEMMA TasksMatchWireStep ==
  ASSUME IInv, [Next]_vars
  PROVE  TasksMatchWire'
<1> USE NoneAssumption, BoundsAssumption, NoCredAssumption
    DEF NoneAssumption, BoundsAssumption, NoCredAssumption, IInv, vars, boot,
     guards, tasks, wire, TypeOK, GuardsNest, TasksMatchWire, PortAccounted,
     Phase, Booting, Location, HoldsWorkloads, HoldsCache, Dialing, Request,
     Handshake, CertRequest, Response, HandshakeOk, CertOk, ErrorResponse
<1>1. CASE Boot
  <2>1. CASE BootBindBusy \/ BootDialRetry \/ SecureBusy
    BY <2>1 DEF BootBindBusy, Retry, BootDialRetry, BootDialFailed, SecureBusy
  <2>2. CASE BootDialOk
    <3>1. request' \in Request
      BY <2>2 DEF BootDialOk, OpenLink
    <3>2. \A c \in Conn : pc[c] # "awaiting"
      BY <2>2 DEF BootDialOk
    <3>3. QED
      BY <2>2, <3>1, <3>2 DEF BootDialOk, OpenLink
  <2>3. CASE BootDialGivesUp
    BY <2>3 DEF BootDialGivesUp, BootDialFailed, ProcessEnds
  <2>4. CASE HandshakeAccepted
    BY <2>4 DEF HandshakeAccepted, CloseLink
  <2>5. CASE HandshakeFailed
    BY <2>5 DEF HandshakeFailed, ProcessEnds
  <2>6. CASE SecurePort
    BY <2>6 DEF SecurePort
  <2>7. CASE SecureGivesUp
    BY <2>7 DEF SecureGivesUp, ProcessEnds
  <2>8. QED
    BY <1>1, <2>1, <2>2, <2>3, <2>4, <2>5, <2>6, <2>7 DEF Boot
<1>2. CASE StartApi
  BY <1>2 DEF StartApi
<1>3. CASE MainLoopSleeps
  BY <1>3 DEF MainLoopSleeps
<1>4. ASSUME NEW c \in Conn, Task(c)
      PROVE  TasksMatchWire'
  <2>1. CASE DialBusy(c) \/ RebindBusy(c)
    BY <2>1 DEF DialBusy, Retry, RebindBusy
  <2>2. CASE Accept(c)
    BY <2>2 DEF Accept
  <2>3. CASE Match(c)
    BY <2>3 DEF Match
  <2>4. CASE MatchNone(c)
    BY <2>4 DEF MatchNone, Finish, Dropped
  <2>5. CASE ReadFetch(c)
    BY <2>5 DEF ReadFetch
  <2>6. CASE ReadOther(c)
    BY <2>6 DEF ReadOther, Finish, Dropped
  <2>7. CASE CacheHit(c)
    BY <2>7 DEF CacheHit, Usable
  <2>8. CASE CacheMiss(c)
    BY <2>8 DEF CacheMiss, Usable
  <2>9. CASE TakeDial(c)
    BY <2>9 DEF TakeDial
  <2>10. CASE DialOk(c)
    <3>1. who[c] \in Identity /\ key[c] \in KeyPair
      BY <2>10 DEF DialOk, AttestedCredentials
    <3>2. request' \in Request
      BY <2>10, <3>1 DEF DialOk, OpenLink
    <3>3. \A d \in Conn : pc'[d] = "awaiting" => d = c
      BY <2>10 DEF DialOk
    <3>4. agent = "serving" /\ key[c] # None
      BY <2>10 DEF DialOk
    <3>5. QED
      BY <2>10, <3>2, <3>3, <3>4 DEF DialOk, OpenLink
  <2>11. CASE DialFails(c)
    BY <2>11 DEF DialFails, Finish, Dropped
  <2>12. CASE ExchangeFails(c)
    BY <2>12 DEF ExchangeFails, CloseLink, Finish, Dropped
  <2>13. CASE Receive(c)
    BY <2>13 DEF Receive, CloseLink, Issued
  <2>14. CASE RebindGivesUp(c)
    BY <2>14 DEF RebindGivesUp, Finish, Dropped
  <2>15. CASE RebindIssued(c)
    BY <2>15 DEF RebindIssued, Dropped
  <2>16. CASE RebindRejected(c)
    BY <2>16 DEF RebindRejected, Finish, Dropped
  <2>17. CASE Reply(c)
    BY <2>17 DEF Reply, Finish, Dropped
  <2>18. QED
    BY <1>4, <2>1, <2>2, <2>3, <2>4, <2>5, <2>6, <2>7, <2>8, <2>9, <2>10,
       <2>11, <2>12, <2>13, <2>14, <2>15, <2>16, <2>17 DEF Task, Attest, Read, Fetch
<1>5. CASE Environment
  <2>1. CASE LingerEnds \/ OtherBinds \/ OtherReleases
    BY <2>1 DEF LingerEnds, OtherBinds, OtherReleases
  <2>2. CASE HostAnswers
    <3>1. request \in Request
      BY <2>2 DEF HostAnswers
    <3>2. CASE request.type = "handshake"
      <4>1. response' \in Response
        BY <2>2, <3>2 DEF HostAnswers
      <4>2. \A c \in Conn : pc[c] # "awaiting"
        BY <2>2, <3>2
      <4>3. QED
        BY <2>2, <4>1, <4>2 DEF HostAnswers
    <3>3. CASE request.type = "cert_request"
      <4>1. response' \in {ErrorResponse, CertOk(request.identity, request.pub)}
        BY <2>2, <3>3 DEF HostAnswers
      <4>2. request.identity \in Identity /\ request.pub \in KeyPair
        BY <3>1, <3>3
      <4>3. response' \in Response
        BY <4>1, <4>2
      <4>4. QED
        BY <2>2, <4>1, <4>3 DEF HostAnswers
    <3>4. QED
      BY <3>1, <3>2, <3>3
  <2>3. CASE LinkBreaks
    BY <2>3 DEF LinkBreaks
  <2>4. CASE Ages
    BY <2>4 DEF Ages
  <2>5. QED
    BY <1>5, <2>1, <2>2, <2>3, <2>4 DEF Environment, Host
<1>6. CASE Crash
  BY <1>6 DEF Crash, ProcessEnds
<1>7. CASE Restart
  BY <1>7 DEF Restart
<1>8. CASE UNCHANGED vars
  BY <1>8
<1>9. QED
  BY <1>1, <1>2, <1>3, <1>4, <1>5, <1>6, <1>7, <1>8 DEF Next

\* The initial states satisfy the inductive invariant.
LEMMA InitIInv == Init => IInv
<1> USE NoneAssumption, BoundsAssumption, NoCredAssumption
    DEF NoneAssumption, BoundsAssumption, NoCredAssumption, Init, Phase,
        Booting, Location, HoldsWorkloads, HoldsCache, Dialing
<1> SUFFICES ASSUME Init PROVE IInv
  OBVIOUS
<1>1. TypeOK
  <2>1. /\ tries \in 0..HandshakeRetries
        /\ attempts \in 0..BindRetries
        /\ crashes \in 0..MaxCrashes
    OBVIOUS
  <2>2. listener \in BOOLEAN
    OBVIOUS
  <2>3. QED
    BY <2>1, <2>2 DEF TypeOK
<1>2. GuardsNest /\ PortAccounted /\ SingleFlight
  BY DEF GuardsNest, PortAccounted, SingleFlight
<1>3. AttestedCredentials /\ TasksMatchWire
  BY DEF AttestedCredentials, TasksMatchWire
<1>4. QED
  BY <1>1, <1>2, <1>3 DEF IInv

\* The inductive invariant holds in every reachable state of the agent.
THEOREM IInvAlways == Spec => []IInv
<1>1. IInv /\ [Next]_vars => IInv'
  BY TypeOKStep, GuardsNestStep, PortAccountedStep, SingleFlightStep,
     AttestedCredentialsStep, TasksMatchWireStep DEF IInv
<1>2. QED
  BY InitIInv, <1>1, PTL DEF Spec

\* Type correctness: the agent's state, its tasks and the messages on its link
\* keep the types of AgentState and of the wire protocol.
THEOREM TypeCorrect == Spec => []TypeOK
<1>1. IInv => TypeOK
  BY DEF IInv
<1>2. QED
  BY <1>1, IInvAlways, PTL

\* The three mutexes of the Workload API nest as their scopes do, on every path
\* out of handle_workload_conn, however many connections there are.
THEOREM GuardsAlwaysNest == Spec => []GuardsNest
<1>1. IInv => GuardsNest
  BY DEF IInv
<1>2. QED
  BY <1>1, IInvAlways, PTL

\* AgentState.listener and the kernel agree on the client port, and a stream has
\* it exactly while one exchange with the host is under way.
THEOREM PortAlwaysAccounted == Spec => []PortAccounted
<1>1. IInv => PortAccounted
  BY DEF IInv
<1>2. QED
  BY <1>1, IInvAlways, PTL

\* No certificate is requested for an identity whose cached one is still fresh.
THEOREM AlwaysSingleFlight == Spec => []SingleFlight
<1>1. IInv => SingleFlight
  BY DEF IInv
<1>2. QED
  BY <1>1, IInvAlways, PTL

\* What the agent caches and hands out is for the attested identity, and the
\* certificate and the private key belong together.
THEOREM CredentialsAlwaysAttested == Spec => []AttestedCredentials
<1>1. IInv => AttestedCredentials
  BY DEF IInv
<1>2. QED
  BY <1>1, IInvAlways, PTL

\* The response request_cert_on_demand reads answers the request it wrote, and an
\* agent that does not serve yet has neither tasks nor cached credentials.
THEOREM RequestsAlwaysMatched == Spec => []TasksMatchWire
<1>1. IInv => TasksMatchWire
  BY DEF IInv
<1>2. QED
  BY <1>1, IInvAlways, PTL

\* request_cert_on_demand restores the listener before it caches: a credential
\* enters the cache in a step that leaves the listener bound.
THEOREM CachedOnlyWithListener == Spec => CachedOnlySecured
<1> DEFINE Enters == \A i \in Identity :
             cache'[i] # None /\ cache'[i] # cache[i] => listener' /\ agent = "serving"
<1>1. ASSUME IInv, [Next]_vars PROVE Enters \/ UNCHANGED vars
  <2> USE <1>1 DEF IInv, vars, boot, guards, tasks, wire
  <2>1. CASE cache' = cache
    BY <2>1
  <2>2. CASE ProcessEnds
    BY <2>2 DEF ProcessEnds
  <2>3. ASSUME NEW c \in Conn, RebindIssued(c) PROVE Enters
    <3>1. agent = "serving"
      BY <2>3 DEF RebindIssued, TasksMatchWire
    <3>2. listener'
      BY <2>3 DEF RebindIssued
    <3>3. QED
      BY <3>1, <3>2
  <2>4. cache' = cache \/ ProcessEnds \/ \E c \in Conn : RebindIssued(c)
    <3>1. CASE Boot
      BY <3>1 DEF Boot, BootBindBusy, BootDialOk, BootDialRetry, BootDialGivesUp,
         HandshakeAccepted, HandshakeFailed, SecureBusy, SecurePort, SecureGivesUp
    <3>2. ASSUME NEW c \in Conn, Task(c), ~RebindIssued(c)
          PROVE  cache' = cache
      BY <3>2 DEF Task, Accept, Attest, Match, MatchNone, Read, ReadFetch,
         ReadOther, Fetch, CacheHit, CacheMiss, TakeDial, DialBusy, DialOk,
         DialFails, ExchangeFails, Receive, RebindBusy, RebindGivesUp,
         RebindRejected, Reply
    <3>3. CASE Environment
      BY <3>3 DEF Environment, Host, HostAnswers, LinkBreaks, LingerEnds,
         OtherBinds, OtherReleases, Ages
    <3>4. CASE StartApi \/ MainLoopSleeps \/ Restart \/ UNCHANGED vars
      BY <3>4 DEF StartApi, MainLoopSleeps, Restart
    <3>5. CASE Crash
      BY <3>5 DEF Crash
    <3>6. QED
      BY <3>1, <3>2, <3>3, <3>4, <3>5 DEF Next
  <2>5. QED
    BY <2>1, <2>2, <2>3, <2>4
<1>2. QED
  BY <1>1, IInvAlways, PTL DEF Spec, CachedOnlySecured
-----------------------------------------------------------------------------
(***************************************************************************)
(* The agent implements CredentialService: the mutexes, the port and the   *)
(* dial of Agent are invisible to its clients, for any number of them.     *)
(***************************************************************************)

(***************************************************************************)
(* Beside the agent's own invariant the mapping needs that credentials on  *)
(* their way to a client are those of the cache, which only the workloads  *)
(* guard ensures, and that a client that waits has no outcome yet.         *)
(***************************************************************************)
Handing  == \A c \in Conn : pc[c] = "replying" => cred[c] = cache[who[c]]
Waiting  == \A c \in Conn : pc[c] # "idle" => reply[c] = "none"

\* What CredentialService sees of the agent.
Asking  == {c \in Conn : pc[c] # "idle"}
Choice  == [c \in Conn |-> IF pc[c] = "replying" THEN who[c] ELSE None]
Outcome == [c \in Conn |-> CASE reply[c] = "credentials" -> {cred[c]}
                             [] reply[c] = "none"        -> None
                             [] OTHER                    -> {}]

\* A step that moves no client between idle, waiting and replying, gives no outcome
\* and leaves the cache alone is invisible.
LEMMA Invisible ==
  ASSUME TypeOK, TypeOK', UNCHANGED <<cache, fresh, reply>>,
         \A c \in Conn : /\ pc'[c] = "idle" <=> pc[c] = "idle"
                         /\ pc'[c] = "replying" <=> pc[c] = "replying"
                         /\ pc[c] = "replying" => who'[c] = who[c]
                         /\ reply[c] = "credentials" => cred'[c] = cred[c]
  PROVE  UNCHANGED Service!vars
<1>1. Asking' = Asking
  BY DEF Asking
<1>2. Choice' = Choice
  BY DEF Choice
<1>3. Outcome' = Outcome
  BY DEF Outcome
<1> QED BY <1>1, <1>2, <1>3 DEF Service!vars, Asking, Choice, Outcome

\* The end of a task is the end of its client's request.
LEMMA Ended ==
  ASSUME TypeOK, NEW c \in Conn, pc[c] # "idle", NEW r \in {"refused", "closed", "credentials"},
         Finish(c, r), UNCHANGED <<cache, fresh, who>>,
         \A d \in Conn : d # c => cred'[d] = cred[d]
  PROVE  /\ c \in Asking /\ Asking' = Asking \ {c}
         /\ Choice' = [Choice EXCEPT ![c] = None]
         /\ Outcome' = [Outcome EXCEPT ![c] = IF r = "credentials" THEN {cred'[c]} ELSE {}]
<1>1. c \in Asking /\ Asking' = Asking \ {c}
  BY DEF Asking, Finish, TypeOK
<1>2. Choice' = [Choice EXCEPT ![c] = None]
  BY DEF Choice, Finish, TypeOK
<1>3. Outcome' = [Outcome EXCEPT ![c] = IF r = "credentials" THEN {cred'[c]} ELSE {}]
  BY DEF Outcome, Finish, TypeOK
<1> QED BY <1>1, <1>2, <1>3

\* The death of the process resets the service.
LEMMA Died ==
  ASSUME TypeOK, ProcessEnds
  PROVE  Service!Reset
<1>1. Asking' = {}
  BY DEF Asking, ProcessEnds
<1>2. Choice' = [c \in Conn |-> None]
  BY DEF Choice, ProcessEnds
<1>3. Outcome' = [c \in Conn |-> IF c \in Asking THEN {} ELSE None]
  BY DEF Outcome, Asking, ProcessEnds
<1> QED BY <1>1, <1>2, <1>3 DEF Service!Reset, Asking, Choice, Outcome, ProcessEnds

-----------------------------------------------------------------------------
(* The two added invariants.                                               *)

\* Steps outside the tasks keep the cache and the tasks, or end the process.
LEMMA Outside ==
  ASSUME [Next]_vars, \A c \in Conn : ~Task(c), ~ProcessEnds
  PROVE  UNCHANGED <<cache, tasks>> /\ (UNCHANGED fresh \/ Ages)
<1> USE DEF vars, boot, guards, tasks, wire
<1>1. CASE Boot
  BY <1>1 DEF Boot, BootBindBusy, BootDialOk, BootDialRetry, BootDialGivesUp,
     HandshakeAccepted, HandshakeFailed, SecureBusy, SecurePort, SecureGivesUp
<1>2. CASE Environment
  BY <1>2 DEF Environment, Host, HostAnswers, LinkBreaks, LingerEnds, OtherBinds,
     OtherReleases, Ages
<1>3. CASE StartApi \/ MainLoopSleeps \/ Restart \/ UNCHANGED vars
  BY <1>3 DEF StartApi, MainLoopSleeps, Restart
<1>4. CASE Crash
  BY <1>4 DEF Crash
<1> QED BY <1>1, <1>2, <1>3, <1>4 DEF Next

\* A client that waits has no outcome: only the end of its task gives it one.
LEMMA WaitingStep ==
  ASSUME IInv, Waiting, [Next]_vars
  PROVE  Waiting'
<1> USE DEF Waiting, IInv, TypeOK
<1>1. ASSUME NEW c \in Conn, Task(c) PROVE Waiting'
  BY <1>1 DEF tasks, Task, Accept, Attest, Match, MatchNone, Read, ReadFetch,
     ReadOther, Fetch, CacheHit, CacheMiss, TakeDial, DialBusy, DialOk, DialFails,
     ExchangeFails, Receive, RebindBusy, RebindGivesUp, RebindIssued, RebindRejected,
     Reply, Finish
<1>2. CASE ProcessEnds
  BY <1>2 DEF ProcessEnds
<1> QED BY <1>1, <1>2, Outside DEF tasks

\* A task that holds the workloads guard is alone with it.
LEMMA Alone ==
  ASSUME IInv, NEW c \in Conn, NEW d \in Conn,
         pc[c] \in HoldsWorkloads, pc[d] \in HoldsWorkloads
  PROVE  c = d
  BY DEF IInv, GuardsNest

\* While a task replies nobody caches, and a task that caches hands out just that.
LEMMA HandingStep ==
  ASSUME IInv, Handing, [Next]_vars
  PROVE  Handing'
<1> USE DEF Handing
<1>1. ASSUME NEW c \in Conn, RebindIssued(c) PROVE Handing'
  <2>1. who[c] \in Identity
    BY <1>1 DEF RebindIssued, IInv, AttestedCredentials, TypeOK, HoldsWorkloads, HoldsCache, Dialing
  <2>2. \A d \in Conn : pc'[d] = "replying" => d = c
    BY <1>1, Alone DEF RebindIssued, HoldsWorkloads, HoldsCache, Dialing, IInv, TypeOK
  <2> QED BY <1>1, <2>1, <2>2 DEF RebindIssued, IInv, TypeOK
<1>2. ASSUME NEW c \in Conn, CacheHit(c) PROVE Handing'
  BY <1>2 DEF CacheHit, IInv, TypeOK
<1>3. ASSUME NEW c \in Conn, Task(c), ~RebindIssued(c), ~CacheHit(c) PROVE Handing'
  BY <1>3 DEF IInv, TypeOK, tasks, Task, Accept, Attest, Match, MatchNone, Read, ReadFetch,
     ReadOther, Fetch, CacheMiss, TakeDial, DialBusy, DialOk, DialFails,
     ExchangeFails, Receive, RebindBusy, RebindGivesUp, RebindRejected,
     Reply, Finish
<1>4. CASE ProcessEnds
  BY <1>4 DEF ProcessEnds
<1> QED BY <1>1, <1>2, <1>3, <1>4, Outside DEF tasks

-----------------------------------------------------------------------------
(* Each step of the agent is a step of the service, or invisible.          *)

\* A connection is a client that asks.
LEMMA AcceptAsks ==
  ASSUME TypeOK, NEW c \in Conn, Accept(c)
  PROVE  Service!Ask(c)
<1>1. c \notin Asking /\ Asking' = Asking \cup {c}
  BY DEF Asking, Accept, TypeOK
<1>2. Choice' = Choice
  BY DEF Choice, Accept, TypeOK
<1>3. Outcome' = [Outcome EXCEPT ![c] = None]
  BY DEF Outcome, Accept, TypeOK
<1> QED BY <1>1, <1>2, <1>3 DEF Service!Ask, Asking, Choice, Outcome, Accept

\* A cache hit reuses what there is.
LEMMA HitReuses ==
  ASSUME IInv, Waiting, NEW c \in Conn, CacheHit(c)
  PROVE  \E i \in Identity : Service!Reuse(c, i)
<1> USE DEF IInv, TypeOK
<1>1. who[c] \in Identity /\ who[c] \in fresh
  BY DEF CacheHit, Usable
<1>2. c \in Asking /\ Asking' = Asking
  BY DEF Asking, CacheHit
<1>3. Choice[c] = None /\ Choice' = [Choice EXCEPT ![c] = who[c]]
  BY DEF Choice, CacheHit
<1>4. Outcome' = Outcome
  BY DEF Outcome, Waiting, CacheHit
<1>5. PICK i \in Identity : i = who[c]
  BY <1>1
<1>6. Service!Reuse(c, i)
  BY <1>1, <1>2, <1>3, <1>4, <1>5 DEF Service!Reuse, Asking, Choice, Outcome, CacheHit
<1> QED BY <1>6

\* A credential that enters the cache is newly issued, for an identity without a usable one.
LEMMA RebindIssues ==
  ASSUME IInv, Waiting, NEW c \in Conn, RebindIssued(c)
  PROVE  \E i \in Identity : Service!Issue(c, i)
<1> USE DEF IInv, TypeOK
<1>1. pc[c] \in HoldsCache /\ pc[c] \in HoldsWorkloads
  BY DEF RebindIssued, HoldsWorkloads, HoldsCache, Dialing
<1>2. who[c] \in Identity /\ who[c] \notin fresh
  BY <1>1 DEF AttestedCredentials, SingleFlight
<1>3. cred[c] \in {x \in Cred : x.cn = who[c] /\ x.pub = x.key}
  BY DEF RebindIssued, AttestedCredentials
<1>4. cache' = [cache EXCEPT ![who[c]] = cred[c]] /\ fresh' = fresh \cup {who[c]}
  BY DEF RebindIssued
<1>5. c \in Asking /\ Asking' = Asking
  BY DEF Asking, RebindIssued
<1>6. Choice[c] = None /\ Choice' = [Choice EXCEPT ![c] = who[c]]
  BY DEF Choice, RebindIssued
<1>7. Outcome' = Outcome
  BY DEF Outcome, RebindIssued
<1>8. PICK i \in Identity : i = who[c]
  BY <1>2
<1>9. Service!Issue(c, i)
  BY <1>2, <1>3, <1>4, <1>5, <1>6, <1>7, <1>8 DEF Service!Issue, Asking, Choice, Outcome
<1> QED BY <1>9

\* A reply grants the newest credentials, or the client is gone.
LEMMA ReplyEnds ==
  ASSUME IInv, Handing, NEW c \in Conn, Reply(c)
  PROVE  Service!Grant(c) \/ Service!Refuse(c)
<1>1. PICK r \in {"credentials", "closed"} : Finish(c, r)
  BY DEF Reply
<1>2. UNCHANGED <<cache, fresh, who, cred>> /\ pc[c] = "replying"
  BY DEF Reply
<1>3. /\ c \in Asking /\ Asking' = Asking \ {c}
      /\ Choice' = [Choice EXCEPT ![c] = None]
      /\ Outcome' = [Outcome EXCEPT ![c] = IF r = "credentials" THEN {cred'[c]} ELSE {}]
  BY <1>1, <1>2, Ended DEF IInv
<1>4. CASE r = "credentials"
  <2>1. Choice[c] = who[c] /\ who[c] # None
    BY <1>2, NoneAssumption DEF Choice, IInv, AttestedCredentials, HoldsWorkloads, TypeOK
  <2>2. Outcome' = [Outcome EXCEPT ![c] = {cache[Choice[c]]}]
    BY <1>2, <1>3, <1>4, <2>1 DEF Handing
  <2> QED BY <1>2, <1>3, <2>1, <2>2 DEF Service!Grant, Service!Ends, Asking, Choice, Outcome
<1>5. CASE r = "closed"
  <2>1. Outcome' = [Outcome EXCEPT ![c] = {}]
    BY <1>3, <1>5
  <2> QED BY <1>2, <1>3, <2>1 DEF Service!Refuse, Service!Ends, Asking, Choice, Outcome
<1> QED BY <1>4, <1>5

\* The early returns of handle_workload_conn refuse the client.
LEMMA ReturnRefuses ==
  ASSUME IInv, NEW c \in Conn,
         MatchNone(c) \/ ReadOther(c) \/ DialFails(c) \/ ExchangeFails(c)
           \/ RebindGivesUp(c) \/ RebindRejected(c)
  PROVE  Service!Refuse(c)
<1>1. PICK r \in {"refused", "closed"} : Finish(c, r)
  BY DEF MatchNone, ReadOther, DialFails, ExchangeFails, RebindGivesUp, RebindRejected
<1>2. /\ UNCHANGED <<cache, fresh, who>>
      /\ pc[c] # "idle"
      /\ \A d \in Conn : d # c => cred'[d] = cred[d]
  BY DEF MatchNone, ReadOther, DialFails, ExchangeFails, RebindGivesUp, RebindRejected,
         IInv, TypeOK
<1>3. /\ c \in Asking /\ Asking' = Asking \ {c}
      /\ Choice' = [Choice EXCEPT ![c] = None]
      /\ Outcome' = [Outcome EXCEPT ![c] = {}]
  BY <1>1, <1>2, Ended DEF IInv
<1> QED BY <1>2, <1>3 DEF Service!Refuse, Service!Ends, Asking, Choice, Outcome

\* The other steps of a task are its own affair.
LEMMA OtherTasksInvisible ==
  ASSUME IInv, IInv', Waiting, NEW c \in Conn,
         Match(c) \/ ReadFetch(c) \/ CacheMiss(c) \/ TakeDial(c) \/ DialBusy(c)
           \/ DialOk(c) \/ Receive(c) \/ RebindBusy(c)
  PROVE  UNCHANGED Service!vars
<1>1. UNCHANGED <<cache, fresh, reply>>
  BY DEF Match, ReadFetch, CacheMiss, TakeDial, DialBusy, DialOk, Receive, RebindBusy, tasks
<1>2. \A d \in Conn : /\ pc'[d] = "idle" <=> pc[d] = "idle"
                      /\ pc'[d] = "replying" <=> pc[d] = "replying"
                      /\ pc[d] = "replying" => who'[d] = who[d]
                      /\ reply[d] = "credentials" => cred'[d] = cred[d]
  BY DEF Match, ReadFetch, CacheMiss, TakeDial, DialBusy, DialOk, Receive, RebindBusy, tasks,
         IInv, TypeOK, Waiting
<1> QED BY <1>1, <1>2, Invisible DEF IInv

\* So every step of the agent is one of the service.
LEMMA StepRefines ==
  ASSUME IInv, IInv', Handing, Waiting, [Next]_vars
  PROVE  [Service!Next]_(Service!vars)
<1>1. ASSUME NEW c \in Conn, Task(c) PROVE Service!Next \/ UNCHANGED Service!vars
  <2>1. CASE Accept(c) \/ CacheHit(c) \/ RebindIssued(c) \/ Reply(c)
    <3>1. CASE Accept(c)
      BY <3>1, AcceptAsks DEF IInv, Service!Next
    <3>2. CASE CacheHit(c)
      BY <3>2, HitReuses DEF Service!Next
    <3>3. CASE RebindIssued(c)
      BY <3>3, RebindIssues DEF Service!Next
    <3>4. CASE Reply(c)
      BY <3>4, ReplyEnds DEF Service!Next
    <3> QED BY <2>1, <3>1, <3>2, <3>3, <3>4
  <2>2. CASE MatchNone(c) \/ ReadOther(c) \/ DialFails(c) \/ ExchangeFails(c)
               \/ RebindGivesUp(c) \/ RebindRejected(c)
    BY <2>2, ReturnRefuses DEF Service!Next
  <2>3. CASE Match(c) \/ ReadFetch(c) \/ CacheMiss(c) \/ TakeDial(c) \/ DialBusy(c)
               \/ DialOk(c) \/ Receive(c) \/ RebindBusy(c)
    BY <2>3, OtherTasksInvisible
  <2> QED BY <1>1, <2>1, <2>2, <2>3 DEF Task, Attest, Read, Fetch
<1>2. CASE ProcessEnds
  BY <1>2, Died DEF IInv, Service!Next
<1>3. CASE (\A c \in Conn : ~Task(c)) /\ ~ProcessEnds
  <2>1. UNCHANGED <<cache, tasks>> /\ (UNCHANGED fresh \/ Ages)
    BY <1>3, Outside
  <2>2. CASE UNCHANGED fresh
    BY <2>1, <2>2 DEF Service!vars, tasks
  <2>3. CASE Ages
    <3>1. PICK i \in fresh : fresh' = fresh \ {i}
      BY <2>3 DEF Ages
    <3>2. i \in Identity
      BY DEF IInv, TypeOK
    <3>3. Service!Age(i)
      BY <2>1, <3>1 DEF Service!Age, tasks
    <3> QED BY <3>2, <3>3 DEF Service!Next
  <2> QED BY <2>1, <2>2, <2>3
<1> QED BY <1>1, <1>2, <1>3

\* What the clients of the Workload API see is a behaviour of CredentialService:
\* refused, or given the newest credentials of one identity, which were usable
\* after they asked, whatever tasks, dials, kills and restarts come between.
THEOREM AgentImplementsService == Spec => ImplementsService
<1>1. Init => Service!Init /\ Handing /\ Waiting
  <2> SUFFICES ASSUME Init PROVE Service!Init /\ Handing /\ Waiting
    OBVIOUS
  <2>1. Asking = {} /\ Choice = [c \in Conn |-> None] /\ Outcome = [c \in Conn |-> None]
    BY DEF Init, Asking, Choice, Outcome
  <2> QED BY <2>1 DEF Init, Service!Init, Asking, Choice, Outcome, Handing, Waiting
<1>2. IInv /\ Handing /\ Waiting /\ [Next]_vars => (Handing /\ Waiting)'
  BY HandingStep, WaitingStep
<1>3. IInv /\ IInv' /\ Handing /\ Waiting /\ [Next]_vars => [Service!Next]_(Service!vars)
  BY StepRefines
<1> QED BY <1>1, <1>2, <1>3, IInvAlways, PTL DEF Spec, ImplementsService, Service!Spec
=============================================================================
