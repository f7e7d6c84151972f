--------------------------- MODULE CaStoreProofs ---------------------------
(***************************************************************************)
(* Proofs about the CA files: types for any number of processes; and, for  *)
(* the one process systemd runs, with removals that work, that whatever a   *)
(* death left on disk, the server issues with a matching pair.             *)
(***************************************************************************)
EXTENDS CaStore, TLAPS

\* What init has done to the files by each of its steps, and what load knows.
Progress(p) ==
  /\ pc[p] \in {"remove_key", "create_cert"} => certFile = None
  /\ pc[p] \in {"create_cert", "write_cert", "create_key"} => keyFile = None
  /\ pc[p] = "write_cert" => certFile = Partial
  /\ pc[p] = "write_key" => keyFile = Partial
  /\ pc[p] \in {"write_cert", "write_key"} => p \in linked
  /\ pc[p] \in {"write_cert", "create_key", "write_key", "chmod", "bind", "serving"} =>
       cert[p] \in Ca /\ cert[p] = key[p]
  /\ pc[p] \in {"create_key", "write_key", "chmod", "read_key", "bind", "serving"} =>
       certFile = cert[p]
  /\ pc[p] \in {"chmod", "bind", "serving"} => keyFile = key[p]

\* Two files that load would accept are of one CA, at every instant.
Consistent == certFile \in Ca /\ keyFile \in Ca => certFile = keyFile

IInv ==
  /\ TypeOK
  /\ Consistent
  /\ \A p \in Proc : Progress(p)

-----------------------------------------------------------------------------
LEMMA InitTypeOK == Init => TypeOK
<1> SUFFICES ASSUME Init PROVE TypeOK
  OBVIOUS
<1> QED
  BY DEF Init, TypeOK, Content, Step

LEMMA TypeOKStep ==
  ASSUME TypeOK, [Next]_vars
  PROVE  TypeOK'
<1> USE DEF TypeOK, Content, Step, Goto, Exit, files
<1>1. ASSUME NEW p \in Proc, Start(p) PROVE TypeOK'
  BY <1>1 DEF Start
<1>2. ASSUME NEW p \in Proc, RemoveCert(p) PROVE TypeOK'
  BY <1>2 DEF RemoveCert, Unlink
<1>3. ASSUME NEW p \in Proc, RemoveKey(p) PROVE TypeOK'
  BY <1>3 DEF RemoveKey, Unlink
<1>4. ASSUME NEW p \in Proc, CreateCert(p) PROVE TypeOK'
  BY <1>4 DEF CreateCert, Unused
<1>5. ASSUME NEW p \in Proc, WriteCert(p) PROVE TypeOK'
  BY <1>5 DEF WriteCert
<1>6. ASSUME NEW p \in Proc, CreateKey(p) PROVE TypeOK'
  BY <1>6 DEF CreateKey
<1>7. ASSUME NEW p \in Proc, WriteKey(p) PROVE TypeOK'
  BY <1>7 DEF WriteKey
<1>8. ASSUME NEW p \in Proc, Chmod(p) PROVE TypeOK'
  BY <1>8 DEF Chmod
<1>9. ASSUME NEW p \in Proc, ReadCert(p) PROVE TypeOK'
  BY <1>9 DEF ReadCert
<1>10. ASSUME NEW p \in Proc, ReadKey(p) PROVE TypeOK'
  BY <1>10 DEF ReadKey
<1>11. ASSUME NEW p \in Proc, Bind(p) PROVE TypeOK'
  BY <1>11 DEF Bind
<1>12. ASSUME NEW p \in Proc, Exit(p) PROVE TypeOK'
  BY <1>12
<1>13. CASE UNCHANGED vars
  BY <1>13 DEF vars
<1>14. ASSUME NEW p \in Proc, Fails(p) \/ Dies(p) PROVE Exit(p)
  BY <1>14 DEF Fails, ChmodFails, CannotLoad, PortTaken, Dies
<1>15. QED
  BY <1>1, <1>2, <1>3, <1>4, <1>5, <1>6, <1>7, <1>8, <1>9, <1>10, <1>11, <1>12,
     <1>13, <1>14 DEF Next, Runs, Generate, Load

\* With one process and removals that work, IInv is inductive: the process dies
\* with the files consistent, and every step of init keeps them so because it
\* has removed both before it writes either.
LEMMA OneProcessStep ==
  ASSUME NEW q, Proc = {q}, RemovalMayFail = FALSE, IInv, [Next]_vars
  PROVE  IInv'
<1> DEFINE Kept == Consistent' /\ Progress(q)'
<1>1. TypeOK'
  BY TypeOKStep DEF IInv
<1>2. TypeOK /\ Consistent /\ Progress(q)
  BY DEF IInv
<1> SUFFICES Kept
  BY <1>1 DEF IInv
<1> USE <1>2, CaAssumption DEF CaAssumption, TypeOK, Content, Step, Consistent,
        Progress, Goto, files
<1>3. CASE Start(q)
  BY <1>3 DEF Start
<1>4. CASE RemoveCert(q)
  BY <1>4 DEF RemoveCert, Unlink
<1>5. CASE RemoveKey(q)
  BY <1>5 DEF RemoveKey, Unlink
<1>6. CASE CreateCert(q)
  BY <1>6 DEF CreateCert, Unused
<1>7. CASE WriteCert(q)
  BY <1>7 DEF WriteCert
<1>8. CASE CreateKey(q)
  BY <1>8 DEF CreateKey
<1>9. CASE WriteKey(q)
  BY <1>9 DEF WriteKey
<1>10. CASE Chmod(q)
  BY <1>10 DEF Chmod
<1>11. CASE ReadCert(q)
  BY <1>11 DEF ReadCert
<1>12. CASE ReadKey(q)
  BY <1>12 DEF ReadKey
<1>13. CASE Bind(q)
  BY <1>13 DEF Bind
<1>14. CASE Fails(q) \/ Dies(q)
  BY <1>14 DEF Fails, ChmodFails, CannotLoad, PortTaken, Dies, Exit
<1>15. CASE UNCHANGED vars
  BY <1>15 DEF vars
<1>16. QED
  BY <1>3, <1>4, <1>5, <1>6, <1>7, <1>8, <1>9, <1>10, <1>11, <1>12, <1>13, <1>14,
     <1>15 DEF Next, Runs, Generate, Load

-----------------------------------------------------------------------------
\* Type correctness, for any number of processes and whether removals fail or not.
THEOREM TypeCorrect == Spec => []TypeOK
<1>1. QED
  BY InitTypeOK, TypeOKStep, PTL DEF Spec

LEMMA OneProcessIInv ==
  ASSUME NEW CONSTANT q, Proc = {q}, RemovalMayFail = FALSE
  PROVE  Spec => []IInv
<1>1. Init => IInv
  <2> SUFFICES ASSUME Init PROVE IInv
    OBVIOUS
  <2>1. TypeOK
    BY InitTypeOK
  <2>2. QED
    BY <2>1 DEF Init, IInv, Consistent, Progress
<1>2. IInv /\ [Next]_vars => IInv'
  BY OneProcessStep
<1>3. QED
  BY <1>1, <1>2, PTL DEF Spec

\* As systemd runs the unit, a server that issues certificates has a certificate
\* and a key of one CA, wherever earlier runs of init or load were killed.
THEOREM ServesMatchingPair ==
  ASSUME NEW CONSTANT q, Proc = {q}, RemovalMayFail = FALSE
  PROVE  Spec => []ServingPairMatches
<1>1. IInv => ServingPairMatches
  BY DEF IInv, Progress, ServingPairMatches
<1>2. QED
  BY <1>1, OneProcessIInv, PTL

\* And it issues with what is on disk, so a restart keeps the CA it has used.
THEOREM ServesWhatIsOnDisk ==
  ASSUME NEW CONSTANT q, Proc = {q}, RemovalMayFail = FALSE
  PROVE  Spec => []ServedIsOnDisk
<1>1. IInv => ServedIsOnDisk
  BY DEF IInv, Progress, ServedIsOnDisk
<1>2. QED
  BY <1>1, OneProcessIInv, PTL

=============================================================================
