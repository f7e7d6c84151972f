------------------------------ MODULE CaStore ------------------------------
(***************************************************************************)
(* The host CA's two files and the server processes that make and load     *)
(* them: CertificateAuthority::init (--genkey) and ::load, up to the bind  *)
(* of the vsock port. Every system call on a file is an action, so the     *)
(* process may die, or another one look at the files, between any two.     *)
(*                                                                         *)
(* A CA is a model value: the certificate and the key of CA x are both x.  *)
(***************************************************************************)
EXTENDS Naturals

CONSTANTS
  Proc,            \* server processes that may run: the unit's, an operator's
  Unit,            \* those systemd starts again (Restart = always)
  Ca,              \* key pairs generate_for may produce
  None,            \* no file, nothing in memory, no listener
  Partial,         \* content of a file that is created but not written
  Modes,           \* how processes are started, a subset of {"genkey", "load"}
  RemovalMayFail   \* remove_file may fail, an error that init ignores

ASSUME CaAssumption ==
  /\ None \notin Ca \cup Proc
  /\ Partial \notin Ca \cup {None}
ASSUME ModesAssumption ==
  /\ Modes \subseteq {"genkey", "load"}
  /\ RemovalMayFail \in BOOLEAN
  /\ Unit \subseteq Proc

VARIABLES
  certFile,   \* content of ca_cert_path
  keyFile,    \* content of ca_key_path
  keyMode,    \* mode of the key file: "umask" or "0600"
  linked,     \* processes whose open file is still the one at its path
  pc,         \* where each process is
  cert,       \* CertificateAuthority.cert_pem of each process
  key,        \* CertificateAuthority.key_pem of each process
  listener    \* the process that has the vsock port

files == <<certFile, keyFile, keyMode, linked>>
vars  == <<files, pc, cert, key, listener>>

Content == Ca \cup {None, Partial}
Step ==
  {"down", "remove_cert", "remove_key", "create_cert", "write_cert",
   "create_key", "write_key", "chmod", "read_cert", "read_key", "bind", "serving"}

TypeOK ==
  /\ certFile \in Content
  /\ keyFile \in Content
  /\ keyMode \in {"umask", "0600"}
  /\ linked \subseteq Proc
  /\ pc \in [Proc -> Step]
  /\ cert \in [Proc -> Content]
  /\ key \in [Proc -> Ca \cup {None}]
  /\ listener \in Proc \cup {None}

\* No CA yet, or one an earlier --genkey run left.
Init ==
  /\ certFile \in Ca \cup {None}
  /\ keyFile = certFile
  /\ keyMode = "0600"
  /\ linked = {}
  /\ pc = [p \in Proc |-> "down"]
  /\ cert = [p \in Proc |-> None]
  /\ key = [p \in Proc |-> None]
  /\ listener = None

Goto(p, step) == pc' = [pc EXCEPT ![p] = step]

\* Key pairs nobody has: a generated one is always new.
Unused ==
  Ca \ ({certFile, keyFile} \cup {cert[p] : p \in Proc} \cup {key[p] : p \in Proc})

-----------------------------------------------------------------------------
\* main: --genkey calls init with idempotent = false, otherwise load is called.
Start(p) ==
  /\ pc[p] = "down"
  /\ \E mode \in Modes : Goto(p, IF mode = "genkey" THEN "remove_cert" ELSE "read_cert")
  /\ UNCHANGED <<files, cert, key, listener>>

\* remove_file unlinks a path: who has that file open writes to it in vain.
Unlink(step) == linked' = {p \in linked : pc[p] # step}

\* The old files are removed if they exist; an error is ignored.
RemoveCert(p) ==
  /\ pc[p] = "remove_cert"
  /\ \/ certFile' = None /\ Unlink("write_cert")
     \/ RemovalMayFail /\ UNCHANGED <<certFile, linked>>
  /\ Goto(p, "remove_key")
  /\ UNCHANGED <<keyFile, keyMode, cert, key, listener>>

RemoveKeySkipped(p) ==   \* mutant: only the certificate is removed
  /\ pc[p] = "remove_key"
  /\ Goto(p, "create_cert")
  /\ UNCHANGED <<files, cert, key, listener>>
RemoveKey(p) ==
  /\ pc[p] = "remove_key"
  /\ \/ keyFile' = None /\ Unlink("write_key")
     \/ RemovalMayFail /\ UNCHANGED <<keyFile, linked>>
  /\ Goto(p, "create_cert")
  /\ UNCHANGED <<certFile, keyMode, cert, key, listener>>

\* A key pair and its self-signed certificate are made in memory, then
\* fs::write creates or truncates the certificate file and fills it.
CreateCert(p) ==
  /\ pc[p] = "create_cert"
  /\ \E x \in Unused : /\ cert' = [cert EXCEPT ![p] = x]
                       /\ key' = [key EXCEPT ![p] = x]
  /\ certFile' = Partial
  /\ linked' = linked \cup {p}
  /\ Goto(p, "write_cert")
  /\ UNCHANGED <<keyFile, keyMode, listener>>

\* A file that was unlinked since it was opened takes the data out of sight.
WriteCert(p) ==
  /\ pc[p] = "write_cert"
  /\ certFile' = IF p \in linked THEN cert[p] ELSE certFile
  /\ linked' = linked \ {p}
  /\ Goto(p, "create_key")
  /\ UNCHANGED <<keyFile, keyMode, cert, key, listener>>

\* A new file gets its mode from the umask, a truncated one keeps its own.
CreateKey(p) ==
  /\ pc[p] = "create_key"
  /\ keyFile' = Partial
  /\ keyMode' = IF keyFile = None THEN "umask" ELSE keyMode
  /\ linked' = linked \cup {p}
  /\ Goto(p, "write_key")
  /\ UNCHANGED <<certFile, cert, key, listener>>

WriteKeyUnflushed(p) ==   \* mutant: the data never reaches the file
  /\ pc[p] = "write_key"
  /\ linked' = linked \ {p}
  /\ Goto(p, "chmod")
  /\ UNCHANGED <<certFile, keyFile, keyMode, cert, key, listener>>
WriteKey(p) ==
  /\ pc[p] = "write_key"
  /\ keyFile' = IF p \in linked THEN key[p] ELSE keyFile
  /\ linked' = linked \ {p}
  /\ Goto(p, "chmod")
  /\ UNCHANGED <<certFile, keyMode, cert, key, listener>>

\* set_mode_600 of whatever is at the path; init returns the pair it has in memory.
Chmod(p) ==
  /\ pc[p] = "chmod"
  /\ keyFile # None
  /\ keyMode' = "0600"
  /\ Goto(p, "bind")
  /\ UNCHANGED <<certFile, keyFile, linked, cert, key, listener>>

\* load: the certificate is read first and parsed last.
ReadCert(p) ==
  /\ pc[p] = "read_cert"
  /\ certFile # None
  /\ cert' = [cert EXCEPT ![p] = certFile]
  /\ Goto(p, "read_key")
  /\ UNCHANGED <<files, key, listener>>

ReadKeyUnparsed(p) ==   \* mutant: the files are loaded without parsing them
  /\ pc[p] = "read_key"
  /\ keyFile # None
  /\ key' = [key EXCEPT ![p] = keyFile]
  /\ Goto(p, "bind")
  /\ UNCHANGED <<files, cert, listener>>
ReadKey(p) ==
  /\ pc[p] = "read_key"
  /\ keyFile \in Ca
  /\ cert[p] \in Ca
  /\ key' = [key EXCEPT ![p] = keyFile]
  /\ Goto(p, "bind")
  /\ UNCHANGED <<files, cert, listener>>

\* run_listener binds the port; nothing was bound while the CA was made.
Bind(p) ==
  /\ pc[p] = "bind"
  /\ listener = None
  /\ listener' = p
  /\ Goto(p, "serving")
  /\ UNCHANGED <<files, cert, key>>

\* The process is gone: its memory and its socket with it.
Exit(p) ==
  /\ Goto(p, "down")
  /\ cert' = [cert EXCEPT ![p] = None]
  /\ key' = [key EXCEPT ![p] = None]
  /\ listener' = IF listener = p THEN None ELSE listener
  /\ linked' = linked \ {p}
  /\ UNCHANGED <<certFile, keyFile, keyMode>>

\* Another process has removed the key: set_permissions fails, init returns the
\* error and main exits.
ChmodRetries(p) ==   \* mutant: it is tried again until there is a key
  /\ pc[p] = "chmod"
  /\ keyFile = None
  /\ UNCHANGED vars
ChmodFails(p) ==
  /\ pc[p] = "chmod"
  /\ keyFile = None
  /\ Exit(p)

\* load fails: a file is missing or does not parse. The process exits.
CannotLoad(p) ==
  /\ \/ pc[p] = "read_cert" /\ certFile = None
     \/ pc[p] = "read_key" /\ (keyFile \notin Ca \/ cert[p] \notin Ca)
  /\ Exit(p)

\* Another process listens: exit, after --genkey has replaced that one's files.
PortTaken(p) ==
  /\ pc[p] = "bind"
  /\ listener # None
  /\ Exit(p)

\* A kill or an I/O error at any point.
Dies(p) ==
  /\ pc[p] # "down"
  /\ Exit(p)

Generate(p) ==
  \/ RemoveCert(p) \/ RemoveKey(p) \/ CreateCert(p) \/ WriteCert(p)
  \/ CreateKey(p) \/ WriteKey(p) \/ Chmod(p)
Load(p)  == ReadCert(p) \/ ReadKey(p)
Fails(p) == ChmodFails(p) \/ CannotLoad(p) \/ PortTaken(p)
Runs(p)  == Generate(p) \/ Load(p) \/ Bind(p) \/ Fails(p)

Next == \E p \in Proc : Start(p) \/ Runs(p) \/ Dies(p)

\* A process that runs goes on, and systemd starts the unit again.
Fairness ==
  /\ \A p \in Proc : WF_vars(Runs(p))
  /\ \A p \in Unit : WF_vars(Start(p))

Spec     == Init /\ [][Next]_vars
FairSpec == Spec /\ Fairness

-----------------------------------------------------------------------------
\* rcgen_cert re-signs the loaded certificate with the loaded key, "an object
\* with identical DN and key" (ca.rs): a process that gets to issue has a
\* certificate and a key of one CA, wherever an earlier one died. load compares
\* nothing, so this rests on the order in which init removes and writes.
ServingPairMatches ==
  \A p \in Proc : pc[p] = "serving" => cert[p] = key[p]

\* What serves is what a restart would load: with one process at a time a death
\* in the middle of init leaves nothing that a later start serves in its place.
ServedIsOnDisk ==
  \A p \in Proc : pc[p] = "serving" => certFile = cert[p] /\ keyFile = key[p]

\* README.md: "the CA private key is written with mode 0600", so the key a server
\* issues with is in a file of that mode.
ServedKeyPrivate ==
  (\E p \in Proc : pc[p] = "serving") => keyMode = "0600"

\* Nobody is killed any more, and only systemd starts anything.
LeftAlone ==
  \A p \in Proc : (Dies(p) => Fails(p)) /\ (Start(p) => p \in Unit)

\* A unit that runs --genkey ends up serving, whatever half-written files are there,
\* while an operator's --genkey removes what it has just written and it removes
\* theirs, once the operator starts no other: a set_mode_600 that finds no key ends
\* the process, and does not end the service. (Two that are both started again for
\* ever can undo each other for ever.)
GenkeyServes ==
  <>[][LeftAlone]_vars => []<>(\E p \in Proc : pc[p] = "serving")
=============================================================================
