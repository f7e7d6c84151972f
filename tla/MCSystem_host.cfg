\* One client, one kill of the agent, three starts of the server.
CONSTANTS
  idA = idA
  idB = idB
  vmA = vmA
  c3 = c3
  c4 = c4
  Conn = {c1}
  Identity = {idA, idB}
  Ia5 = {idA}
  KeyPair = {k1}
  None = None
  BindRetries = 1
  HandshakeRetries = 1
  MaxCrashes = 1
  Vm = {vmA}
  Cid = {c3, c4}
  Port = {901, 902}
  ConfigFile <- Files
  Malformed = Malformed
  Minute = 60
  Wrap = 128
  MaxStarts = 3
  VmName = vmA
  OwnCid = c3
  ServerPort = 900
  ClientPort = 901
  Stream = Stream
SPECIFICATION Spec
INVARIANT SignedAsRegistered
PROPERTIES ImplementsAgent KeepsAskingIsServed
