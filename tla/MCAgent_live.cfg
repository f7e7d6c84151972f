\* Liveness, without symmetry: two clients of one identity, one kill.
CONSTANTS
  Conn = {c1, c2}
  Identity = {idA}
  KeyPair = {k1}
  None = None
  BindRetries = 1
  HandshakeRetries = 1
  MaxCrashes = 1
SPECIFICATION FairSpec
PROPERTIES ConnectionsEnd BootEnds
