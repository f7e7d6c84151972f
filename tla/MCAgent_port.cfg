\* The port between dials: one client is enough for an aborted dial.
CONSTANTS
  Conn = {c1}
  Identity = {idA}
  KeyPair = {k1}
  None = None
  BindRetries = 1
  HandshakeRetries = 1
  MaxCrashes = 0
SPECIFICATION Spec
INVARIANT PortKeptBetweenDials
