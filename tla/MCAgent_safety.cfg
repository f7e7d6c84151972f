\* Two clients, two identities: contention on every mutex and for the port.
CONSTANTS
  Conn = {c1, c2}
  Identity = {idA, idB}
  KeyPair = {k1, k2}
  None = None
  BindRetries = 1
  HandshakeRetries = 1
  MaxCrashes = 1
SPECIFICATION Spec
SYMMETRY Symmetric
INVARIANTS TypeOK GuardsNest PortAccounted SingleFlight AttestedCredentials TasksMatchWire
PROPERTIES CachedOnlySecured ImplementsService
