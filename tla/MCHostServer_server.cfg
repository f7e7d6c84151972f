\* Two connections under way at once, over an edit and a restart of the server,
\* with fair scheduling and so without symmetry.
CONSTANTS
  vmA = vmA
  vmB = vmB
  c3 = c3
  c4 = c4
  idA = idA
  idB = idB
  Conn = {n1, n2}
  Vm = {vmA, vmB}
  Cid = {c3, c4}
  Port = {901, 902}
  Identity = {idA, idB}
  Ia5 = {idA}
  ConfigFile <- Files
  Request <- Requests
  Malformed = Malformed
  None = None
  Minute = 60
  Wrap = 128
  MaxStarts = 2
SPECIFICATION FairSpec
INVARIANTS TypeOK OnlyRegisteredPeers OffersAreGrants
PROPERTY RequestsEnd
