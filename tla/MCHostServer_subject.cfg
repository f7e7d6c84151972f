CONSTANTS
  vmA = vmA
  vmB = vmB
  c3 = c3
  c4 = c4
  idA = idA
  idB = idB
  Conn = {n1}
  Vm = {vmA, vmB}
  Cid = {c3, c4}
  Port = {901, 902}
  Identity = {idA, idB}
  Ia5 = {idA}
  ConfigFile <- Files
  Request <- Requests
  Malformed = Malformed
  None = None
  Minute = 60
  Wrap = 128
  MaxStarts = 2
SPECIFICATION Spec
INVARIANT SubjectIsIdentity
