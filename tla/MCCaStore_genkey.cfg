\* The unit with generateKey = true, and an operator who runs --genkey as well.
\* Five key pairs: two on disk, one in memory of each process, one new.
CONSTANTS
  Proc = {p1, p2}
  Unit = {p1}
  Ca = {x1, x2, x3, x4, x5}
  None = None
  Partial = Partial
  Modes = {"genkey"}
  RemovalMayFail = TRUE
SPECIFICATION FairSpec
PROPERTY GenkeyServes
