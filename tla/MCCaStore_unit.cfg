\* One process at a time, as systemd runs the unit, started either way and
\* killed anywhere. Four key pairs: two on disk, one in memory, one new.
CONSTANTS
  Proc = {p1}
  Unit = {p1}
  Ca = {x1, x2, x3, x4}
  None = None
  Partial = Partial
  Modes = {"genkey", "load"}
  RemovalMayFail = FALSE
SPECIFICATION Spec
INVARIANTS TypeOK ServingPairMatches ServedIsOnDisk
