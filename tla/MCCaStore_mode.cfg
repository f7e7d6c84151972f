CONSTANTS
  Proc = {p1}
  Unit = {p1}
  Ca = {x1, x2}
  None = None
  Partial = Partial
  Modes = {"genkey", "load"}
  RemovalMayFail = FALSE
SPECIFICATION Spec
INVARIANT ServedKeyPrivate
