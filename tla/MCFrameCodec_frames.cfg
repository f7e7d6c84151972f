\* Prefixes of two bytes of four values wrap at 16. The lengths are below, at and
\* above the limit, and two that wrap to an empty and to a short frame.
CONSTANTS
  Lengths = {1, 6, 7, 16, 17}
  Base = 4
  HeaderBytes = 2
  MaxMsgBytes = 6
  Messages <- UpToTwo
SPECIFICATION Spec
INVARIANTS TypeOK WholeInOrder FailsForCause
PROPERTY FitsIsDelivered
CHECK_DEADLOCK FALSE
