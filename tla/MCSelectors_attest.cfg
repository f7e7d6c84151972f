\* Two workloads visited in either order, with strings of every tier or any short
\* string for one of them, and pids that pass to other processes while they are read.
CONSTANTS
  Workload = {w1, w2}
  Value <- Values
  Id = {1, 2}
  None = None
  Empty = ""
  Uid <- Ids
  Gid <- Ids
  LastName <- Names
  Stripped <- Suffixless
  Service <- Services
  File <- Files
  Process <- Processes
SPECIFICATION Spec
INVARIANTS TypeOK ChosenSatisfies ChosenIsMostSpecific AttestsThePeer ParserAgrees
