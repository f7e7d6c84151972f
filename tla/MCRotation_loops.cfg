\* Two workloads with a loop each, one failure in a row, one suspend, one new CA.
CONSTANTS
  w1 = w1
  w2 = w2
  l1 = l1
  l2 = l2
  Client = {w1, w2}
  Loop = {l1, l2}
  Owner <- Owners
  None = None
  Ttl = 12
  Interval = 1
  Delay = 1
  MaxFailures = 1
  MaxSuspend = 1
  MaxRegen = 1
SPECIFICATION Spec
INVARIANTS TypeOK CurrentStaysValid NewestWins
PROPERTY PeersConverge
