CONSTANTS
  a = a
  b = b
  s1 = s1
  s2 = s2
  s3 = s3
  Dot = Dot
  Names <- MCNames
  Slots <- MCSlots
  MaxIno = 4
  MaxConnections = 2
  Locks = TRUE
  MaxSize = 2
  MaxNlink = 2
  Workload <- AllRequests
  MaxFaults = 0
SPECIFICATION Spec
SYMMETRY Symmetry
INVARIANTS
  NoDanglingEntry
