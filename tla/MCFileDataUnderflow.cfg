CONSTANTS
  s1 = s1
  s2 = s2
  Slots <- MCSlots
  MaxPos = 3
  MaxLen = 2
  Locks = TRUE
  Workload <- LockedDataRequests
SPECIFICATION Spec
SYMMETRY Symmetry
INVARIANTS
  ReadNeverUnderflows
