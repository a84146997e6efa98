CONSTANTS
  a = a
  b = b
  s1 = s1
  s2 = s2
  s3 = s3
  Dot = Dot
  Names <- MCNames
  Slots <- MCSlots
  MaxIno = 3
  MaxConnections = 2
  Locks = TRUE
  MaxSize = 2
  MaxNlink = 2
  Workload <- ReclaimRequests
  MaxFaults = 1
SPECIFICATION FairSpec
CHECK_DEADLOCK FALSE
PROPERTIES
  OrphansReclaimed
