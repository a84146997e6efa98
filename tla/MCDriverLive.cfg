CONSTANTS
  a = a
  b = b
  s1 = s1
  s2 = s2
  s3 = s3
  Dot = Dot
  Names <- MCNames
  Slots <- MCSlots3
  MaxIno = 3
  MaxConnections = 2
  Locks = TRUE
  MaxSize = 1
  MaxNlink = 1
  Workload <- PoolRequests
  MaxFaults = 0
SPECIFICATION FairSpec
CHECK_DEADLOCK FALSE
PROPERTIES
  OrphansReclaimed
  RequestsComplete
