CONSTANTS
  c1 = c1
  c2 = c2
  Clients <- MCClients
  MaxIno = 5
  Locks = TRUE
  MaxCrashes = 2
SPECIFICATION Spec
CHECK_DEADLOCK FALSE
SYMMETRY Symmetry
INVARIANTS
  TypeOK
PROPERTIES
  PersistedNeverRegresses
