CONSTANTS
  a = a
  b = b
  Dot = Dot
  Names <- MCNames
  Order <- MCOrder
  Cap = 2
  MaxChanges = 4
SPECIFICATION Spec
INVARIANTS
  NoStableEntrySkipped
