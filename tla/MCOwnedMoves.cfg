\* Everything the user may do three times while the transaction lives.  The system
\* may stop: when the bound on the user is used up and nothing is left to undo.
CONSTANTS
  e1 = e1
  e2 = e2
  d1 = d1
  d2 = d2
  Entries <- MCEntries
  Planned <- MCPlanned
  Platform <- MCPlatform
  MaxUser = 3
  None = None
SPECIFICATION Spec
CHECK_DEADLOCK FALSE
INVARIANTS
  TypeOK
  AtMostOneUnclaimed
  OneDuplicatePerLoss
  MovedIsUndoable
PROPERTIES
  UserDirsKept
  UndoneStaysUndone
