\* Calls one at a time, two sources of one session.
SPECIFICATION Spec
CONSTANTS
  NoRow = NoRow
  NoEntry = NoEntry
  NoInstance = NoInstance
  Sources = {a, b}
  Sessions = {s}
  Calls = {c1, c2, c3, c4}
  MaxConcurrent = 1
  MaxMessages = 2
  MaxRevision = 3
SYMMETRY Interchangeable
INVARIANTS
  PositionsDistinct
  PausedIsSilent
  DeletedLeavesNothing
