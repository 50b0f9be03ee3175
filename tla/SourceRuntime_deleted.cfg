\* A deletion that overlaps a start.
SPECIFICATION Spec
CONSTANTS
  NoRow = NoRow
  NoEntry = NoEntry
  NoInstance = NoInstance
  Sources = {a}
  Sessions = {s}
  Calls = {c1, c2}
  MaxConcurrent = 2
  MaxMessages = 0
  MaxRevision = 0
SYMMETRY Interchangeable
INVARIANTS
  DeletedLeavesNothing
