\* Positions, when a start overlaps a stop.
SPECIFICATION Spec
CONSTANTS
  NoRow = NoRow
  NoEntry = NoEntry
  NoInstance = NoInstance
  Sources = {a, b}
  Sessions = {s}
  Calls = {c1, c2, c3}
  MaxConcurrent = 2
  MaxMessages = 2
  MaxRevision = 0
SYMMETRY Interchangeable
INVARIANTS
  PositionsDistinct
