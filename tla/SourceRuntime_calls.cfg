\* Three calls that overlap in any way, and return.
SPECIFICATION FairSpec
CONSTANTS
  NoRow = NoRow
  NoEntry = NoEntry
  NoInstance = NoInstance
  Sources = {a, b}
  Sessions = {s}
  Calls = {c1, c2, c3}
  MaxConcurrent = 2
  MaxMessages = 0
  MaxRevision = 0
INVARIANTS
  TypeOK
  NoOrphanListener
PROPERTIES
  EveryCallReturns
