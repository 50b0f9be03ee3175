SPECIFICATION Spec
CONSTANTS
  p1 = p1
  p2 = p2
  p3 = p3
  i1 = i1
  i2 = i2
  c1 = c1
  x1 = x1
  x2 = x2
  t1 = t1
  v1 = v1
  v2 = v2
  Packages = {p1, p2, p3}
  Identities = {i1, i2}
  Channels = {c1}
  Archives = {x1, x2}
  Targets = {t1}
  Edits = {e1}
  IdentityOf <- Declared
  TargetsOf <- Published
  NoDocument = NoDocument
  MaxTombstones = 2
  Verifiers = {v1, v2}
  Releases <- PublishedReleases
  MaxHistory = 3
SYMMETRY Interchangeable
INVARIANTS
  TypeOK
  ReportedStaysRevoked
  IndexKnowsItsDocument
PROPERTIES
  OnlyRollbackRevives
  TombstonesAppendOnly
  EditsHitTheContextShown
