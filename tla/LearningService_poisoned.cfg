SPECIFICATION Spec
CONSTANTS
  t1 = t1
  t2 = t2
  t3 = t3
  good = good
  bad = bad
  m1 = m1
  m2 = m2
  Normalized <- MCNormalized
  Compact <- MCCompact
  Short = {}
  Likeness <- MCLikeness
  LongTexts = {}
  LongExpressions = {}
  BadParticipants = {bad}
  Empty = "empty"
  NoTarget = NoTarget
  NoExpression = NoExpression
  Capacity = 2
  Ttl = 1
  History = 1
  Round <- MCRound
  Contexts = {"c"}
  NoContext = "no"
  Requests <- MCPoisonedRequests
  CacheCapacity = 1
  CacheTtl = 1
  MaxRecorded = 1
  MaxTime = 1
  MaxRows = 3
  NoReply = NoReply
SYMMETRY Symmetry
INVARIANTS AnswersAreAlwaysFresh
CHECK_DEADLOCK FALSE
