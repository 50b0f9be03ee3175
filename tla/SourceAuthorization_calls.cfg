SPECIFICATION Spec
CONSTANTS
  Sources = {t, y}
  t = t
  y = y
  Calls = {c1, c2}
  Videos = {v}
  Twitch = "twitch"
  YouTube = "youtube"
  Adapter <- MCAdapter
  MaxSources = 1
  MaxCreated = 1
  NoVideo = NoVideo
  Free = Free
  NoRow = NoRow
  MaxRevision = 3
INVARIANTS TypeOK CredentialsAreLinked SelectionKept
PROPERTIES EveryCallReturns
CHECK_DEADLOCK FALSE

