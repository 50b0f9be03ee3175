\* Fingerprints in memory and in the store, with a window of two deliveries.
SPECIFICATION Spec
CONSTANTS
  s1 = s1
  s2 = s2
  s3 = s3
  r1 = r1
  c1 = c1
  c2 = c2
  m1 = m1
  m2 = m2
  o1 = o1
  o2 = o2
  t1 = t1
  x1 = x1
  x2 = x2
  Rounds = {r1}
  Messages = {m1, m2}
  Origins = {o1}
  Contexts = {c1}
  Targets = {x1}
  NoResolution = NoResolution
  MaxAudit = 1
  NoSession = NoSession
  MaxEvents = 2
  MaxRecorded = 2
  Sessions = {s1, s2}
  Definitions <- OneDefinition
  Texts = {t1}
  Submissions <- TwoMessages
  Configured <- Unconfigured
  MaxSessions = 1
  MaxSequence = 5
  NoText = NoText
  NoReply = NoReply
  None = None
INVARIANTS
  FingerprintsSurviveRestart
