\* Two sessions over one round: shared audit identities, full audit.
SPECIFICATION Spec
CONSTANTS
  s1 = s1
  s2 = s2
  s3 = s3
  r1 = r1
  c1 = c1
  c2 = c2
  m1 = m1
  m2 = m2
  o1 = o1
  o2 = o2
  t1 = t1
  x1 = x1
  x2 = x2
  Rounds = {r1}
  Messages = {m1}
  Origins = {o1, o2}
  Contexts = {c1, c2}
  Targets = {x1, x2}
  NoResolution = NoResolution
  MaxAudit = 2
  NoSession = NoSession
  MaxEvents = 3
  MaxRecorded = 2
  Sessions = {s1, s2}
  Definitions <- TwoContexts
  Texts = {t1}
  Submissions <- OneMessage
  Configured <- Unconfigured
  MaxSessions = 2
  MaxSequence = 4
  NoText = NoText
  NoReply = NoReply
  None = None
INVARIANTS
  AuditInv
  JournalBackedByAudit
  NoContradictoryResolutions
