\* A source started once per process; refusals and crashes.
SPECIFICATION Spec
CONSTANTS
  MaxPosted = 4
  QueueSize = 4
  Fresh = Fresh
  NoCursor = NoCursor
  NotDelivered = NotDelivered
  MayRefuse = TRUE
  MayResume = FALSE
INVARIANTS
  TypeOK
  CheckpointCovers
  ChatOrder
