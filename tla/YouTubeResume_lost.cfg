\* A source started twice in one process; the service refuses nothing.
SPECIFICATION Spec
CONSTANTS
  MaxPosted = 4
  QueueSize = 4
  Fresh = Fresh
  NoCursor = NoCursor
  NotDelivered = NotDelivered
  MayRefuse = FALSE
  MayResume = TRUE
INVARIANTS
  CheckpointCovers
