\* A message that is read twice; the service refuses nothing.
SPECIFICATION Spec
CONSTANTS
  MaxPosted = 2
  QueueSize = 4
  Fresh = Fresh
  NoCursor = NoCursor
  NotDelivered = NotDelivered
  MayRefuse = FALSE
  MayResume = FALSE
PROPERTIES
  RedeliveryIsHarmless
