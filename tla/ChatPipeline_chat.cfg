SPECIFICATION Spec
CONSTANTS
  MaxMessages = 2
  WindowSize = 1
  QueueSize = 1
  StateChange = StateChange
  Streams = {1, 2}
  MaxStreams = 1
  MaxEvents = 1
  PageLimit = 1
  NoStream = NoStream
  MaxRecorded = 1
  MaxJournal = 3
INVARIANTS TypeOK SeenOnceInOrder GapsAreAnnounced
PROPERTIES StopsComplete ClientCatchesUp
CHECK_DEADLOCK FALSE
