SPECIFICATION FairSpec
CHECK_DEADLOCK FALSE
CONSTANTS
  s1 = s1
  s2 = s2
  Rolls <- MCRolls
  Students = {s1, s2}
  Batches = {b1}
  Requests = {r1, r2}
  MaxFiles = 2
  MaxNotes = 2
  MaxRequests = 2
  MaxAborts = 1
INVARIANTS
  TypeOK
  ClassesCountedOnce
  EventsAnnounced
  GradeIsOfFile
PROPERTIES
  QueuedIsDispatched
