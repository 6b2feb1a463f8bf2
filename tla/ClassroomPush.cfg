SPECIFICATION Spec
CHECK_DEADLOCK FALSE
CONSTANTS
  s1 = s1
  s2 = s2
  Rolls <- MCRolls
  Students = {s1, s2}
  Batches = {b1}
  Requests = {r1}
  MaxFiles = 1
  MaxNotes = 1
  MaxRequests = 1
  MaxAborts = 0
INVARIANTS
  SentIsSent
