SPECIFICATION Spec
CONSTANTS
  Students = {s1, s2}
  Batches = {b1, b2}
  MaxMarks <- MCMaxMarks
  Clerks = {c1, c2}
SYMMETRY MCSymmetry
INVARIANTS
  TypeOK
  PerformanceIsSound
PROPERTIES
  EnrolmentKept
