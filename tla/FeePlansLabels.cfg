SPECIFICATION Spec
CONSTANTS
  Students = {s1}
  Plans = {p1}
  Generators = {g1}
  Requests <- MCSameLabel
  MaxInvoices = 2
  MaxCredits = 0
  MaxAborts = 0
INVARIANTS
  BilledInFull
