SPECIFICATION Spec
CONSTANTS
  Students = {s1, s2}
  Plans = {p1}
  Generators = {g1}
  Requests <- MCRequests
  MaxInvoices = 6
  MaxCredits = 2
  MaxAborts = 1
SYMMETRY MCSymmetry
INVARIANTS
  TypeOK
  NoDuplicateInvoices
  BilledInFull
  SplitIsExact
PROPERTIES
  InvoicesKept
