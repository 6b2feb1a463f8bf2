SPECIFICATION LiveSpec
CONSTANTS
  Invoices = {i1}
  Checkouts = {c1}
  Handlers = {h1}
  Clients = {u1}
  PartialCapture = TRUE
  MaxAborts = 1
  None = None
  Due <- MCDue2
INVARIANTS
  AckedMoneyIsCredited
