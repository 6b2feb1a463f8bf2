SPECIFICATION LiveSpec
CONSTANTS
  Invoices = {i1}
  Checkouts = {c1}
  Handlers = {h1, h2}
  Clients = {u1}
  PartialCapture = TRUE
  MaxAborts = 0
  None = None
  Due <- MCDue2
INVARIANTS
  AppliedOnce
