SPECIFICATION FairSpec
CONSTANTS
  Invoices = {i1}
  Checkouts = {c1, c2}
  Handlers = {h1}
  Clients = {u1}
  PartialCapture = TRUE
  MaxAborts = 0
  None = None
  Due <- MCDueFraction
INVARIANTS
  StatusFollowsAmounts
  AckedMoneyIsCredited
PROPERTIES
  OutstandingOnlyFalls
  LedgerSpec
  EventuallyCredited
