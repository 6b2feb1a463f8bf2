SPECIFICATION FairSpec
CONSTANTS
  Invoices = {i1}
  Checkouts = {c1, c2}
  Handlers = {h1, h2}
  Clients = {u1}
  PartialCapture = TRUE
  MaxAborts = 1
  None = None
  Due <- MCDue2
INVARIANTS
  TypeOK
  UniqueGatewayPaymentId
  CapturesAreGenuine
  SomeCreditStays
  AckedIsRecorded
  OnlyStopsStrand
  AppliedPerHandler
  PaidWasCaptured
PROPERTIES
  RecordedForGood
  SettledIsFinal
  EventuallyRecorded
