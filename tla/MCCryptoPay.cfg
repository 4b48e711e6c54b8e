CONSTANTS
  u1 = u1
  u2 = u2
  h1 = h1
  h2 = h2
  Users <- MCUsers
  Endless <- MCEndless
  Handlers <- MCHandlers
  WebhookOn = TRUE
  TTL = 2
  BatchLimit = 2
  MaxInvoices = 2
  MaxTime = 3
  MaxMishaps = 1
SPECIFICATION FairSpec
INVARIANTS
  CreditedOnce
  MarkedPaidIsBooked
PROPERTIES
  InTimeIsBooked
