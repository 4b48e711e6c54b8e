CONSTANTS
  u1 = u1
  c1 = c1
  c2 = c2
  h1 = h1
  i1 = i1
  Users <- MCUsers
  Charges <- MCCharges
  Owner <- MCOwner
  Handlers <- MCHandlers
  Issuers <- MCIssuers
  Days = 1
  Warn3 = 0
  Warn1 = 0
  Grace = 1
  BatchLimit = 1
  TTL = 3
  MaxTime = 3
  MaxMishaps = 1
  MaxLinks = 2
SPECIFICATION FairLinkSpec
INVARIANTS
  OneLinkPerHandler
  SerialMembersServed
PROPERTIES
  GraceEnds
  SerialGraceStarts
