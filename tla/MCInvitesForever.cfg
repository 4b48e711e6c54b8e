CONSTANTS
  u1 = u1
  c1 = c1
  c2 = c2
  h1 = h1
  i1 = i1
  Users <- MCUsers
  Charges <- MCOneCharge
  Owner <- MCOneOwner
  Handlers <- MCHandlers
  Issuers <- MCIssuers
  Days = 2
  Warn3 = 0
  Warn1 = 0
  Grace = 1
  BatchLimit = 1
  TTL = 3
  MaxTime = 4
  MaxMishaps = 0
  MaxLinks = 1
SPECIFICATION LinkSpec
INVARIANT MembersServed
