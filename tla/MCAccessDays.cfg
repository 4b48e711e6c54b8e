CONSTANTS
  u1 = u1
  c1 = c1
  c2 = c2
  c3 = c3
  h1 = h1
  h2 = h2
  Users <- MCUsers
  Charges <- MCThreeCharges
  Owner <- MCThreeOwner
  Handlers <- MCHandlers
  Days = 2
  Warn3 = 0
  Warn1 = 0
  Grace = 1
  BatchLimit = 1
  MaxTime = 1
  MaxMishaps = 0
SPECIFICATION Spec
INVARIANT DaysConserved
