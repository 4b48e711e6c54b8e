CONSTANTS
  u1 = u1
  c1 = c1
  c2 = c2
  c3 = c3
  h1 = h1
  h2 = h2
  Users <- MCUsers
  Charges <- MCCharges
  Owner <- MCOwner
  Handlers <- MCHandlers
  Days = 2
  Warn3 = 2
  Warn1 = 1
  Grace = 1
  BatchLimit = 1
  MaxTime = 4
  MaxMishaps = 1
SPECIFICATION Spec
INVARIANTS
  TypeOK
  CreditedOnce
  ServedBeforeRevoke
  SerialOneCurrent
  SerialDaysConserved
  SerialMarksMatchEnd
PROPERTIES
  ServedBeforeRemoval
  RevokedIsFinal
  SerialRenewedNotRemoved
SYMMETRY MCSymmetry
