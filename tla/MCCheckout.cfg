CONSTANTS
  u1 = u1
  c1 = c1
  c2 = c2
  c3 = c3
  h1 = h1
  h2 = h2
  Users <- MCOneUser
  Charges <- MCCharges
  Handlers <- MCHandlers
  Kind <- MCKind
  Code <- MCCode
  MaxRedemptions = 3
  MaxEdits = 1
  MaxMishaps = 1
SPECIFICATION Spec
INVARIANTS
  TypeOK
  SerialDiscountOnce
  SerialFirstOnlyIsFirst
  UsedIsPaid
  LimitsExceededBySessionsOnly
PROPERTIES
  SerialUsedStaysUsed
  SerialLifetimeStays
CONSTRAINT MCBound
SYMMETRY MCSymmetry
CHECK_DEADLOCK FALSE
