SPECIFICATION Spec
CONSTANTS
  u1 = u1
  u2 = u2
  u3 = u3
  c1 = c1
  c2 = c2
  c3 = c3
  c4 = c4
  Users <- MCUsers
  Charges <- MCCharges
  Owner <- MCOwner
  Crypto <- MCCrypto
  Endless <- MCEndless
  RewardDays = 2
  MaxSessions = 2
  MaxFailures = 1
INVARIANTS
  TypeOK
  SerialDaysBalance
  SerialFirstPaymentRewards
  GrantsArePaidFor
CHECK_DEADLOCK FALSE
