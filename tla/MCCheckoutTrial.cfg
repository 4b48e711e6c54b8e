CONSTANTS
  u1 = u1
  c1 = c1
  c2 = c2
  c3 = c3
  h1 = h1
  h2 = h2
  Users <- MCOneUser
  Charges <- MCThreeCharges
  Handlers <- MCOneHandler
  Kind <- MCTwoKinds
  Code <- MCNoCode
  MaxRedemptions = 0
  MaxEdits = 0
  MaxMishaps = 0
SPECIFICATION Spec
INVARIANT TrialOnce
CHECK_DEADLOCK FALSE
