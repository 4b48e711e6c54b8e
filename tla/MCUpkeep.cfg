CONSTANTS
  a1 = a1
  a2 = a2
  u1 = u1
  bot = bot
  Admins <- MCAdmins
  Users <- MCUsers
  Issues <- MCIssues
  Window <- MCWindow
  Day = 2
  Week = 2
  BackupAt = 1
  ReportAt = 1
  KeepFor = 1
  FirstMax = 1
  JoinMax = 1
  RecentMin = 1
  RecentMax = 1
  InactiveMin = 1
  InactiveMax = 2
  TrialMax = 1
  Length = 1
  MaxTime = 3
  MaxChanges = 2
  MaxFiles = 3
  MaxMishaps = 1
SPECIFICATION Spec
INVARIANTS
  BackupsKept
  RepeatsNeedMishaps
CONSTRAINT MCBound
SYMMETRY MCSymmetry
CHECK_DEADLOCK FALSE
