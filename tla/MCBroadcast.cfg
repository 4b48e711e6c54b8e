CONSTANTS
  t1 = t1
  Users <- MCUsers
  Staff <- MCStaff
  Known <- MCKnown
  Filters <- MCFilters
  Contents <- MCContents
  BatchSize = 1
  MaxAttempts = 2
  MaxHandlers = 2
  MaxSteps = 5
  MaxCampaigns = 2
  MaxIncidents = 1
SPECIFICATION FairSpec
INVARIANTS
  TypeOK
  CountersMatchRows
  CopiesNeedMishaps
  ReportedOnce
  SerialQueuedAsPreviewed
PROPERTIES
  MailingSpec
  EveryCampaignCompletes
CHECK_DEADLOCK FALSE
