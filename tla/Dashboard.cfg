SPECIFICATION FairSpec
CONSTANTS
  MaxUploads = 2
  MaxRefreshes = 1
  MaxReports = 1
  Unanswered = Unanswered
INVARIANTS TypeOK UploadsSerial SpinnerHonest AlertsListed
PROPERTIES EventuallyShown DraftKept
CHECK_DEADLOCK FALSE
