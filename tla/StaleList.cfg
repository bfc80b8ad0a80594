SPECIFICATION Spec
CONSTANTS
  MaxUploads = 1
  MaxRefreshes = 0
  MaxReports = 1
  Unanswered = Unanswered
INVARIANT ListIsCurrent
CHECK_DEADLOCK FALSE
