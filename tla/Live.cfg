SPECIFICATION FairSpec
CONSTANTS
  Files = {f1}
  Requests = {r1, r2}
  Workers = {w1, w2}
  NoRow = NoRow
  Kept = Kept
  Titles = {"t1"}
  Kinds <- AllKinds
  Faults = {"fs", "publish_api"}
  MaxRedeliveries = 0
INVARIANTS NeverStuck
PROPERTIES EventuallySettled EventuallyReported WorkersReportFailures
CHECK_DEADLOCK FALSE
