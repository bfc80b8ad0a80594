SPECIFICATION Spec
CONSTANTS
  Files = {f1}
  Requests = {r1, r2}
  Workers = {w1, w2}
  NoRow = NoRow
  Kept = Kept
  Titles = {"t1", "t2"}
  Kinds <- OnePdf
  Faults = {"db", "late", "fs", "publish_api", "worker_crash", "api_crash", "redeliver"}
  MaxRedeliveries = 1
SYMMETRY Symmetry
INVARIANTS TypeOK AlertsHaveRow
PROPERTIES NoResurrection RenameIsolated RefinesTables
CHECK_DEADLOCK FALSE
