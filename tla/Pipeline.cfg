SPECIFICATION Spec
CONSTANTS
  Files = {f1, f2}
  Requests = {r1, r2}
  Workers = {w1, w2}
  NoRow = NoRow
  Kept = Kept
  Titles = {"t1"}
  Kinds <- PdfAndFake
  Faults = {"fs", "publish_api", "publish_worker", "worker_crash", "api_crash"}
  MaxRedeliveries = 0
SYMMETRY Symmetry
INVARIANTS AtMostOneAlert AlertAgreesWithRow
PROPERTIES RefinesLifecycle
CHECK_DEADLOCK FALSE
