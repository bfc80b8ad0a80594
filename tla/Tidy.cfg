SPECIFICATION Spec
CONSTANTS
  Files = {f1}
  Requests = {r1, r2}
  Workers = {w1, w2}
  NoRow = NoRow
  Kept = Kept
  Titles = {"t1"}
  Kinds <- PdfAndFake
  Faults = {"db", "publish_api", "publish_unsure", "worker_crash", "redeliver"}
  MaxRedeliveries = 1
SYMMETRY Symmetry
INVARIANTS RowsHaveBytes BytesHaveRow PartsOwned VerdictMatchesContent
CHECK_DEADLOCK FALSE
