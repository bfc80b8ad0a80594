SPECIFICATION Spec
CONSTANTS
  Files = {f1}
  Requests = {r1, r2}
  Workers = {w1, w2}
  NoRow = NoRow
  Kept = Kept
  Titles = {"t1"}
  Kinds <- OnePdf
  Faults = {"db"}
  MaxRedeliveries = 0
SYMMETRY Symmetry
INVARIANT InfoOnlyIfProcessed
CHECK_DEADLOCK FALSE
