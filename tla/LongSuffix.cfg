SPECIFICATION Spec
CONSTANTS
  Files = {f1}
  Requests = {r1, r2}
  Workers = {w1, w2}
  NoRow = NoRow
  Kept = Kept
  Titles = {"t1"}
  Kinds <- AllKinds
  Faults = {}
  MaxRedeliveries = 0
SYMMETRY Symmetry
INVARIANT PartsOwned
CHECK_DEADLOCK FALSE
