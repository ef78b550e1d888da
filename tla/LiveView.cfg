CONSTANTS
  Agent = {1, 2}
  Time = {0}
  Cell = {k, s}
  Proposal = {s}
  Value = {1, 2}
  Process = {p1}
  Dir = {d1, d2}
  Nowhere = Nowhere
  MaxWrites = 3
SPECIFICATION LiveSpec
INVARIANTS TypeOK FrontierIsMax CausalOrder PendingIsUndecided LiveIsLatest
PROPERTY ImplementsCausalLog
SYMMETRY Symmetry
CHECK_DEADLOCK FALSE
