CONSTANTS
  Agent = {1}
  Time = {0}
  Cell = {k}
  Proposal = {}
  Value = {1, 2}
  Process = {p1}
  Dir = {d1}
  Nowhere = Nowhere
  MaxWrites = 3
SPECIFICATION LiveSpec
INVARIANT LiveHasValue
CHECK_DEADLOCK FALSE
