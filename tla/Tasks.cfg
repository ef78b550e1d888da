CONSTANTS
  t1 = t1
  t2 = t2
  t3 = t3
  Task = {t1, t2, t3}
  Epic = {t2}
  Staged = {t1, t2, t3}
  Imports <- ImportsValue
  Process = {p1, p2}
  Dir = {d1, d2}
  Nowhere = Nowhere
  MaxWrites <- Bounds
SPECIFICATION Spec
INVARIANTS TypeOK CyclesAreBlind SomethingToDo
PROPERTY StatusNeverDecreases
SYMMETRY Symmetry
CHECK_DEADLOCK FALSE
