CONSTANTS
  p1 = p1
  p2 = p2
  p3 = p3
  Proc = {p1, p2, p3}
  Backups = {0, 1, 3}
  None = None
  MaxStarts = 6
SPECIFICATION Spec
INVARIANTS RunningLogLasts
PROPERTY LogSurvivesRotation
SYMMETRY Symmetry
CHECK_DEADLOCK FALSE
