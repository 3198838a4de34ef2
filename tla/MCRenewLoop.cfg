CONSTANTS
  h1 = h1
  h2 = h2
  N = 2
  Hook = {h1, h2}
  Cred = {c1}
  None = None
  DirHooks = TRUE
  MaxRuns = 1
SPECIFICATION Spec
INVARIANTS TypeOK PreHookOnceBefore ExitOkIsTrue
PROPERTY SettingsKept
SYMMETRY Symmetry
CHECK_DEADLOCK FALSE
