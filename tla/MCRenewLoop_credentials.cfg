CONSTANTS
  h1 = h1
  h2 = h2
  N = 2
  Hook = {}
  Cred = {c1, c2}
  None = None
  DirHooks = TRUE
  MaxRuns = 1
SPECIFICATION Spec
PROPERTY CredentialsOwn
CHECK_DEADLOCK FALSE
