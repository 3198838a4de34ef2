CONSTANTS
  MaxVersion = 3
  MaxMishaps = 1
  ReuseKey = TRUE
  None = None
SPECIFICATION Spec
INVARIANTS PublishesComplete DeployRecovers
PROPERTIES WriteOnce LinkNeverLost NeverBackwards
CHECK_DEADLOCK FALSE
