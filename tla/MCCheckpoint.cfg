CONSTANTS
  f1 = f1
  f2 = f2
  None = None
  File <- TwoFiles
  Shipped <- OneShipped
  RootConf = f1
  Plugins = {"apache", "nginx"}
  MaxRollback = 1
  MaxTexts = 1
  MaxBackups = 1
SPECIFICATION Spec
INVARIANTS RecoveryClears
PROPERTIES CrashSafe ImplementsConfigStore
CHECK_DEADLOCK FALSE
