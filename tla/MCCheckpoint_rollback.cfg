CONSTANTS
  f1 = f1
  f2 = f2
  None = None
  File <- TwoFiles
  Shipped <- OneShipped
  RootConf = f1
  Plugins = {}
  MaxRollback = 2
  MaxTexts = 3
  MaxBackups = 2
SPECIFICATION Spec
PROPERTIES RollbackReplays
CHECK_DEADLOCK FALSE
