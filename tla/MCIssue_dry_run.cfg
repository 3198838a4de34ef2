CONSTANTS
  None = None
  Domain = {"a", "b"}
  LineageName = {"a", "a-0001"}
  NameOf <- FirstNames
  KeyType = {"ecdsa", "rsa"}
  Usual = "ecdsa"
  MayDryRun = TRUE
  MaxOrders = 1
  MaxEdits = 0
SPECIFICATION Spec
PROPERTIES DryRunWritesNothing
CHECK_DEADLOCK FALSE
