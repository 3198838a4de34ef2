CONSTANTS
  None = None
  Domain = {"a", "b"}
  LineageName = {"a", "a-0001"}
  NameOf <- FirstNames
  KeyType = {"ecdsa", "rsa"}
  Usual = "ecdsa"
  MayDryRun = FALSE
  MaxOrders = 2
  MaxEdits = 1
SPECIFICATION Spec
INVARIANTS TypeOK ConfTells PostHookRuns
PROPERTIES NoShrink KeyTypeKept KeyReused RevokeSparesOthers
CHECK_DEADLOCK FALSE
