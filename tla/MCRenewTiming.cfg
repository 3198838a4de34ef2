CONSTANTS
  None = None
  Lifetime <- ShortAndLong
  ShortCutoff = 5
  RenewBefore = {0, 3, 12}
  Cooldown = 2
  LongestWait = 6
SPECIFICATION Spec
PROPERTIES DueIsAttempted CooldownFollowsAttempt
CHECK_DEADLOCK FALSE
