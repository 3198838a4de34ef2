SPECIFICATION Spec
CONSTANTS
  Foreign = Foreign
  None = None
  Domain <- MCDomain
  Layout <- MCLayout
  MaxRuns = 3
INVARIANTS GivenBack IncludeIsThere ChallengeAnswered InstallTwiceIsOnce
PROPERTIES InstalledIsServed OthersKeepTheirs HttpKept RedirectsDoNotLoop
CHECK_DEADLOCK FALSE
