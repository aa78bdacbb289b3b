SPECIFICATION MCSpec
CONSTANTS
  Procs = {p, q}
  Operated = {p}
  MaxLaunches = 2
  MaxSaves = 2
  MaxFaults = 1
  None = None
CHECK_DEADLOCK FALSE
INVARIANT OneInstance
INVARIANT FileWhole
PROPERTY EndsWhenAsked
PROPERTY NewestConfig
PROPERTY StopObeyed
