SPECIFICATION Spec
CONSTANTS
  Pairs = {"heroic", "raid"}
  Period <- MCPeriod
  Day = 6
  Minute = 1
  Delay <- MCDelay
  Hours = {2}
  Forced = {"heroic"}
  MaxTime = 20
  MaxWrites = 1
INVARIANTS AlwaysOnePending
