SPECIFICATION Spec
CONSTANTS
  Pairs = {"heroic", "raid"}
  Period <- MCPeriod
  Day = 6
  Minute = 1
  Delay <- MCDelay
  Hours = {1, 3}
  Forced = {"heroic"}
  MaxTime = 26
  MaxWrites = 2
INVARIANTS TypeOK OnePending DatabaseFollows NoStaleLockout
PROPERTIES UpToDate NeverEarly
