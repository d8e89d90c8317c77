SPECIFICATION Spec
CONSTANTS
  a1 = a1
  a2 = a2
  Accounts = {a1, a2}
  Privileged = {}
  PlayerLimit = 1
  Tolerance = TRUE
  Kinds = {"login", "logout", "move"}
  PacketsPerUpdate = 2
  MaxSessions = 3
  MaxInputs = 5
CONSTRAINT FirstAccount
INVARIANTS QueueIsExact LimitHolds CharacterIsKept
PROPERTIES NoOvertaking SessionsEnd
