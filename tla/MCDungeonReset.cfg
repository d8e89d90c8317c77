SPECIFICATION Spec
CONSTANTS
  Players = {p1, p2}
  MaxId = 2
  Delay = 1
  Respawn = 1
  MaxTime = 4
  MaxEvents = 2
SYMMETRY Symmetry
INVARIANTS TypeOK BindsAreMutual NoIdLeak
PROPERTIES ProgressIsKept
