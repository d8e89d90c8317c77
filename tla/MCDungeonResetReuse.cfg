SPECIFICATION Spec
CONSTANTS
  Players = {p1, p2}
  MaxId = 2
  Delay = 2
  Respawn = 1
  MaxTime = 6
  MaxEvents = 3
SYMMETRY Symmetry
PROPERTIES NewInstanceIsNew
