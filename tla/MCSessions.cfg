SPECIFICATION Spec
CONSTANTS
  Characters = {a, b, gm}
  Privileged = {gm}
  Premium = {b}
  MAX_PLAYERS = 2
  PREMIUM_SKIP_WAIT = FALSE
  Protocols = {q1, q2}
  Null = Null
  Gone = Gone
  MaxTasks = 2
SYMMETRY Symmetry
INVARIANTS TypeOK OneMaster ClosedIsEmpty
PROPERTIES PlacesKept
CHECK_DEADLOCK FALSE
