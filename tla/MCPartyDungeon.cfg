SPECIFICATION Spec
CONSTANTS
  Players = {p1, p2, p3}
  Parties = {A, B}
  Null = Null
  Refused = {p1, p2, p3}
  Killed = {p1, p2, p3}
  SelfInviters = {}
  Talkers = {p3}
SYMMETRY Symmetry
INVARIANT NoneLeftBehind
