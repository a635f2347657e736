SPECIFICATION Spec
CONSTANTS
  Msgs = {m1,m2}
  AccountManager = TRUE
  BanUnknownBytes = TRUE
INVARIANTS TypeOK MessagesPlaced Counted PointersLive HandlersFindSocket OneWrite
PROPERTY SharedSpec
SYMMETRY MCSymmetry
CHECK_DEADLOCK FALSE
