SPECIFICATION FairSpec
CONSTANTS
  Msgs = {m1}
  AccountManager = FALSE
  BanUnknownBytes = FALSE
PROPERTY ClosingIsClosed
CHECK_DEADLOCK FALSE
