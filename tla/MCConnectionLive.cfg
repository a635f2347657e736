SPECIFICATION FairSpec
CONSTANTS
  Msgs = {m1}
  AccountManager = FALSE
  BanUnknownBytes = FALSE
INVARIANT LocksDoNotCross
PROPERTIES ProtocolIsDeleted ClosedIsReleased
CHECK_DEADLOCK FALSE
