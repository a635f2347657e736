SPECIFICATION Spec
CONSTANTS
  Players = {p1, p2, p3}
  Parties = {A, B}
  Null = Null
  Refused = {p1, p2, p3}
  Killed = {}
  SelfInviters = {p3}
  Talkers = {p3}
SYMMETRY Symmetry
INVARIANTS TypeOK PartiesAgree NoneAlone SharersEarned ChannelUsersLive
