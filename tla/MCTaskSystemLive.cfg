SPECIFICATION FairSpec
CONSTANTS
  Tasks = {}
  TimedTasks = {}
  Events = {e1}
  EventIdMax = 1
  MaxTime = 1
  MaxDelay = 1
  Signals = {"quit", "term"}
  MaxSignals = 2
PROPERTIES QuitStopsDispatcher EventsLeave
CHECK_DEADLOCK FALSE
