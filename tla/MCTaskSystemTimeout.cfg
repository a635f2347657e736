SPECIFICATION Spec
CONSTANTS
  Tasks = {}
  TimedTasks = {}
  Events = {e1}
  EventIdMax = 1
  MaxTime = 1
  MaxDelay = 1
  Signals = {"quit"}
  MaxSignals = 1
INVARIANT TimeoutFindsAnEvent
CHECK_DEADLOCK FALSE
