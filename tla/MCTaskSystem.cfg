SPECIFICATION Spec
CONSTANTS
  Tasks = {t1}
  TimedTasks = {t1}
  Events = {e1,e2}
  EventIdMax = 2
  MaxTime = 2
  MaxDelay = 2
  Signals = {"quit","term"}
  MaxSignals = 1
INVARIANTS TypeOK TasksOwned NoEarlyFire StoppedNeverRuns NoOversleep NoStrandedTask TasksInTurn
PROPERTY AlarmSpec
SYMMETRY MCSymmetry
CHECK_DEADLOCK FALSE
