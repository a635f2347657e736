SPECIFICATION FairSpec
CONSTANTS
  Creatures = {c1, c2}
  Null = Null
  EVENT_CREATURECOUNT = 2
  MaxHeld = 1
INVARIANTS TypeOK EntriesCounted
PROPERTY RemovedIsDeleted
