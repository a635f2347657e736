SPECIFICATION FairSpec
CONSTANTS
  Items = {i1, i2}
  Types <- MCTypes
  DecayTime <- MCDecayTime
  DecayTo <- MCDecayTo
  StopTime <- MCStopTime
  Class <- MCClass
  OnTop <- MCOnTop
  Buckets = 3
  MaxEntries = 2
INVARIANTS TypeOK RefsCounted NoneForgotten InTime
PROPERTY DecayingEnds
