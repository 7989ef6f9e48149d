SPECIFICATION FairSpec
CONSTANTS
  w1 = w1
  w2 = w2
  Workers = {w1, w2}
  NoEvent = NoEvent
  Events <- TwoEvents
  Malformed <- Second
  Ref <- OneRef
  MaxAttempts = 2
  BatchSize = 1
  MaxDrainIterations = 2
  MaxFaults <- DbAndNotice
  MaxReplays = 0
PROPERTIES KeepsPromise RowsSettle
