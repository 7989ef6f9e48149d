SPECIFICATION Spec
CONSTANTS
  w1 = w1
  w2 = w2
  Workers = {w1, w2}
  NoEvent = NoEvent
  Events <- TwoEvents
  Malformed <- Second
  Ref <- OneRef
  MaxAttempts = 2
  BatchSize = 1
  MaxDrainIterations = 1
  MaxFaults <- OneOfEach
  MaxReplays = 1
SYMMETRY WorkerSymmetry
INVARIANTS TypeOK SoleHolder NoStrandedRow FailureAnnounced
PROPERTIES CompletedIsFinal KeepsPromiseSafely
