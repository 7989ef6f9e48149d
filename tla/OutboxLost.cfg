SPECIFICATION Spec
CONSTANTS
  w1 = w1
  w2 = w2
  Workers = {w1, w2}
  NoEvent = NoEvent
  Events <- OneEvent
  Malformed <- NoneMalformed
  Ref <- OneRef
  MaxAttempts = 2
  BatchSize = 1
  MaxDrainIterations = 2
  MaxFaults <- ListenerFault
  MaxReplays = 0
INVARIANT NothingLost
