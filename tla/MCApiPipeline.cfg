\* Two callers, a window of two ticks with a limit of one, and a restart.
CONSTANTS
  Keys = {k1, k2}
  ApiKey = k1
  Kinds <- FailingKinds
  Window = 2
  Limit = 1
  MaxRequests = 4
  MaxTime = 3
  MaxRestarts = 1
SPECIFICATION MCFairSpec
INVARIANTS RefusalIsEarned BurstIsBounded NobodyIsLockedOut
PROPERTY EveryRequestIsAnswered
