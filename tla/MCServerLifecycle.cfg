\* Three writes and a read share two clients; two signals and a drop.
CONSTANTS
  Writes = {w1, w2, w3}
  Reads = {r1}
  Queries = 2
  PoolMax = 2
  MaxSignals = 2
  MaxDrops = 1
SPECIFICATION MCFairSpec
INVARIANT PoolIsBounded
PROPERTIES OnlyDropsLoseCallers EveryCallerIsServed ShutdownEnds
