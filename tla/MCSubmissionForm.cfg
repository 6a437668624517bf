\* Three attempts under two keys: retries that overtake the attempt they
\* repeat, corrected fields, a form unmounted with an attempt on its way.
CONSTANTS
  low = low
  high = high
  wrong = wrong
  Entries <- ThreeEntries
  Invalid <- WrongEntry
  NoEntry = NoEntry
  MaxKeys = 2
  MaxAttempts = 3
SPECIFICATION MCSpec
SYMMETRY EntrySymmetry
INVARIANTS
  UnseenEffectKeepsItsKey
  StatusTellsTheTruth
