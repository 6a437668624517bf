\* Four endorsements over a six-day term: halves, thirds and ties of both signs,
\* and premium changes large enough to overflow.
CONSTANTS
  TermDays = 6
  InitialPremium = 6
  Premiums <- SmallPremiums
  MaxSteps = 4
  MaxBigint = 60
SPECIFICATION MCSpec
INVARIANTS
  DriftBounded
  ReversalCancels
PROPERTY BillsWithinChange
