\* An endorsement, another one, and a replay of the first.
CONSTANTS
  Sessions = {s1}
  NoSession = NoSession
  NoCall = NoCall
  Seed <- OnePolicy
  EndorsementCalls <- TwoEndorsements
  PaymentCalls <- NoCalls
  MaxCalls = 3
  MaxBigint = 1000
SPECIFICATION MCSpec
INVARIANT ReplayIsVerbatim
