\* Two policies and every refusal: the business rules decide as the service does,
\* and every call ends.
CONSTANTS
  Sessions = {s1, s2}
  NoSession = NoSession
  NoCall = NoCall
  Seed <- TwoPolicies
  EndorsementCalls <- RuledEndorsements
  PaymentCalls <- RuledPayments
  MaxCalls = 2
  MaxBigint = 100
SPECIFICATION MCFairSpec
INVARIANT ServerErrorsExplained
PROPERTIES RefinesService EveryCallEnds
