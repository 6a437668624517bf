\* One external payment submitted under two keys.
CONSTANTS
  Sessions = {s1}
  NoSession = NoSession
  NoCall = NoCall
  Seed <- OnePolicy
  EndorsementCalls <- NoCalls
  PaymentCalls <- OneMoneyTwoKeys
  MaxCalls = 2
  MaxBigint = 1000
SPECIFICATION MCSpec
INVARIANT ExternalPaymentOnce
