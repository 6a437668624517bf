\* One writer, one reader, two calls.
CONSTANTS
  Readers = {r1}
  NoCall = NoCall
  Nothing = Nothing
  Seed <- OnePolicy
  Calls <- EndorseAndPay
  AskedFor <- KnownAndUnknown
  MaxBigint = 1000
SPECIFICATION Spec
INVARIANTS ShowsWhatWasTold BalanceIsListed
PROPERTY QuietReadIsExact
