\* Two sessions, four calls on one policy: the concurrency of the core.
CONSTANTS
  Sessions = {s1, s2}
  NoSession = NoSession
  NoCall = NoCall
  Seed <- OnePolicy
  EndorsementCalls <- CompetingEndorsements
  PaymentCalls <- CompetingPayments
  MaxCalls = 4
  MaxBigint = 1000
SPECIFICATION MCSpec
SYMMETRY SessionSymmetry
INVARIANTS
  TypeOK
  ChainIntact
  PremiumsTelescope
  OpenBalanceAgrees
  OneEventPerKey
  AnswersNameTheirRow
  AnswersTellTheTruth
PROPERTIES
  AppendOnly
  RefinesService
