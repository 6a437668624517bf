\* Two forms, two commits, two loads in flight: answers in any order, torn
\* bodies, failures.
CONSTANTS
  Forms = {endorsement, payment}
  NoBody = NoBody
  MaxVersion = 2
  MaxLoads = 2
SPECIFICATION MCFairSpec
INVARIANTS
  NotModifiedMatchesData
  SettledShowsSubmissions
  IndicatorIsHonest
PROPERTIES
  NeverGoesBack
  SubmissionShows
