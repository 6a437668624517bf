\* Three runners, one of them started again.
CONSTANTS
  Runners = {m1, m2, m3}
  LastFile = 3
  Repeatable <- RepeatableFiles
  NeedsVariable <- FilesWithVariable
  MaxRuns = 4
SPECIFICATION FairSpec
INVARIANTS SchemaMatchesRecord AppliedInOrder SuccessIsComplete SomebodySucceeds
PROPERTY EveryRunEnds
\* Nobody has to start another runner.
CHECK_DEADLOCK FALSE
