CONSTANTS
  Schedules = {s1, s2, s3}
  Runners = {r1, r2}
  Cron = {r1}
  Limit = 2
  MaxInterval = 2
  MaxAge = 1
  MaxLate = 4
  MaxEdits = 3
  Null = Null
  DueChoices <- MCChoices
SPECIFICATION FairSpec
INVARIANTS
  TypeOK
  OneRunnerPerSchedule
PROPERTIES
  OnlyOperatorsMoveBack
  DueIsRun
