CONSTANTS
  Schedules = {s1}
  Runners = {r1, r2}
  Cron = {r1}
  Limit = 1
  MaxInterval = 2
  MaxAge = 2
  MaxLate = 3
  MaxEdits = 1
  Null = Null
  DueChoices <- MCChoices
SPECIFICATION Spec
INVARIANTS
  SameDueTimeOnce
