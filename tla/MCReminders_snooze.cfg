SPECIFICATION Spec
CONSTANTS
  Items = {a}
  Plans <- SnoozePlans
  StartGrace = 2
  AllDayLate = 3
  Lookahead = 5
  StateFloor = 6
  PruneAfter = 7
  MaxWake = 3
  Coalesce = 1
  SnoozeLength = 2
  MaxTime = 7
  MaxUsed = 1
INVARIANT NoSnoozeOverslept
