\* Late timers; triggers that match daily and once; no interval, and one that spans two days.
SPECIFICATION CronSpec
CONSTANTS
  UnitsPerSecond = 3
  SecondsPerDay = 2
  MaxLate = 2
  Any = Any
  Triggers <- MCTriggers
  Intervals = {0, 14}
  Horizon = 36
INVARIANTS RunsAsScheduled NoTwoSecondsSkipped FiresWhenPunctual
