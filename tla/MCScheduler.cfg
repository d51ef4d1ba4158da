SPECIFICATION MCSpec
CONSTANTS
  Schedules = {s1, s2}
  Workers = {w1, w2}
  Requests = {r1}
  NoOne = NoOne
  Dead = Dead
  Lease = 3
  Interval <- MCInterval
  MaxTick = 4
  MaxCrashes = 2
INVARIANT LeaseHonoured
PROPERTIES StaleListNeverReruns DueIsAttempted
