SPECIFICATION MCSpec
CONSTANTS
  Pages = {p1, p2, p3, p4, p5}
  First = p1
  Delimited = {p5}
  MaxPages = 4
  None = None
  Callers = {c1, c2, c3}
  FailThreshold = 3
  Cooldown = 2
  MaxRetries = 2
  Never = Never
  Clients = {a1}
  Forged = a0
  ApiKeys = {k1}
  NoKey = NoKey
  Hops = 2
  Limit = 2
  Window = 2
  SweepEvery = 2
  MaxBuckets = 1
  MaxNow = 5
  Tenants = {"t1", "t2"}
  All = "*"
  NoRow = "nobody"
  Headers = {"", "k1", "unknown"}
INVARIANTS CompleteOrNothing LeakIsBounded LimitIsHonoured ResponseIsDelivered ChangesAreWarranted
PROPERTY OpenEnds
