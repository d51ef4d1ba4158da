SPECIFICATION MCSpec
CONSTANTS
  None = None
  Workers = {w1, w2, w3}
  Skew = 1
  Legacy = 0
  MaxActions = 4
  MaxDamage = 2
  c1 = c1 c2 = c2 x1 = x1
  f1 = f1 f2 = f2
  Controls = {c1, c2}
  Clerks = {g1, g2}
  Frameworks = {f1, f2}
  InScope <- MCInScope
  Assets = {x1, x2}
  Stages = {"planning"}
  Reviews = {"not_started", "approved"}
  Answers = {"open"}
  MaxCallers = 3
  MaxAudits = 1
  MaxRequests = 1
  MaxMoves = 1
SYMMETRY Transactions
INVARIANTS ChainResolves OvercountMeansLoss OrderlyChainIsJudged ChecklistIsCurrent
PROPERTIES ReviewStands
