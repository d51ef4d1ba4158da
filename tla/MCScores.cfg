SPECIFICATION MCSpec
CONSTANTS
  c1 = c1 c2 = c2 a1 = a1 a2 = a2
  w1 = w1 w2 = w2
  Cells <- MCCells
  Waivers = {w1, w2}
  Terms <- MCTerms
  Criticality <- MCCriticality
  AnyAsset = AnyAsset
  Never = Never
  Weights = {0, 5}
  Expiries = {0, 1, Never}
  MaxClock = 2
  MaxListings = 2
  Keys = {k1, k2}
  Values = {pass, fail}
  Times = {1, 2, 3}
  None = None
  BackDated = FALSE
  MaxPuts = 3
INVARIANTS ProjectionIsExact ReadersAgree
PROPERTIES WaiverNeverLowers EndedForGood ImplementsAsOf
