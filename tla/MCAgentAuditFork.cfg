SPECIFICATION Spec
CONSTANTS
  None = None
  Workers = {w1, w2}
  Skew = 0
  Legacy = 0
  MaxActions = 4
  MaxDamage = 0
INVARIANT HonestChainVerifies
