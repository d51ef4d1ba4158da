SPECIFICATION Spec
CONSTANTS
  c1 = c1
  c2 = c2
  c3 = c3
  Workers = {w1, w2}
  Cells = {c1, c2, c3}
  Jobs <- MCJobs
  Legacy = {c3}
  MaxTx = 2
SYMMETRY Replicas
INVARIANTS ExplicitKeyOnce CellsAgree NoCellVanishes
PROPERTIES ImplicitHitIsFresh ImplementsLedger
