SPECIFICATION Spec
CONSTANTS
  c1 = c1
  c2 = c2
  c3 = c3
  Workers = {w1, w2}
  Cells = {c1}
  Jobs <- JobsNoKey
  Legacy = {}
  MaxTx = 3
SYMMETRY Replicas
INVARIANT CurrentIsCited
