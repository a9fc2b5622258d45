CONSTANTS
  Objects = {n1, n2, n3}
  Sizes = {"exact", "long"}
  Labels = {l}
  Members = {l, x}
  Days <- MCDays
  DaysPerEpoch = 2
  MaxDraws = 3
  MaxDepth = 2
SPECIFICATION Spec
SYMMETRY MCSymmetry
INVARIANTS TypeOK WhoCanDerive
PROPERTIES NoCovertByTheBack
