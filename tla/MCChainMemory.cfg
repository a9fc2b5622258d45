CONSTANTS
  sender = sender
  receiver = receiver
  Endpoints <- MCEndpoints
  MaxFastForward = 2
  Starts = {0, 1}
  MaxStep = 4
  Buffers = {b1, b2, b3}
  Cells = {c1, c2, c3}
  NoCell = NoCell
  NoBuffer = NoBuffer
SPECIFICATION Spec
SYMMETRY MCSymmetry
INVARIANTS TypeOK Agreement PastIsGone OwnMemory
