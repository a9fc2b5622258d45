CONSTANTS
  Devices = {d1, d2, d3}
  Objects = {h1, h2, h3}
SPECIFICATION HandshakeSpec
SYMMETRY MCSymmetry
INVARIANTS HandshakeTypeOK OnlyPartnersShare ForwardSecrecy
CHECK_DEADLOCK FALSE
