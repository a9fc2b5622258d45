CONSTANTS
  Windows = {u, v}
  Keys = {k, l, m}
  MaxSeq = 2
  Width = 2
  MaxBlobs = 2
  MaxChanges = 3
SPECIFICATION Spec
SYMMETRY Symmetry
INVARIANTS TypeOK KeyInForce OncePerSession FreshArrives
