CONSTANTS
  MaxSeq = 5
  Widths <- MCWidths
SPECIFICATION WindowSpec
INVARIANTS WindowTypeOK MaskIsMemory AcceptIsExact
PROPERTY KeepsPromise
