CONSTANTS
  a = a
  b = b
  Endpoints <- MCEndpoints
  Senders <- MCSenders
  Keys <- MCKeys
  SendKey <- MCSendKeys
  RecvKey <- MCRecvKeys
  MaxSeq = 3
  Width = 2
  Kinds = {"single", "text", "chain", "hidden"}
  MaxBlobs = 2
SPECIFICATION Spec
INVARIANTS TypeOK NothingTwice FreshIsAccepted
PROPERTY RetryNeverOpens
