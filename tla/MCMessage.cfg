SPECIFICATION Spec
CONSTANTS
  Base = 7
  BODY = 10
  Corpus <- MCCorpus
  NoPrekey = NoPrekey
  Keys = {k1, k2}
  Prekeys = {p1, k1}
  Records <- MCRecords
  MaxChain = 4
  Texts <- MCTexts
  Noise = {0, 6}
  Targets = {0, 1, 6}
  NoBlob = NoBlob
INVARIANTS TypeOK Faithful NothingUnreadable
