SPECIFICATION Spec
CONSTANTS
  Configs = {a, b}
  NoConfig = NoConfig
  Speeds = {0, 1, 2}
  MaxLen = 2
  Batches <- MCBatches
INVARIANTS
  TypeOK
  BestIsFastestEver
PROPERTIES
  CandidateSetRefined
