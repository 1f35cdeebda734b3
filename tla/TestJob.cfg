CONSTANTS
  NumTests = 1
  Workers = {w1, w2}
SPECIFICATION FairSpec
INVARIANTS ResultTruthful
PROPERTIES WalksTable ResultShown
CHECK_DEADLOCK FALSE
