\* A store with neither: the key is looked at before each write.
SPECIFICATION FairSpec
CONSTANTS
  Writers <- Two
  Bytes <- TwoBytes
  Until <- TwoUntil
  Parts <- ThreeParts
  PartsInFlight = 2
  Attempts = 2
  Conditional = FALSE
  FullObject = FALSE
  None = None
INVARIANTS StoredIsThere NothingOverEarlier PartsCommitOnce CompletedWhole
PROPERTIES EveryCallReturns
CHECK_DEADLOCK FALSE
