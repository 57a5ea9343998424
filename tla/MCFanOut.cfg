\* A store that may be too slow for the manifest's grace.
SPECIFICATION WorkingSpec
CONSTANTS
  N = 3
  Concurrency = 2
  Kinds <- OneKind
  InFlightGrace = 1
  ManifestGrace = 2
  FilingTime = 2
  None = None
INVARIANTS TypeOK ToldOnce InFlightLimit RecordedWereStored OpenWasStarted
PROPERTIES EventuallyFiled
CHECK_DEADLOCK FALSE
