\* Goroutines that may hang, with the store in time for the manifest.
SPECIFICATION StoppableSpec
CONSTANTS
  N = 3
  Concurrency = 0
  Kinds <- TwoKinds
  InFlightGrace = 1
  ManifestGrace = 3
  FilingTime = 1
  None = None
INVARIANTS NeverLost
PROPERTIES StoppedIsFiled SettlesAll
CHECK_DEADLOCK FALSE
