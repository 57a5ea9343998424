\* The same store, and a second writer between the look and the write.
SPECIFICATION Spec
CONSTANTS
  Writers <- Two
  Bytes <- TwoBytes
  Until <- TwoUntil
  Parts <- ThreeParts
  PartsInFlight = 2
  Attempts = 2
  Conditional = FALSE
  FullObject = FALSE
  None = None
PROPERTIES NeverOverwrites
CHECK_DEADLOCK FALSE
