\* AWS: conditional writes and full-object checksums.
SPECIFICATION Spec
CONSTANTS
  Writers <- Three
  Bytes <- SameBytes
  Until <- ThreeUntil
  Parts <- OnePart
  PartsInFlight = 2
  Attempts = 2
  Conditional = TRUE
  FullObject = TRUE
  None = None
PROPERTIES KeyIsCreateOnly
CHECK_DEADLOCK FALSE
