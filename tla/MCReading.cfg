SPECIFICATION Spec
CONSTANTS
  N = 2
  Dates = {0, 1}
  DayLength = 2
  Dirs = 2
  Names <- Where
  Bundles = {"x", "y", "w", "v", "bad"}
  Archives = {"lfs", "other", "unsafe"}
  Docs <- AllDocs
  Signed <- OurDocs
  Histories <- OnRecord
  MaxChanges = 1
  None = None
  Declares <- Headers
  Intact = {"x", "y", "w", "v"}
  Tree <- Files
  Holds <- Contents
  Safe = {"lfs", "other"}
  Settings <- Keys
  SourceRefs <- AtSource
  Now = 3
  Concurrency = 2
INVARIANTS TypeOK SignedIsRestored HistoryIsBack SearchFinds DrillProves ReportKeyVerifies VerifiedWasRead
PROPERTY CommandEnds
CHECK_DEADLOCK FALSE
