SPECIFICATION Spec
CONSTANTS
  Repos = {"a"}
  RefMaps = {v1, v2}
  NoRefs = none
  LFSRepos = {"a"}
  NoMetadata = {}
  Runners = {w1, w2}
  Days = 6
  Policy = 0
  Answers <- Confirmed
  MaxSkip = 30
  MaxPrevious = 2
  Resume = TRUE
  Recopy = {"a"}
  RequireWORM = FALSE
  DayLength = 2
  MaxRun = 1
  MaxTime = 3
  MaxRuns = 2
SYMMETRY OverlapSymmetry
INVARIANTS
  RecordedCopiesExist
  CopyIsOneRuns
PROPERTIES
  CreateOnly
CHECK_DEADLOCK FALSE
