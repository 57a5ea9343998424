SPECIFICATION Spec
CONSTANTS
  Repos = {"a"}
  RefMaps = {v1, v2}
  NoRefs = none
  LFSRepos = {}
  NoMetadata = {}
  Runners = {"w1"}
  Days = 4
  Policy = 0
  Answers <- SometimesUnknown
  MaxSkip = 30
  MaxPrevious = 2
  Resume = FALSE
  Recopy = {}
  RequireWORM = FALSE
  DayLength = 2
  MaxRun = 0
  MaxTime = 4
  MaxRuns = 3
SYMMETRY Symmetry
INVARIANTS
  SkipRestsOnLockedCopy
CHECK_DEADLOCK FALSE
