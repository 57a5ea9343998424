SPECIFICATION Spec
CONSTANTS
  Repos = {"a", "b"}
  RefMaps = {v1}
  NoRefs = none
  LFSRepos = {}
  NoMetadata = {"b"}
  Runners = {"w1"}
  Days = 30
  Policy = 4
  Answers <- PolicyRead
  MaxSkip = 30
  MaxPrevious = 2
  Resume = TRUE
  Recopy = {}
  RequireWORM = FALSE
  DayLength = 2
  MaxRun = 0
  MaxTime = 5
  MaxRuns = 2
INVARIANTS
  SkipRestsOnLockedCopy
CHECK_DEADLOCK FALSE
