SPECIFICATION Spec
CONSTANTS
  Kinds = {"lfs", "bundle", "meta", "sha256"}
  Sizes = {5, 9}
  MiB = 2
  MaxBlocks = 2
  MaxStageBlock = 4
  Chunk = 2
  MaxOthers = 1
  None = None
  Names <- AllNames
  Clonable = {"main"}
  Commits = {1, 2}
  Objects <- WithLFS
  Remotes <- Sources
  MaxPushes = 2
INVARIANTS TypeOK CopyIsTheSources CopyIsWhole
PROPERTIES CopyEnds KeysAreCreateOnly
CHECK_DEADLOCK FALSE
