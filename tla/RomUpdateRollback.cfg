SPECIFICATION Spec
CONSTANTS
  Part <- MCPart
  Rank <- MCRank
  Size <- MCSize
  Build <- MCBuild
  Image <- MCImage
  Block <- MCBlock
  Junk = "x"
  Compat <- SameKeys
  Installed0 = "A"
  Launches <- RollbackLaunches
  MaxRuns = 3
  MaxTouch = 1
  NoBackup = NoBackup
  NoPart = NoPart
CHECK_DEADLOCK FALSE
INVARIANTS TypeOK RollbackAdmitted
PROPERTIES UpdateIsAtomic
