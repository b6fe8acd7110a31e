SPECIFICATION FairSpec
CONSTANTS
  Part <- MCPart
  Rank <- MCRank
  Size <- MCSize
  Build <- MCBuild
  Image <- MCImage
  Block <- MCBlock
  Junk = "x"
  Compat <- KeySwitch
  Installed0 = "A"
  Launches <- WipeLaunches
  MaxRuns = 3
  MaxTouch = 1
  NoBackup = NoBackup
  NoPart = NoPart
CHECK_DEADLOCK FALSE
PROPERTIES PowerOnlyWhenDone WipeAfterImages EveryRunEnds
