SPECIFICATION Spec
CONSTANTS
  Part <- MCPart
  Rank <- MCRank
  Size <- MCSize
  Build <- MCBuild
  Image <- MCImage
  Block <- MCBlock
  Junk = "x"
  Compat <- KeySwitch
  Installed0 = "A"
  Launches <- WipeLaunches
  MaxRuns = 2
  MaxTouch = 0
  NoBackup = NoBackup
  NoPart = NoPart
CHECK_DEADLOCK FALSE
PROPERTIES KeepDataBootable
