SPECIFICATION Spec
CONSTANTS
  Coord = {"install", "restore"}
  Operator = "operator"
  Unit <- MCUnit
  Rank <- MCRank
  Kind <- ByName
  Phone0 = "stock"
  NoRec = NoRec
  NoUnit = NoUnit
  Free = Free
INVARIANTS TypeOK MaskRecorded OwnedRestorable SoleCoordinatorPauses
PROPERTIES ServicesBack RestoredMeansUnmasked
