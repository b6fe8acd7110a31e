SPECIFICATION Spec
CONSTANTS
  Name <- MCName
  PART <- MCPART
  Writable = {"boot", "system"}
  Programmable = {"boot", "system", "metadata", "userdata"}
  ZeroLen = 1
  ZeroPart = {"metadata", "userdata"}
  Gpt <- MCGpt
  Sector <- MCSector
  Request <- MCRequest
  Plans <- MCPlans
  PrevLen <- MCPrevLen
  NewLen <- MCNewLen
  NoPlan = NoPlan
CHECK_DEADLOCK FALSE
INVARIANTS TypeOK ProtectedUntouched
