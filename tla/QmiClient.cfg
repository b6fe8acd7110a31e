SPECIFICATION Spec
CONSTANTS
  Requester = {"q1", "q2"}
  Server <- MCServer
  Service = {"NAS", "WDS"}
  SvcOf <- MCSvcOf
  Remote <- MCServer
  TxnMax = 2
  NoSlot = NoSlot
  MaxCalls = 2
  MaxFails = 1
  MaxModem = 2
INVARIANTS TypeOK ObserversTrack WaitsForSomeone
PROPERTIES CallsAreOwn Reopens
CHECK_DEADLOCK FALSE
