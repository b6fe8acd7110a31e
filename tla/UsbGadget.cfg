SPECIFICATION Spec
CONSTANTS
  c1 = c1
  c2 = c2
  Down = Down
  Client <- MCClient
  Requests <- MCRequests
  Available <- MCAvailable
  Ffs <- MCFfs
  MaxGen = 3
  MaxFaults = 2
INVARIANTS TypeOK Coherent
PROPERTIES SuccessIsTrue Rebinds
CHECK_DEADLOCK FALSE
