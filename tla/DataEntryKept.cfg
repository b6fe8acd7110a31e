SPECIFICATION Spec
CONSTANTS
  Cid = {1}
  Fam = {4, 6}
  MaxGen = 2
  MaxAsked = 2
  MaxModem = 0
  MaxCrash = 1
INVARIANTS EntryIsKept
CHECK_DEADLOCK FALSE
