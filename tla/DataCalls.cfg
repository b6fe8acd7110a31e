SPECIFICATION Spec
CONSTANTS
  Cid = {1}
  Fam = {4, 6}
  MaxGen = 2
  MaxAsked = 2
  MaxModem = 1
  MaxCrash = 1
INVARIANTS TypeOK EndedIsNoticed SettingsFresh ShownIsTracked NothingLeft
PROPERTIES NoStaleTearDown EndedIsHidden
CHECK_DEADLOCK FALSE
