SPECIFICATION Spec
CONSTANTS
  stock = stock
  magisk = magisk
  data = data
  rom = rom
  zero = zero
  torn = torn
  used = used
  wrong = wrong
  NoFile = NoFile
  Zero = zero
  Torn = torn
  Used = used
  Wrong = wrong
  MayWrite <- MCMayWrite
  Rank <- MCRank
  Content <- MCContent
  Pin <- MCPin
  Image <- MCImage
  KnownBcb <- MCKnownBcb
  BootWrites <- MCBootWrites
  Disk0 <- MCDisk0
  MaxRuns = 3
  MaxFaults = 1
INVARIANTS TypeOK BackupFaithful RestoreExact InstallExact
