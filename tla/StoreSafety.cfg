SPECIFICATION Spec
CONSTANTS
  Models = {m}
  Customs = {c}
  Drops = {d}
  Junk = Junk
  None = None
  Chunks = 2
  MaxTries = 2
  MaxOps = 2
  MaxFaults = 1
INVARIANTS TypeOK InstalledIsCatalog NothingOrphaned
PROPERTIES RefreshAgrees ImplementsLedger
CHECK_DEADLOCK FALSE
