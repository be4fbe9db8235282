SPECIFICATION FairSpec
CONSTANTS
  MaxUpdates = 2
  MaxFaults = 1
  MaxCrashes = 1
  MaxLaunches = 0
  MaxWrites = 0
  Fallible = {"saved", "polled", "armed", "stop", "snapshot", "validating", "start",
    "ready", "failed", "restoreExe", "putDb", "readyAgain", "committing", "restoring",
    "stuck", "cleanup", "saveGone", "opened"}
  NoJournal = NoJournal
  NoDb = NoDb
PROPERTIES UpdateEnds
CHECK_DEADLOCK FALSE
