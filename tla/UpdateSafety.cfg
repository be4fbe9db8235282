SPECIFICATION Spec
CONSTANTS
  MaxUpdates = 2
  MaxFaults = 1
  MaxCrashes = 1
  MaxLaunches = 1
  MaxWrites = 1
  Fallible = {"guarded", "tidied", "prepared", "saved", "refused", "polled", "registered",
    "armed", "abandon", "unarmed", "stopping", "stop", "lock", "snapshot",
    "snapshotted", "replacing", "retire", "install", "validating", "start",
    "ready", "stopNew", "committing", "failed", "undoing", "stopAgain",
    "lockAgain", "restoreExe", "restoreDb", "putDb", "startAgain", "readyAgain",
    "restoring", "stuck", "cleanup", "saveGone", "locked", "opened"}
  NoJournal = NoJournal
  NoDb = NoDb
INVARIANTS TypeOK Recoverable StartableOutsideMaintenance ServerDownWhileReplaced OutcomeIsReal
PROPERTIES ImplementsAtomicUpdate
CHECK_DEADLOCK FALSE
