SPECIFICATION FairSpec
CONSTANTS
  Requests = {"first", "second"}
  Models <- MCModels
  Caps <- MCCaps
  Rejecting = {"canary"}
  Modes = {"local", "custom", "lan", "tailscale"}
  Worlds <- MCWorlds
  Asks <- MCAsks
  Selected = {"canary"}
  None = None
INVARIANTS AnswerHonoursAsk ViewIsTrue
PROPERTIES RemoteShutOut
CHECK_DEADLOCK FALSE
