SPECIFICATION Spec
CONSTANTS
  Servers = {s1, s2}
  Commands = {c1, c2}
  Ports = {p1, p2}
  DefaultPort = p1
  Contended = {p1}
  FlagPorts = {None}
  FlagHosts = {None, "address"}
  FlagModes = {None}
  Ops = {"start", "stop", "restart", "status", "models", "enable", "disable", "install", "uninstall"}
  Strangers = {"sibling", "other"}
  Faults = {"kill", "open", "write", "slow"}
  None = None
SYMMETRY Symmetry
INVARIANTS TypeOK RecordLeads StopTellsTruth
PROPERTIES RecordKept
CHECK_DEADLOCK FALSE
