SPECIFICATION FairSpec
CONSTANTS
  Models = {m1}
  DropIns = {}
  Requests = {r1}
  Admins = {a1, a2}
  Readers = {d1}
  NoModel = NoModel
  Nobody = Nobody
  MaxOps = 2
PROPERTIES EveryCallEnds
CHECK_DEADLOCK FALSE
