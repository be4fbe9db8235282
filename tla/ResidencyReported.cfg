SPECIFICATION Spec
CONSTANTS
  Models = {m1, m2}
  DropIns = {m2}
  Requests = {r1}
  Admins = {}
  Readers = {d1}
  NoModel = NoModel
  Nobody = Nobody
  MaxOps = 0
INVARIANT LoadIsReported
CHECK_DEADLOCK FALSE
