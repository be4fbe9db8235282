SPECIFICATION Spec
CONSTANTS
  Models = {m1, m2}
  DropIns = {m2}
  Requests = {r1, r2}
  Admins = {a1, a2}
  Readers = {}
  NoModel = NoModel
  Nobody = Nobody
  MaxOps = 2
SYMMETRY Symmetry
INVARIANTS TypeOK RunsOnAskedModel CondemnedNotServed DefaultIsRegistered NobodyInferringOnUnload
CHECK_DEADLOCK FALSE
