SPECIFICATION Spec
CONSTANTS
  Requests = {r1, r2, r3}
  Streams = {s1}
  Models = {m1, m2}
  Limits = {1}
  NoLimit = NoLimit
  NoModel = NoModel
  NoStream = NoStream
  Nobody = Nobody
SYMMETRY Symmetry
INVARIANTS TypeOK SlotAccounting NoLostWaiter BoundRespected LeaseFollowsSlot NoRunOnLeasedModel
PROPERTIES ServedInOrder
