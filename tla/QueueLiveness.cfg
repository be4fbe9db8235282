SPECIFICATION FairSpec
CONSTANTS
  Requests = {r1, r2}
  Streams = {s1}
  Models = {m1}
  Limits = {1}
  NoLimit = NoLimit
  NoModel = NoModel
  NoStream = NoStream
  Nobody = Nobody
PROPERTIES WaitersServed ImplementsSlot
