SPECIFICATION FairSpec
CONSTANTS
  Conns = {c1, c2}
  None = None
  MaxEvents = 3
INVARIANTS SlotFollowsItem DeltasMakeTranscript
PROPERTIES OneFinalEvent ClientIsServed
CHECK_DEADLOCK FALSE
