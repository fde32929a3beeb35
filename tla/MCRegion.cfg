CONSTANTS
  WindowSize = 4
  CheckpointInterval = 2
  MaxSeqno = 8
  Orderly = TRUE
SPECIFICATION Spec
INVARIANTS TypeOK HeadFollows SlotsOwn ExecutesOwn
PROPERTIES InFlightKept
