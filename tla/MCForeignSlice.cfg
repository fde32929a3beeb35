CONSTANTS
  WindowSize = 4
  CheckpointInterval = 2
  MaxSeqno = 8
  Orderly = FALSE
SPECIFICATION Spec
INVARIANTS ExecutesOwn
