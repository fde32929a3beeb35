CONSTANTS
  N = 4
  F = 1
  a = a
  b = b
  Client = {a}
  ReadOnly = {}
  None = None
  QueueMax = 1
  WindowSize = 2
  CheckpointInterval = 1
  Hears <- NextPrimaryHears
  Faulty = {0}
  MaxRid = 2
  MaxView = 1
  MaxSeqno = 2
  MaxLost = 1
  MaxTrouble <- OnceForOne
  Patient = {3}
  Idle = {3}
SPECIFICATION Spec
CHECK_DEADLOCK FALSE
INVARIANTS TypeOK AnswerStands PendingIsTimed
PROPERTIES Served
