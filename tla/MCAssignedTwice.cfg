CONSTANTS
  N = 4
  F = 1
  a = a
  b = b
  Client = {a, b}
  ReadOnly = {}
  None = None
  QueueMax = 1
  WindowSize = 3
  CheckpointInterval = 3
  Hears <- OneHeardTwice
  Faulty = {3}
  MaxRid = 1
  MaxView = 0
  MaxSeqno = 3
  MaxLost = 0
  MaxTrouble <- NoTrouble
  Patient = {0, 1, 2, 3}
  Idle = {2}
SPECIFICATION Spec
CHECK_DEADLOCK FALSE
INVARIANTS AssignedOnce
