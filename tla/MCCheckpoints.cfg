CONSTANTS
  N = 4
  F = 1
  CertMaxVals = 2
  WindowSize = 2
  CheckpointInterval = 1
  NoDigest = NoDigest
  Faulty = {3}
  Request = {a, b}
  Rejected = {b}
  MaxView = 0
  MaxSeqno = 3
  PeerSeqno = {}
  FaultyCkpt = {1}
  FaultySends <- FirstWindow
  Impatient = {}
  Idle = {2}
SPECIFICATION Spec
CONSTRAINT TwoInFlight
CHECK_DEADLOCK FALSE
INVARIANTS CheckpointAgreement StableIsProven NoGaps
PROPERTIES ExecutesInOrder
