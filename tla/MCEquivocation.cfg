CONSTANTS
  N = 4
  F = 1
  CertMaxVals = 2
  WindowSize = 2
  CheckpointInterval = 1
  NoDigest = NoDigest
  Faulty = {0}
  Request = {a, b}
  Rejected = {}
  MaxView = 0
  MaxSeqno = 1
  PeerSeqno = {2}
  FaultyCkpt = {1}
  FaultySends <- SomeClaims
  Impatient = {3}
  Idle = {}
SPECIFICATION Spec
CONSTRAINTS SplitVote LastHearsLate
CHECK_DEADLOCK FALSE
INVARIANTS TypeOK Agreement ExecutedByQuorum UniqueCommitQuorum StableIsProven
PROPERTIES ImplementsLedger
